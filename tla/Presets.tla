------------------------------- MODULE Presets --------------------------------
(***************************************************************************)
(* How a Preset turns the configuration of a symbol, a field, a variable   *)
(* or a type into the mutators of the variables, and how a Transition      *)
(* layers presets to send a symbol.                                        *)
(*                                                                         *)
(* Dictionaries that Python shares are shared here.  A call stores one     *)
(* dictionary of parameters under several keys (confs); the default        *)
(* parameters of a type belong to the table that was the class's when they *)
(* were created (an epoch: each new Preset, and clear, starts one) and are *)
(* reached from the class, from presets and from mutators; a mutator is    *)
(* shared by the presets that update each other (mutators).                *)
(*                                                                         *)
(* A loop of the code is a recursive function, of which Until[i] is what   *)
(* the loop has made after i turns.                                        *)
(***************************************************************************)
EXTENDS Integers, Sequences, FiniteSets, SequencesExt

CONSTANTS
    Variables,   \* the domain variables of the symbol
    Fields,      \* its fields
    Symbol,      \* the symbol itself
    SubFields,   \* Field.fields: the direct sub-fields of a field, in order
    Domain,      \* Field.domain
    LeafFields,  \* Symbol.getLeafFields(includePseudoFields=True), in order
    Children,    \* the children of a variable, in order
    TypeOf,      \* the entry of mappingTypesMutators that a variable matches
    Targets,     \* the keys that calls name: keys and types
    Requests,    \* the keyword arguments of a call of fuzz
    Limits,      \* the arguments of setFuzzingCounterMax
    TypedValues, \* fixed values given as an int or a str: they need a dataType
    DefaultMax,  \* COUNTER_MAX_DEFAULT
    MaxDepth,    \* AltMutator.DEFAULT_MAX_DEPTH
    MaxPresets,  \* bound: the presets that are created
    MaxCalls     \* bound: the calls

Types == {"Integer", "Alt", "Agg"}
Keys == Variables \cup Fields \cup {Symbol}
Params == {"value", "mode", "generator", "counterMax", "interval", "mutateChild"}
Nothing == <<>>   \* an empty dictionary

\* The variables of a field are a tree; a count is a number of messages.
ASSUME PresetsAssumption ==
    /\ IsFiniteSet(Variables) /\ Variables \cap Fields = {}
    /\ Symbol \notin Variables \cup Fields /\ Types \cap Keys = {}
    /\ SubFields \in [Fields -> Seq(Fields)]
    /\ Domain \in [Fields -> Variables]
    /\ LeafFields \in Seq(Fields) /\ IsInjective(LeafFields)
    /\ Children \in [Variables -> Seq(Variables)]
    /\ \A u, v \in Variables : \A i \in DOMAIN Children[u], j \in DOMAIN Children[v] :
          Children[u][i] = Children[v][j] => u = v /\ i = j
    /\ \E height \in [Variables -> 0..Cardinality(Variables)] :
          \A v \in Variables : \A i \in DOMAIN Children[v] : height[Children[v][i]] < height[v]
    /\ TypeOf \in [Variables -> Types]
    /\ Targets \subseteq Keys \cup Types /\ Limits \subseteq Nat
    /\ \A r \in Requests :
          /\ r = [k \in DOMAIN r |-> r[k]] /\ DOMAIN r \subseteq Params
          /\ "counterMax" \in DOMAIN r => r["counterMax"] \in Nat
    /\ DefaultMax \in Nat /\ MaxDepth \in Nat
    /\ MaxPresets \in Nat /\ MaxCalls \in Nat

VARIABLES
    presets,    \* the Preset objects: their fields and the table of their types
    tables,     \* mappingTypesMutators, one for each epoch: a type to the epoch
                \* of its default parameters; the last one is the class's
    defaults,   \* the default parameters, one for each epoch and type
    confs,      \* the dictionaries given to _set
    mutators,   \* the mutators
    globalMax,  \* DomainMutator.globalCounterMax
    calls,      \* the number of calls
    last,       \* history: the last call and how it ended
    asked,      \* history: the mode last asked for a variable, by preset
    spent       \* history: the values generated for a variable, by preset

heap == <<tables, defaults, confs, mutators>>
vars == <<presets, heap, globalMax, calls, last, asked, spent>>

Init ==
    /\ presets = <<>> /\ tables = <<>> /\ defaults = <<>>
    /\ confs = <<>> /\ mutators = <<>>
    /\ globalMax = DefaultMax /\ calls = 0
    /\ last = [op |-> "none", preset |-> 0, named |-> {}, ok |-> TRUE]
    /\ asked = <<>> /\ spent = <<>>

-----------------------------------------------------------------------------
(* Ordered dictionaries: sequences of entries. *)

KeysOf(fields) == {fields[i].key : i \in DOMAIN fields}
IndexOf(fields, k) == CHOOSE i \in DOMAIN fields : fields[i].key = k
Entry(k, raw, id) == [key |-> k, raw |-> raw, id |-> id]
Put(fields, e) ==
    IF e.key \in KeysOf(fields)
    THEN [fields EXCEPT ![IndexOf(fields, e.key)] = e]
    ELSE Append(fields, e)

PutAll(fields, new) ==
    LET Until[i \in 0..Len(new)] ==
            IF i = 0 THEN fields ELSE Put(Until[i - 1], new[i])
    IN  Until[Len(new)]

\* The elements of s that are in the set kept, in their order.
Kept(s, kept) ==
    LET Until[i \in 0..Len(s)] ==
            IF i = 0 THEN <<>>
            ELSE IF s[i] \in kept THEN Append(Until[i - 1], s[i]) ELSE Until[i - 1]
    IN  Until[Len(s)]

Drop(fields, keys) == Kept(fields, {e \in ToSet(fields) : e.key \notin keys})

\* dict.update: the values of new take the place of those of old.
Written(new, old) ==
    [k \in DOMAIN new \cup DOMAIN old |-> IF k \in DOMAIN new THEN new[k] ELSE old[k]]

-----------------------------------------------------------------------------
(* Mutators.  Operators on the heap take and return a record m of defaults, *)
(* confs, mutators and ok: whether no exception was raised.                 *)

IsNode(v) == TypeOf[v] # "Integer"

\* The parameters of the constructor of the mutator of each type.
Accepts(t) ==
    {"mode", "generator", "counterMax"}
        \cup (IF t = "Integer" THEN {"interval"} ELSE {"mutateChild"})

\* The parameters that the calls and the constructors assume when not given.
Defaulted(request) ==
    Written(request,
        [mode |-> "GENERATE", generator |-> "xorshift", counterMax |-> DefaultMax])

\* The parameters given are written into the shared defaults of the type,
\* before the constructor refuses those that it does not know.
RetrieveDefaultMutator(m, v, table, kwargs) ==
    LET t == TypeOf[v]
        params == Written(kwargs, m.defaults[table[t]][t])
        new == [params |-> Defaulted(params), table |-> tables[Len(tables)],
                count |-> 0, depth |-> 0]
        updated == [m EXCEPT !.defaults[table[t]][t] = params]
    IN  IF DOMAIN params \subseteq Accepts(t)
        THEN [updated EXCEPT !.mutators = Append(@, new)]
        ELSE [updated EXCEPT !.ok = FALSE]

\* A fixed value becomes a generator.  An int or a str goes through the
\* dataType of the variable, which a node does not have.
ConvertFixedValue(m, id, v) ==
    LET conf == m.confs[id]
        bare == [p \in DOMAIN conf \ {"value"} |-> conf[p]]
        fixed == Written([mode |-> "FIXED"], bare)
    IN  IF "value" \notin DOMAIN conf THEN m
        ELSE IF conf["value"] \in TypedValues /\ IsNode(v)
        THEN [m EXCEPT !.confs[id] = fixed, !.ok = FALSE]
        ELSE [m EXCEPT !.confs[id] = Written([generator |-> conf["value"]], fixed)]

\* Mutant: only the first value that is not a mutator yet is normalized.
MutantNormalizesOneValue(m, fields) ==
    LET raw == SelectSeq(fields, LAMBDA e : e.raw)
        m1 == ConvertFixedValue(m, raw[1].id, raw[1].key)
        m2 == RetrieveDefaultMutator(m1, raw[1].key, tables[Len(tables)],
                    m1.confs[raw[1].id])
    IN  IF raw = <<>> THEN [m |-> m, fields |-> fields]
        ELSE IF ~m1.ok THEN [m |-> m1, fields |-> fields]
        ELSE [m |-> m2, fields |->
                IF m2.ok THEN Put(fields, Entry(raw[1].key, FALSE, Len(m2.mutators)))
                ELSE fields]

\* The last mutator that was made becomes the one of v.
MadeFor(acc, v, m) == [m |-> m, new |-> Append(acc.new, Entry(v, FALSE, Len(m.mutators)))]

\* fields with the new entries, unless an exception ended the loop.
Updated(m, fields, r) ==
    IF r.m.ok THEN [m |-> r.m, fields |-> PutAll(fields, r.new)]
    ELSE [m |-> [r.m EXCEPT !.mutators = m.mutators], fields |-> fields]

\* One turn of the loop: a value that is not a mutator yet becomes one.
NormalizeValue(acc, e) ==
    LET converted == ConvertFixedValue(acc.m, e.id, e.key)
    IN  IF ~acc.m.ok \/ ~e.raw THEN acc
        ELSE IF ~converted.ok THEN [acc EXCEPT !.m = converted]
        ELSE MadeFor(acc, e.key, RetrieveDefaultMutator(converted, e.key,
                                    tables[Len(tables)], converted.confs[e.id]))

NormalizeValues(m, fields) ==
    LET Until[i \in 0..Len(fields)] ==
            IF i = 0 THEN [m |-> m, new |-> <<>>]
            ELSE NormalizeValue(Until[i - 1], fields[i])
    IN  Updated(m, fields, Until[Len(fields)])

\* The descendants of a variable, each after its parent.
Descendants ==
    LET D[v \in Variables] ==
            FlattenSeq([i \in DOMAIN Children[v] |->
                            <<Children[v][i]>> \o D[Children[v][i]]])
    IN  D

IsChild(u, v) == \E i \in DOMAIN Children[u] : Children[u][i] = v
Parent(v) == CHOOSE u \in Variables : IsChild(u, v)

MutatesChildren(mutator) ==
    /\ mutator.params["mode"] # "FIXED"
    /\ "mutateChild" \in DOMAIN mutator.params => mutator.params["mutateChild"]

\* Mutant: the mutation stops at the children.
MutantStopsAtChildren(m, fields, root) ==
    LET mutator == m.mutators[root.id]
        children == IF MutatesChildren(mutator) THEN Children[root.key] ELSE <<>>
        Step(acc, v) ==
            IF ~acc.m.ok \/ v \in KeysOf(fields) THEN acc
            ELSE MadeFor(acc, v, RetrieveDefaultMutator(acc.m, v, mutator.table,
                                    [mode |-> mutator.params["mode"]]))
        Until[i \in 0..Len(children)] ==
            IF i = 0 THEN [m |-> m, new |-> <<>>] ELSE Step(Until[i - 1], children[i])
    IN  Until[Len(children)]

\* The mutation of u reaches its child v, which gets a mutator of its own, made
\* from the mode of u's and from the defaults that u's knows.
PropagateTo(acc, v, mutator) ==
    IF ~MutatesChildren(mutator) THEN acc
    ELSE MadeFor(acc, v, RetrieveDefaultMutator(acc.m, v, mutator.table,
                            [mode |-> mutator.params["mode"]]))

\* A descendant of root is reached through its parent, unless it is configured.
Propagate(acc, v, fields, root) ==
    LET known == Append(acc.new, root)
        from == acc.m.mutators[known[IndexOf(known, Parent(v))].id]
    IN  IF ~acc.m.ok \/ v \in KeysOf(fields) \/ Parent(v) \notin KeysOf(known) THEN acc
        ELSE PropagateTo(acc, v, from)

\* _propagateMutation.
PropagateMutation(m, fields, root) ==
    LET below == Descendants[root.key]
        Until[i \in 0..Len(below)] ==
            IF i = 0 THEN [m |-> m, new |-> <<>>]
            ELSE Propagate(Until[i - 1], below[i], fields, root)
    IN  Until[Len(below)]

\* One turn of the loop over the entries.
PropagateEntry(acc, fields, e) ==
    LET below == PropagateMutation(acc.m, fields, e)
    IN  IF acc.m.ok THEN [m |-> below.m, new |-> acc.new \o below.new] ELSE acc

PropagateAll(m, fields) ==
    LET Until[i \in 0..Len(fields)] ==
            IF i = 0 THEN [m |-> m, new |-> <<>>]
            ELSE PropagateEntry(Until[i - 1], fields, fields[i])
    IN  Updated(m, fields, Until[Len(fields)])

NormalizeMapping(m, fields) ==
    LET values == NormalizeValues(m, fields)
    IN  IF values.m.ok THEN PropagateAll(values.m, values.fields) ELSE values

-----------------------------------------------------------------------------
(* Keys. *)

\* The variables that a key stands for: the domains of the direct sub-fields.
Resolve(key) ==
    LET Domains(fs) == [i \in DOMAIN fs |-> Domain[fs[i]]]
    IN  IF key \in Variables THEN <<key>>
        ELSE IF key = Symbol THEN Domains(LeafFields)
        ELSE IF SubFields[key] # <<>> THEN Domains(SubFields[key])
        ELSE <<Domain[key]>>

IsLeafField(key) == key \in Fields /\ SubFields[key] = <<>>

\* The variables that the entry of a key is given to: the key of the call
\* replaces what was configured, another key only adds what is missing.
Taken(fields, key, newKey) ==
    Kept(Resolve(key),
        IF newKey = key \/ IsLeafField(key) THEN Variables ELSE Variables \ KeysOf(fields))

\* A fixed value for a field that has sub-fields is refused.
IsRefused(m, e) ==
    e.key \in Fields /\ ~IsLeafField(e.key) /\ "value" \in DOMAIN m.confs[e.id]

Given(e, variables) == [i \in 1..Len(variables) |-> Entry(variables[i], e.raw, e.id)]

\* The entries of the keys that are not variables, given to variables.
Rekeyed(fields, old, newKey) ==
    LET Until[i \in 0..Len(old)] ==
            IF i = 0 THEN <<>>
            ELSE PutAll(Until[i - 1], Given(old[i], Taken(fields, old[i].key, newKey)))
    IN  Until[Len(old)]

\* Mutant: what was configured at a lower level is never replaced.
MutantKeepsOldKeys(m, fields, newKey) ==
    LET old == Drop(fields, Variables)
    IN  [m |-> m, fields |-> PutAll(Drop(fields, KeysOf(old)),
            SelectSeq(Rekeyed(fields, old, newKey), LAMBDA e : e.key \notin KeysOf(fields)))]

\* Mutant: the entries are rebuilt from nothing, and lost by an exception.
MutantRebuildsKeys(m, fields, newKey) ==
    LET old == Drop(fields, Variables)
    IN  IF \E i \in DOMAIN old : IsRefused(m, old[i])
        THEN [m |-> [m EXCEPT !.ok = FALSE], fields |-> old]
        ELSE [m |-> m, fields |-> PutAll(Drop(fields, KeysOf(old)), Rekeyed(fields, old, newKey))]

\* Fields and symbols give way to the domains of their fields.
NormalizeKeys(m, fields, newKey) ==
    LET old == Drop(fields, Variables)
    IN  IF \E i \in DOMAIN old : IsRefused(m, old[i])
        THEN [m |-> [m EXCEPT !.ok = FALSE], fields |-> fields]
        ELSE [m |-> m, fields |-> PutAll(Drop(fields, KeysOf(old)), Rekeyed(fields, old, newKey))]

-----------------------------------------------------------------------------
(* The methods of a Preset. *)

Machine == [defaults |-> defaults, confs |-> confs, mutators |-> mutators, ok |-> TRUE]

\* Preset.__init__ and clear: the class gets a table of new, empty defaults.
NewTable == [t \in Types |-> Len(tables) + 1]
NewDefaults == [t \in Types |-> Nothing]

\* The values generated for a variable count from its last configuration.
Respent(p, fields) ==
    [v \in Variables |->
        IF /\ v \in KeysOf(fields) /\ v \in KeysOf(presets[p].fields)
           /\ fields[IndexOf(fields, v)] =
                presets[p].fields[IndexOf(presets[p].fields, v)]
        THEN spent[p][v] ELSE 0]

Called(op, p, named, ok) ==
    /\ calls < MaxCalls /\ calls' = calls + 1
    /\ last' = [op |-> op, preset |-> p, named |-> named, ok |-> ok]

Create ==
    /\ Len(presets) < MaxPresets
    /\ presets' = Append(presets, [fields |-> <<>>, table |-> Len(tables) + 1])
    /\ tables' = Append(tables, NewTable)
    /\ defaults' = Append(defaults, NewDefaults)
    /\ globalMax' = DefaultMax
    /\ asked' = Append(asked, [v \in Variables |-> "none"])
    /\ spent' = Append(spent, [v \in Variables |-> 0])
    /\ Called("create", Len(presets) + 1, {}, TRUE)
    /\ UNCHANGED <<confs, mutators>>

\* The variables that the keys left behind by failed calls are given to.
LeftBehind(fields, key) ==
    UNION {ToSet(Taken(fields, k, key)) : k \in KeysOf(fields) \ (Variables \cup {key})}

\* _set on a symbol, a field or a variable.  When an exception ends it, what
\* was already written stays.
Fuzz(p, key, request) ==
    LET m0 == [Machine EXCEPT !.confs = Append(@, Defaulted(request))]
        set == Put(presets[p].fields, Entry(key, TRUE, Len(confs) + 1))
        named == ToSet(Resolve(key))
        left == LeftBehind(set, key)
        mode == IF "value" \in DOMAIN request THEN "FIXED" ELSE Defaulted(request)["mode"]
    IN  \E k \in {NormalizeKeys(m0, set, key)} :
        \E r \in {IF k.m.ok THEN NormalizeMapping(k.m, k.fields) ELSE k} :
            /\ presets' = [presets EXCEPT ![p].fields = r.fields]
            /\ defaults' = r.m.defaults /\ confs' = r.m.confs /\ mutators' = r.m.mutators
            /\ asked' = [asked EXCEPT ![p] = [v \in Variables |->
                    IF k.m.ok /\ v \in left THEN "none"
                    ELSE IF v = key \/ (k.m.ok /\ v \in named) THEN mode ELSE @[v]]]
            /\ spent' = [spent EXCEPT ![p] = Respent(p, r.fields)]
            /\ Called("fuzz", p, named \cup left, r.m.ok)
            /\ UNCHANGED <<tables, globalMax>>

\* _set on a type: the defaults that the table of the preset leads to.
FuzzType(p, type, request) ==
    /\ "value" \notin DOMAIN request
    /\ defaults' = [defaults EXCEPT ![tables[presets[p].table][type]][type] =
                        Written(Defaulted(request), @)]
    /\ Called("fuzzType", p, {}, TRUE)
    /\ UNCHANGED <<presets, tables, confs, mutators, globalMax, asked, spent>>

\* The key goes with its variables, but a field that has no sub-fields stays,
\* where a failed call left it.
Unset(p, key) ==
    LET removed == ToSet(Resolve(key)) \cup (IF IsLeafField(key) THEN {} ELSE {key})
        fields == Drop(presets[p].fields, removed)
    IN  /\ presets' = [presets EXCEPT ![p].fields = fields]
        /\ asked' = [asked EXCEPT ![p] = [v \in Variables |->
                        IF v \in removed THEN "none" ELSE @[v]]]
        /\ spent' = [spent EXCEPT ![p] = Respent(p, fields)]
        /\ Called("unset", p, {}, TRUE)
        /\ UNCHANGED <<heap, globalMax>>

\* clear empties the fields; the new table is the class's, not the preset's.
Clear(p) ==
    /\ presets' = [presets EXCEPT ![p].fields = <<>>]
    /\ tables' = Append(tables, NewTable)
    /\ defaults' = Append(defaults, NewDefaults)
    /\ asked' = [asked EXCEPT ![p] = [v \in Variables |-> "none"]]
    /\ spent' = [spent EXCEPT ![p] = [v \in Variables |-> 0]]
    /\ Called("clear", p, {}, TRUE)
    /\ UNCHANGED <<confs, mutators, globalMax>>

\* update: the entries and the types of the other preset, which stay shared.
Update(p, q) ==
    LET other == presets[q].fields
        fields == PutAll(presets[p].fields, other)
    IN  /\ presets' = [presets EXCEPT ![p].fields = fields]
        /\ tables' = [tables EXCEPT ![presets[p].table] = tables[presets[q].table]]
        /\ asked' = [asked EXCEPT ![p] = [v \in Variables |->
                        IF v \in KeysOf(other) THEN asked[q][v] ELSE @[v]]]
        /\ spent' = [spent EXCEPT ![p] = Respent(p, fields)]
        /\ Called("update", p, {}, TRUE)
        /\ UNCHANGED <<defaults, confs, mutators, globalMax>>

\* The copy of a mutator starts its counters again and forgets its interval.
\* The copy of the mutator of a node writes the defaults that it knew into
\* those of the class.
CopyMutator(m, e, epoch) ==
    LET old == m.mutators[e.id]
        new == [params |-> [x \in DOMAIN old.params \ {"interval"} |-> old.params[x]],
                table |-> [t \in Types |-> epoch], count |-> 0, depth |-> 0]
        poured == [t \in Types |-> Written(m.defaults[old.table[t]][t], m.defaults[epoch][t])]
    IN  [m EXCEPT !.mutators = Append(@, new),
                  !.defaults[epoch] = IF IsNode(e.key) THEN poured ELSE @]

\* One turn of the loop of copy.
CopyEntry(acc, e, epoch) ==
    IF e.raw
    THEN [m |-> [acc.m EXCEPT !.confs = Append(@, @[e.id])],
          fields |-> Append(acc.fields, Entry(e.key, TRUE, Len(acc.m.confs) + 1))]
    ELSE [m |-> CopyMutator(acc.m, e, epoch),
          fields |-> Append(acc.fields, Entry(e.key, FALSE, Len(acc.m.mutators) + 1))]

CopyEntries(m, fields, epoch) ==
    LET Until[i \in 0..Len(fields)] ==
            IF i = 0 THEN [m |-> m, fields |-> <<>>]
            ELSE CopyEntry(Until[i - 1], fields[i], epoch)
    IN  Until[Len(fields)]

\* copy: a new Preset, with copies of the entries and the types of this one.
Copy(p) ==
    LET m0 == [Machine EXCEPT !.defaults = Append(@, NewDefaults)]
    IN  \E r \in {CopyEntries(m0, presets[p].fields, Len(tables) + 1)} :
        /\ Len(presets) < MaxPresets
        /\ presets' = Append(presets, [fields |-> r.fields, table |-> presets[p].table])
        /\ tables' = Append(tables, NewTable)
        /\ defaults' = r.m.defaults /\ confs' = r.m.confs /\ mutators' = r.m.mutators
        /\ globalMax' = DefaultMax
        /\ asked' = Append(asked, asked[p])
        /\ spent' = Append(spent, [v \in Variables |-> 0])
        /\ Called("copy", Len(presets) + 1, {}, TRUE)

SetFuzzingCounterMax(n) ==
    /\ globalMax' = n
    /\ Called("limit", 0, {}, TRUE)
    /\ UNCHANGED <<presets, heap, asked, spent>>

-----------------------------------------------------------------------------
(* Sending a symbol with presets. *)

\* The entries with a mutator that gives a fixed value.
FixedKeys(fields) ==
    {fields[i].key : i \in {j \in DOMAIN fields :
        ~fields[j].raw /\ mutators[fields[j].id].params["mode"] = "FIXED"}}

\* The variables whose mutators are asked for a value, in order: the children
\* of an aggregate before it, the child that is picked after its alternative.
Visited(fixed, picked) ==
    LET W[v \in Variables] ==
            IF v \in fixed \/ ~IsNode(v) THEN <<v>>
            ELSE IF TypeOf[v] = "Alt" THEN <<v>> \o W[Children[v][picked[v]]]
            ELSE FlattenSeq([i \in DOMAIN Children[v] |-> W[Children[v][i]]]) \o <<v>>
    IN  FlattenSeq([i \in DOMAIN LeafFields |-> W[Domain[LeafFields[i]]]])

\* Mutant: the counter is compared after one value too many.
MutantGeneratesOneMore(m, v, e, limit) ==
    LET mutator == m.mutators[e.id]
        exhausted == mutator.count > mutator.params["counterMax"]
                        \/ mutator.count >= limit
    IN  IF e.raw \/ exhausted THEN [m EXCEPT !.ok = FALSE]
        ELSE [m EXCEPT !.mutators[e.id].count = @ + 1]

\* One call of generate or mutate.  A fixed value that reaches a generator of
\* numbers, a spent counter and a spent depth end the message.
Generate(m, v, e, limit) ==
    LET mutator == m.mutators[e.id]
        fixed == mutator.params["mode"] = "FIXED"
        counts == ~fixed /\ (mutator.params["mode"] = "GENERATE" \/ IsNode(v))
        exhausted == counts /\ (mutator.count >= mutator.params["counterMax"]
                                    \/ mutator.count >= limit)
        tooDeep == TypeOf[v] = "Alt" /\ mutator.depth + 1 >= MaxDepth
        broken == (mutator.params["generator"] = "xorshift") = fixed
                    /\ (fixed \/ TypeOf[v] # "Agg")
    IN  IF e.raw \/ exhausted THEN [m EXCEPT !.ok = FALSE]
        ELSE [m EXCEPT !.ok = ~tooDeep /\ ~broken,
                       !.mutators[e.id].count = IF counts THEN @ + 1 ELSE @,
                       !.mutators[e.id].depth = IF TypeOf[v] = "Alt" THEN @ + 1 ELSE @]

\* The entries of some presets, the later ones before the earlier ones.
Layered(layers) ==
    LET Until[i \in 0..Len(layers)] ==
            IF i = 0 THEN <<>> ELSE PutAll(Until[i - 1], presets[layers[i]].fields)
    IN  Until[Len(layers)]

\* The preset whose entry for a variable counts.
IsFrom(p, v, layers) ==
    \E i \in DOMAIN layers :
        /\ layers[i] = p /\ v \in KeysOf(presets[p].fields)
        /\ \A j \in i+1..Len(layers) : v \notin KeysOf(presets[layers[j]].fields)

\* The mutators are asked until one raises.
AskAll(m, fields, visited, limit) ==
    LET Until[i \in 0..Len(visited)] ==
            IF i = 0 THEN m
            ELSE IF Until[i - 1].ok /\ visited[i] \in KeysOf(fields)
            THEN Generate(Until[i - 1], visited[i], fields[IndexOf(fields, visited[i])], limit)
            ELSE Until[i - 1]
    IN  Until[Len(visited)]

\* Specializing the symbol with the entries of some presets; op is the caller.
Specialize(op, layers, picked, limit) ==
    LET Generated(e, made) == IF e.raw THEN 0 ELSE made[e.id].count - mutators[e.id].count
    IN  \E fields \in {Layered(layers)} :
        \E r \in {AskAll(Machine, fields, Visited(FixedKeys(fields), picked), limit)} :
            /\ mutators' = r.mutators
            /\ spent' = [p \in DOMAIN spent |-> [v \in Variables |->
                    spent[p][v] + (IF IsFrom(p, v, layers)
                        THEN Generated(fields[IndexOf(fields, v)], r.mutators) ELSE 0)]]
            /\ Called(op, Last(layers), {}, r.ok)
            /\ UNCHANGED <<presets, confs, asked>>

\* Symbol.specialize(preset).
SpecializeSymbol(p, picked) ==
    /\ Specialize("specialize", <<p>>, picked, globalMax)
    /\ UNCHANGED <<tables, defaults, globalMax>>

\* Transition.executeAsInitiator and executeAsNotInitiator: a new Preset is
\* updated with the layers that there are: the preset of the actor, of the
\* transition and for fuzzing.
SendSymbol(layers, picked) ==
    /\ Specialize("send", layers, picked, DefaultMax)
    /\ tables' = Append(tables, tables[presets[Last(layers)].table])
    /\ defaults' = Append(defaults, NewDefaults)
    /\ globalMax' = DefaultMax

\* The child that each alternative of the symbol picks.
Alts == {v \in Variables : TypeOf[v] = "Alt"}
Picks == {g \in [Alts -> 1..Cardinality(Variables)] : \A v \in Alts : g[v] \in DOMAIN Children[v]}
Layers == {s \in UNION {[1..n -> DOMAIN presets] : n \in 1..2} : IsInjective(s)}

Next ==
    \/ Create
    \/ \E p \in DOMAIN presets :
        \/ \E key \in Targets \cap Keys, r \in Requests : Fuzz(p, key, r)
        \/ \E type \in Targets \cap Types, r \in Requests : FuzzType(p, type, r)
        \/ \E key \in Targets \cap Keys : Unset(p, key)
        \/ Clear(p)
        \/ \E q \in DOMAIN presets \ {p} : Update(p, q)
        \/ Copy(p)
    \/ \E n \in Limits : SetFuzzingCounterMax(n)
    \/ \E p \in DOMAIN presets, picked \in Picks : SpecializeSymbol(p, picked)
    \/ \E layers \in Layers, picked \in Picks : SendSymbol(layers, picked)

Spec == Init /\ [][Next]_vars

-----------------------------------------------------------------------------
(* Properties. *)

\* Type invariant.
TypeOK ==
    /\ \A p \in DOMAIN presets :
        /\ presets[p].table \in DOMAIN tables
        /\ \A i, j \in DOMAIN presets[p].fields :
            presets[p].fields[i].key = presets[p].fields[j].key => i = j
        /\ \A i \in DOMAIN presets[p].fields :
            LET e == presets[p].fields[i]
            IN  e.key \in Keys /\ e.id \in DOMAIN (IF e.raw THEN confs ELSE mutators)
    /\ \A e \in DOMAIN tables : tables[e] \in [Types -> DOMAIN defaults]
    /\ \A i \in DOMAIN mutators : mutators[i].count \in Nat
    /\ globalMax \in Nat /\ calls \in 0..MaxCalls

ModeOf(e) ==
    IF ~e.raw THEN mutators[e.id].params["mode"]
    ELSE IF "value" \in DOMAIN confs[e.id] THEN "FIXED" ELSE confs[e.id]["mode"]

\* Whatever the level at which the calls name a variable (itself, its field,
\* the parent field, the symbol), and even when a call in between failed, the
\* last call decides its mode; what its parent propagates never does.  (Only a
\* key that a failed call left behind may still be written over it when a later
\* call normalizes the keys: asked then says nothing.)
LastCallWins ==
    \A p \in DOMAIN presets : \A v \in Variables :
        asked[p][v] # "none" =>
            \E i \in DOMAIN presets[p].fields :
                /\ presets[p].fields[i].key = v
                /\ ModeOf(presets[p].fields[i]) = asked[p][v]

FuzzSucceeded == last.op = "fuzz" /\ last.ok

\* A call of fuzz that returns leaves nothing for specialize to stumble on,
\* also when an earlier call failed half way: every key is a variable and
\* every value a mutator.
NothingLeftRaw ==
    FuzzSucceeded =>
        \A i \in DOMAIN presets[last.preset].fields :
            LET e == presets[last.preset].fields[i]
            IN  e.key \in Variables /\ ~e.raw

\* The tables are well formed at any moment, and normalized after a call.
WellFormed == TypeOK /\ NothingLeftRaw

\* When a call of fuzz returns, fuzzing has reached every descendant of each
\* fuzzed node, across the nodes in between.
FuzzingReachesDescendants ==
    FuzzSucceeded =>
        LET fields == presets[last.preset].fields
        IN  \A i \in DOMAIN fields :
                MutatesChildren(mutators[fields[i].id]) =>
                    ToSet(Children[fields[i].key]) \subseteq KeysOf(fields)

\* A preset generates at most counterMax values for a variable, over all the
\* messages of all the transitions, although each transition sends with a new
\* Preset of its own.
BudgetHolds ==
    \A p \in DOMAIN presets : \A i \in DOMAIN presets[p].fields :
        LET e == presets[p].fields[i]
        IN  ~e.raw => spent[p][e.key] <= mutators[e.id].params["counterMax"]

\* A call of fuzz that fails leaves the mutators of the variables as they were
\* that neither it names nor a key left behind by an earlier failure stands for.
FailureKeepsTheRest ==
    [][last'.op = "fuzz" /\ ~last'.ok =>
        \A i \in DOMAIN presets[last'.preset].fields :
            LET e == presets[last'.preset].fields[i]
            IN  ~e.raw /\ e.key \notin last'.named =>
                    /\ mutators'[e.id] = mutators[e.id]
                    /\ \E j \in DOMAIN presets'[last'.preset].fields :
                        presets'[last'.preset].fields[j] = e]_vars
=============================================================================
