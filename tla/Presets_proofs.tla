---------------------------- MODULE Presets_proofs ----------------------------
(***************************************************************************)
(* What holds of any presets, whatever the symbol and the calls: the       *)
(* invariant of the heap and of the history, and the safety properties of  *)
(* Presets that follow from it.                                            *)
(***************************************************************************)
EXTENDS PresetsOperators_proofs

-----------------------------------------------------------------------------
(* The invariant. *)

TablesOK(ts, n) == Len(ts) = n /\ ts \in Seq([Types -> 1..n])

PresetRecords == [fields : Dicts, table : Nat]

\* Each preset knows a table, and its entries parameters and mutators.
PresetsOK(ps, ts, m) ==
    /\ ps \in Seq(PresetRecords)
    /\ \A i \in 1..Len(ps) : ps[i].table \in 1..Len(ts) /\ DictOK(m, ps[i].fields)

\* A mutator counts what any preset has generated with it.
SpentOK(ps, sp, m) ==
    /\ sp \in Seq([Variables -> Nat]) /\ Len(sp) = Len(ps)
    /\ \A i \in 1..Len(ps) : \A e \in ToSet(ps[i].fields) :
          ~e.raw => sp[i][e.key] <= m.mutators[e.id].count

Modes == [Variables -> ParamValues \cup {"none"}]
HasMode(m, fields, v, mode) == \E e \in ToSet(fields) : e.key = v /\ ModeIn(m, e) = mode
HasModes(m, fields, a) ==
    \A v \in Variables : a[v] # "none" => HasMode(m, fields, v, a[v])
AskedOK(ps, ak, m) ==
    /\ ak \in Seq(Modes) /\ Len(ak) = Len(ps)
    /\ \A i \in 1..Len(ps) : HasModes(m, ps[i].fields, ak[i])

Shape ==
    /\ Machine \in Machines(Len(defaults)) /\ TablesOK(tables, Len(defaults))
    /\ PresetsOK(presets, tables, Machine)
    /\ globalMax \in Nat /\ calls \in 0..MaxCalls

PresetsInvariant ==
    Shape /\ SpentOK(presets, spent, Machine) /\ AskedOK(presets, asked, Machine)

-----------------------------------------------------------------------------
(* What the steps have in common. *)

\* A dictionary and a table make a preset.
LEMMA PresetIs ==
    ASSUME NEW f \in Dicts, NEW t \in Nat
    PROVE  /\ [fields |-> f, table |-> t] \in PresetRecords
           /\ [fields |-> f, table |-> t].fields = f /\ [fields |-> f, table |-> t].table = t
BY DEF PresetRecords

\* A preset with other fields.
LEMMA FieldsChange ==
    ASSUME NEW x \in PresetRecords, NEW f \in Dicts
    PROVE  /\ [x EXCEPT !.fields = f] \in PresetRecords
           /\ [x EXCEPT !.fields = f].fields = f /\ [x EXCEPT !.fields = f].table = x.table
<1>1. x.table \in Nat /\ x = [fields |-> x.fields, table |-> x.table]
    BY DEF PresetRecords
<1>2. [x EXCEPT !.fields = f] = [fields |-> f, table |-> x.table]
    BY <1>1
<1> QED
    BY <1>1, <1>2, PresetIs

\* The fields of one preset change.
LEMMA PresetChanges ==
    ASSUME NEW ps \in Seq(PresetRecords), NEW p \in 1..Len(ps), NEW f \in Dicts
    PROVE  \E qs \in Seq(PresetRecords) :
               /\ qs = [ps EXCEPT ![p].fields = f] /\ Len(qs) = Len(ps)
               /\ qs[p].fields = f /\ qs[p].table = ps[p].table
               /\ \A i \in 1..Len(ps) : i # p => qs[i] = ps[i]
<1>1. ps[p] \in PresetRecords
    BY ElementOfSeq
<1>2. PICK x \in PresetRecords : /\ x = [ps[p] EXCEPT !.fields = f]
                                 /\ x.fields = f /\ x.table = ps[p].table
    BY <1>1, FieldsChange
<1>3. PICK qs \in Seq(PresetRecords) : qs = [ps EXCEPT ![p] = x]
    BY ExceptSeq
<1>4. Len(qs) = Len(ps) /\ \A i \in 1..Len(ps) : qs[i] = IF i = p THEN x ELSE ps[i]
    BY <1>3, ExceptSeq
<1>5. [ps EXCEPT ![p].fields = f] = qs
    BY <1>2, <1>3
<1> QED
    BY <1>2, <1>3, <1>4, <1>5

\* The heap of the state.
LEMMA MachineNow ==
    ASSUME Shape
    PROVE  /\ Len(defaults) \in Nat /\ Len(tables) = Len(defaults)
           /\ defaults \in Seq([Types -> Settings])
           /\ confs \in Seq(Complete) /\ mutators \in Seq(Mutators(Len(defaults)))
           /\ Machine.defaults = defaults /\ Machine.confs = confs
           /\ Machine.mutators = mutators /\ Machine.ok = TRUE
           /\ Machine \in Machines(Len(defaults))
<1>1. /\ Machine.defaults = defaults /\ Machine.confs = confs
      /\ Machine.mutators = mutators /\ Machine.ok = TRUE
    BY DEF Machine
<1>2. PICK m, n : m = Machine /\ n = Len(defaults) /\ m \in Machines(n)
    BY DEF Shape
<1>3. /\ m.defaults \in Seq([Types -> Settings]) /\ m.confs \in Seq(Complete)
      /\ m.mutators \in Seq(Mutators(n))
    BY <1>2 DEF Machines
<1> QED
    BY <1>1, <1>2, <1>3, LenProperties DEF Shape, TablesOK

\* What an index of presets leads to.
LEMMA PresetFacts ==
    ASSUME Shape, NEW p \in DOMAIN presets
    PROVE  /\ p \in 1..Len(presets) /\ presets[p] \in PresetRecords
           /\ presets[p].fields \in Dicts /\ presets[p].table \in 1..Len(tables)
           /\ DictOK(Machine, presets[p].fields)
           /\ CurrentTable(Len(defaults))
<1>1. presets \in Seq(PresetRecords)
    BY DEF Shape, PresetsOK
<1>2. p \in 1..Len(presets) /\ presets[p] \in PresetRecords
    BY <1>1, LenProperties, ElementOfSeq
<1>3. presets[p].table \in 1..Len(tables) /\ DictOK(Machine, presets[p].fields)
    BY <1>2 DEF Shape, PresetsOK
<1>4. tables \in Seq([Types -> 1..Len(defaults)]) /\ Len(tables) \in Nat
    BY MachineNow DEF Shape, TablesOK
<1>5. Len(tables) \in 1..Len(tables)
    BY <1>3, <1>4
<1>6. tables[Len(tables)] \in [Types -> 1..Len(defaults)]
    BY <1>4, <1>5, ElementOfSeq
<1>7. presets[p].fields \in Dicts
    BY <1>3 DEF DictOK
<1>8. CurrentTable(Len(defaults))
    <2>1. Len(defaults) \in Nat
        BY MachineNow
    <2> QED
        BY <1>6, <2>1 DEF CurrentTable
<1> QED
    BY <1>2, <1>3, <1>7, <1>8

\* The fields of one preset change, and the heap is extended.
LEMMA OneChanges ==
    ASSUME NEW n \in Nat, NEW m \in Machines(n), NEW k \in Nat, NEW w \in Machines(k),
           Extends(m, w), NEW ps, NEW ts, PresetsOK(ps, ts, m), NEW us, Len(ts) \in Nat,
           Len(us) \in Nat, Len(ts) <= Len(us),
           NEW p \in 1..Len(ps), NEW f, DictOK(w, f)
    PROVE  PresetsOK([ps EXCEPT ![p].fields = f], us, w)
<1>1. ps \in Seq(PresetRecords) /\ f \in Dicts
    BY DEF PresetsOK, DictOK
<1>2. PICK qs \in Seq(PresetRecords) :
          /\ qs = [ps EXCEPT ![p].fields = f] /\ Len(qs) = Len(ps)
          /\ qs[p].fields = f /\ qs[p].table = ps[p].table
          /\ \A i \in 1..Len(ps) : i # p => qs[i] = ps[i]
    BY <1>1, PresetChanges
<1>3. ASSUME NEW i \in 1..Len(qs)
      PROVE  qs[i].table \in 1..Len(us) /\ DictOK(w, qs[i].fields)
    <2>1. ps[i].table \in 1..Len(ts) /\ DictOK(m, ps[i].fields)
        BY <1>2 DEF PresetsOK
    <2>2. DictOK(w, ps[i].fields)
        BY <2>1, ExtendsEntry DEF DictOK
    <2>3. qs[i].table = ps[i].table
        BY <1>2
    <2>4. qs[i].fields = f \/ qs[i].fields = ps[i].fields
        BY <1>2
    <2> QED
        BY <2>1, <2>2, <2>3, <2>4
<1> QED
    BY <1>2, <1>3 DEF PresetsOK

\* A preset is added, and the heap extended.
LEMMA OneMore ==
    ASSUME NEW n \in Nat, NEW m \in Machines(n), NEW k \in Nat, NEW w \in Machines(k),
           Extends(m, w), NEW ps, NEW ts, PresetsOK(ps, ts, m), NEW us, Len(ts) \in Nat,
           Len(us) \in Nat, Len(ts) <= Len(us),
           NEW f, DictOK(w, f), NEW t \in 1..Len(us)
    PROVE  PresetsOK(Append(ps, [fields |-> f, table |-> t]), us, w)
<1>1. ps \in Seq(PresetRecords) /\ Len(ps) \in Nat
    BY LenProperties DEF PresetsOK
<1>2. PICK x \in PresetRecords : /\ x = [fields |-> f, table |-> t]
                                 /\ x.fields = f /\ x.table = t
    <2>1. f \in Dicts /\ t \in Nat
        BY DEF DictOK
    <2> QED
        BY <2>1, PresetIs
<1>3. PICK qs \in Seq(PresetRecords) : qs = Append(ps, x)
    BY <1>1, AppendProperties
<1>4. /\ Len(qs) = Len(ps) + 1 /\ qs[Len(ps) + 1] = x
      /\ \A i \in 1..Len(ps) : qs[i] = ps[i]
    BY <1>1, <1>3, AppendProperties
<1>5. ASSUME NEW i \in 1..Len(qs)
      PROVE  qs[i].table \in 1..Len(us) /\ DictOK(w, qs[i].fields)
    <2>1. CASE i = Len(ps) + 1
        BY <1>2, <1>4, <2>1
    <2>2. CASE i # Len(ps) + 1
        <3>1. i \in 1..Len(ps)
            BY <1>1, <1>4, <2>2
        <3>2. ps[i].table \in 1..Len(ts) /\ DictOK(m, ps[i].fields)
            BY <3>1 DEF PresetsOK
        <3>3. DictOK(w, ps[i].fields)
            BY <3>2, ExtendsEntry DEF DictOK
        <3> QED
            BY <1>4, <3>1, <3>2, <3>3
    <2> QED
        BY <2>1, <2>2
<1> QED
    BY <1>2, <1>3, <1>5 DEF PresetsOK

\* New default parameters, for a new epoch.
LEMMA OneMoreEpoch ==
    ASSUME NEW n \in Nat, NEW m \in Machines(n), NEW d \in [Types -> Settings]
    PROVE  /\ [m EXCEPT !.defaults = Append(@, d)] \in Machines(n + 1)
           /\ Extends(m, [m EXCEPT !.defaults = Append(@, d)])
<1>1. /\ m.defaults \in Seq([Types -> Settings]) /\ Len(m.defaults) = n
      /\ m.confs \in Seq(Complete) /\ m.mutators \in Seq(Mutators(n)) /\ m.ok \in BOOLEAN
      /\ m = [defaults |-> m.defaults, confs |-> m.confs, mutators |-> m.mutators, ok |-> m.ok]
    BY MachineFacts
<1>2. PICK ds \in Seq([Types -> Settings]) : ds = Append(m.defaults, d)
    BY <1>1, AppendProperties
<1>3. Len(ds) = n + 1
    BY <1>1, <1>2, AppendProperties
<1>4. [m EXCEPT !.defaults = Append(@, d)] =
          [defaults |-> ds, confs |-> m.confs, mutators |-> m.mutators, ok |-> m.ok]
    <2>1. m = [defaults |-> m.defaults, confs |-> m.confs, mutators |-> m.mutators, ok |-> m.ok]
        BY <1>1
    <2>2. PICK d0, c0, x0, k0 :
              m = [defaults |-> d0, confs |-> c0, mutators |-> x0, ok |-> k0]
        BY <2>1
    <2>3. m.confs = c0 /\ m.mutators = x0 /\ m.ok = k0
        BY <2>2
    <2>4. [m EXCEPT !.defaults = ds] =
              [defaults |-> ds, confs |-> c0, mutators |-> x0, ok |-> k0]
        BY <2>2
    <2> QED
        BY <1>2, <2>3, <2>4
<1>5. Mutators(n) \subseteq Mutators(n + 1)
    <2>1. ASSUME NEW x \in Mutators(n) PROVE x \in Mutators(n + 1)
        <3>1. [Types -> 1..n] \subseteq [Types -> 1..(n + 1)]
            OBVIOUS
        <3> QED
            BY <3>1 DEF Mutators
    <2> QED
        BY <2>1
<1>6. m.mutators \in Seq(Mutators(n + 1))
    BY <1>1, <1>5, SeqMonotonic
<1>7. n + 1 \in Nat
    OBVIOUS
<1>8. [m EXCEPT !.defaults = Append(@, d)] \in Machines(n + 1)
    <2>1. /\ m.confs \in Seq(Complete) /\ m.ok \in BOOLEAN
        BY <1>1
    <2>2. [defaults |-> ds, confs |-> m.confs, mutators |-> m.mutators, ok |-> m.ok]
              \in Machines(n + 1)
        BY <1>3, <1>6, <1>7, <2>1, MachineIs
    <2> QED
        BY <1>4, <2>2
<1>9. Extends(m, [m EXCEPT !.defaults = Append(@, d)])
    BY <1>4, MachineFacts DEF Extends
<1> QED
    BY <1>8, <1>9

\* What was spent counts no more than the mutators do.
LEMMA RespentFacts ==
    ASSUME Shape, SpentOK(presets, spent, Machine), NEW p \in DOMAIN presets,
           NEW k \in Nat, NEW w \in Machines(k), Extends(Machine, w),
           NEW f, DictOK(w, f)
    PROVE  /\ Respent(p, f) \in [Variables -> Nat]
           /\ \A e \in ToSet(f) : ~e.raw => Respent(p, f)[e.key] <= w.mutators[e.id].count
<1>1. PICK n, m : n \in Nat /\ m \in Machines(n) /\ n = Len(defaults) /\ m = Machine
    BY MachineNow
<1>2. PICK g \in Dicts : g = presets[p].fields /\ DictOK(m, g)
    BY <1>1, PresetFacts
<1>3. PICK old \in [Variables -> Nat] :
          old = spent[p] /\ \A e \in ToSet(g) : ~e.raw => old[e.key] <= m.mutators[e.id].count
    <2>1. p \in 1..Len(presets)
        BY PresetFacts
    <2>2. spent \in Seq([Variables -> Nat]) /\ p \in 1..Len(spent)
        BY <2>1 DEF SpentOK
    <2>3. spent[p] \in [Variables -> Nat]
        BY <2>2, ElementOfSeq
    <2> QED
        BY <1>1, <1>2, <2>1, <2>3 DEF SpentOK
<1>4. Respent(p, f) = [v \in Variables |->
          IF v \in KeysOf(f) /\ v \in KeysOf(g) /\ At(f, v) = At(g, v) THEN old[v] ELSE 0]
    BY <1>2, <1>3 DEF Respent, At
<1>5. Respent(p, f) \in [Variables -> Nat]
    BY <1>4
<1>6. ASSUME NEW e \in ToSet(f), ~e.raw
      PROVE  Respent(p, f)[e.key] <= w.mutators[e.id].count
    <2>1. EntryOK(w, e) /\ f \in Dicts
        BY DEF DictOK
    <2>2. e.key \in Variables /\ e.id \in 1..Len(w.mutators)
        BY <1>6, <2>1 DEF EntryOK
    <2>3. w.mutators[e.id] \in Mutators(k)
        BY <2>2, MachineFacts, ElementOfSeq
    <2>4. w.mutators[e.id].count \in Nat
        BY <2>3 DEF Mutators
    <2>5. CASE e.key \in KeysOf(f) /\ e.key \in KeysOf(g) /\ At(f, e.key) = At(g, e.key)
        <3>1. At(f, e.key) = e
            BY <2>1, DictFacts
        <3>2. e \in ToSet(g)
            <4>1. g \in Seq(Entries)
                BY DictFacts
            <4>2. At(g, e.key) \in ToSet(g)
                BY <2>5, <4>1, KeysFacts
            <4> QED
                BY <2>5, <3>1, <4>2
        <3>3. EntryOK(m, e)
            BY <1>2, <3>2 DEF DictOK
        <3>4. w.mutators[e.id] = m.mutators[e.id]
            BY <1>1, <1>6, <3>3, ExtendsEntry
        <3>5. Respent(p, f)[e.key] = old[e.key]
            BY <1>4, <2>2, <2>5
        <3> QED
            BY <1>3, <1>6, <3>2, <3>4, <3>5
    <2>6. CASE ~(e.key \in KeysOf(f) /\ e.key \in KeysOf(g) /\ At(f, e.key) = At(g, e.key))
        <3>1. Respent(p, f)[e.key] = 0
            BY <1>4, <2>2, <2>6
        <3> QED
            BY <2>4, <3>1
    <2> QED
        BY <2>5, <2>6
<1> QED
    BY <1>5, <1>6

\* The fields of a preset change and the heap is extended: what was spent.
LEMMA SpentChanges ==
    ASSUME NEW n \in Nat, NEW m \in Machines(n), NEW k \in Nat, NEW w \in Machines(k),
           Extends(m, w), NEW ps, NEW ts, PresetsOK(ps, ts, m), NEW sp, SpentOK(ps, sp, m),
           NEW p \in 1..Len(ps), NEW f, DictOK(w, f), NEW s \in [Variables -> Nat],
           \A e \in ToSet(f) : ~e.raw => s[e.key] <= w.mutators[e.id].count
    PROVE  SpentOK([ps EXCEPT ![p].fields = f], [sp EXCEPT ![p] = s], w)
<1>1. /\ ps \in Seq(PresetRecords) /\ Len(ps) \in Nat
      /\ sp \in Seq([Variables -> Nat]) /\ Len(sp) = Len(ps)
    BY LenProperties DEF PresetsOK, SpentOK
<1>2. f \in Dicts
    BY DEF DictOK
<1>3. PICK qs \in Seq(PresetRecords) :
          /\ qs = [ps EXCEPT ![p].fields = f] /\ Len(qs) = Len(ps)
          /\ qs[p].fields = f /\ qs[p].table = ps[p].table
          /\ \A i \in 1..Len(ps) : i # p => qs[i] = ps[i]
    <2>1. ps \in Seq(PresetRecords)
        BY <1>1
    <2> QED
        BY <1>2, <2>1, PresetChanges
<1>4. PICK sq \in Seq([Variables -> Nat]) : sq = [sp EXCEPT ![p] = s]
    BY <1>1, ExceptSeq
<1>5. Len(sq) = Len(sp) /\ \A i \in 1..Len(sp) : sq[i] = IF i = p THEN s ELSE sp[i]
    BY <1>1, <1>4, ExceptSeq
<1>6. ASSUME NEW i \in 1..Len(qs), NEW e \in ToSet(qs[i].fields), ~e.raw
      PROVE  sq[i][e.key] <= w.mutators[e.id].count
    <2>1. CASE i = p
        BY <1>1, <1>2, <1>3, <1>5, <1>6, <2>1
    <2>2. CASE i # p
        <3>1. e \in ToSet(ps[i].fields) /\ i \in 1..Len(ps) /\ sq[i] = sp[i]
            BY <1>1, <1>3, <1>5, <1>6, <2>2
        <3>2. EntryOK(m, e)
            BY <3>1 DEF PresetsOK, DictOK
        <3>3. w.mutators[e.id] = m.mutators[e.id]
            BY <1>6, <3>2, ExtendsEntry
        <3> QED
            BY <1>6, <3>1, <3>3 DEF SpentOK
    <2> QED
        BY <2>1, <2>2
<1> QED
    BY <1>1, <1>3, <1>4, <1>5, <1>6 DEF SpentOK

\* An entry keeps its mode when the heap is extended.
LEMMA ModesStay ==
    ASSUME NEW n \in Nat, NEW m \in Machines(n), NEW k \in Nat, NEW w \in Machines(k),
           Extends(m, w), NEW f, DictOK(m, f), NEW a, HasModes(m, f, a)
    PROVE  HasModes(w, f, a)
<1>1. ASSUME NEW v \in Variables, HasMode(m, f, v, a[v])
      PROVE  HasMode(w, f, v, a[v])
    <2>1. PICK e \in ToSet(f) : e.key = v /\ ModeIn(m, e) = a[v]
        BY <1>1 DEF HasMode
    <2>2. EntryOK(m, e)
        BY DEF DictOK
    <2>3. ModeIn(w, e) = ModeIn(m, e)
        BY <2>2, ExtendsEntry
    <2> QED
        BY <2>1, <2>3 DEF HasMode
<1> QED
    BY <1>1 DEF HasModes

\* The same, for the modes that were asked.
LEMMA AskedChanges ==
    ASSUME NEW n \in Nat, NEW m \in Machines(n), NEW k \in Nat, NEW w \in Machines(k),
           Extends(m, w), NEW ps, NEW ts, PresetsOK(ps, ts, m), NEW ak, AskedOK(ps, ak, m),
           NEW p \in 1..Len(ps), NEW f, DictOK(w, f), NEW a \in Modes,
           HasModes(w, f, a)
    PROVE  AskedOK([ps EXCEPT ![p].fields = f], [ak EXCEPT ![p] = a], w)
<1>1. /\ ps \in Seq(PresetRecords) /\ Len(ps) \in Nat
      /\ ak \in Seq(Modes) /\ Len(ak) = Len(ps)
    BY LenProperties DEF PresetsOK, AskedOK
<1>2. f \in Dicts
    BY DEF DictOK
<1>3. PICK qs \in Seq(PresetRecords) :
          /\ qs = [ps EXCEPT ![p].fields = f] /\ Len(qs) = Len(ps)
          /\ qs[p].fields = f /\ qs[p].table = ps[p].table
          /\ \A i \in 1..Len(ps) : i # p => qs[i] = ps[i]
    <2>1. ps \in Seq(PresetRecords)
        BY <1>1
    <2> QED
        BY <1>2, <2>1, PresetChanges
<1>4. PICK bs \in Seq(Modes) : bs = [ak EXCEPT ![p] = a]
    BY <1>1, ExceptSeq
<1>5. Len(bs) = Len(ak) /\ \A i \in 1..Len(ak) : bs[i] = IF i = p THEN a ELSE ak[i]
    BY <1>1, <1>4, ExceptSeq
<1>6. ASSUME NEW i \in 1..Len(qs)
      PROVE  HasModes(w, qs[i].fields, bs[i])
    <2>1. CASE i = p
        BY <1>1, <1>3, <1>5, <2>1
    <2>2. CASE i # p
        <3>1. qs[i] = ps[i] /\ i \in 1..Len(ps) /\ bs[i] = ak[i]
            BY <1>1, <1>3, <1>5, <2>2
        <3>2. DictOK(m, ps[i].fields) /\ HasModes(m, ps[i].fields, ak[i])
            BY <3>1 DEF PresetsOK, AskedOK
        <3> QED
            BY <3>1, <3>2, ModesStay
    <2> QED
        BY <2>1, <2>2
<1> QED
    BY <1>1, <1>3, <1>4, <1>5, <1>6 DEF AskedOK

-----------------------------------------------------------------------------
(* The steps that take no loop over the entries. *)

\* The state, named.
Holds(n, m, ps, ts, sp, ak) ==
    /\ n \in Nat /\ m \in Machines(n) /\ m.ok = TRUE /\ TablesOK(ts, n) /\ PresetsOK(ps, ts, m)
    /\ SpentOK(ps, sp, m) /\ AskedOK(ps, ak, m)

\* The invariant, with its state named.
LEMMA Now ==
    ASSUME PresetsInvariant
    PROVE  /\ Holds(Len(defaults), Machine, presets, tables, spent, asked)
           /\ globalMax \in Nat /\ calls \in 0..MaxCalls
BY MachineNow DEF PresetsInvariant, Shape, Holds

\* The invariant of the next state, from its parts.
LEMMA Then ==
    ASSUME NEW n, NEW m, NEW ps, NEW ts, NEW sp, NEW ak, Holds(n, m, ps, ts, sp, ak),
           defaults' = m.defaults, confs' = m.confs, mutators' = m.mutators,
           presets' = ps, tables' = ts, spent' = sp, asked' = ak,
           globalMax' \in Nat, calls' \in 0..MaxCalls
    PROVE  PresetsInvariant'
<1>1. /\ n \in Nat /\ m \in Machines(n) /\ m.ok = TRUE /\ TablesOK(ts, n)
      /\ PresetsOK(ps, ts, m) /\ SpentOK(ps, sp, m) /\ AskedOK(ps, ak, m)
    BY DEF Holds
<1>2. /\ m = [defaults |-> m.defaults, confs |-> m.confs, mutators |-> m.mutators, ok |-> TRUE]
      /\ Len(m.defaults) = n
    BY <1>1, MachineFacts
<1>3. Machine' = m
    BY <1>2 DEF Machine
<1>4. Len(defaults') = n
    BY <1>2
<1> QED
    BY <1>1, <1>3, <1>4 DEF PresetsInvariant, Shape

\* The calls are bounded.
LEMMA CallsStay ==
    ASSUME NEW op, NEW p, NEW named, NEW ok, Called(op, p, named, ok), calls \in 0..MaxCalls
    PROVE  calls' \in 0..MaxCalls
BY PresetsAssumption DEF Called

\* The table of a new epoch.
LEMMA TablesGrow ==
    ASSUME NEW n \in Nat, NEW ts, TablesOK(ts, n), NEW t \in [Types -> 1..(n + 1)]
    PROVE  TablesOK(Append(ts, t), n + 1)
<1>1. ts \in Seq([Types -> 1..n]) /\ Len(ts) = n
    BY DEF TablesOK
<1>2. [Types -> 1..n] \subseteq [Types -> 1..(n + 1)]
    OBVIOUS
<1>3. ts \in Seq([Types -> 1..(n + 1)])
    BY <1>1, <1>2, SeqMonotonic
<1>4. /\ Append(ts, t) \in Seq([Types -> 1..(n + 1)])
      /\ Len(Append(ts, t)) = n + 1
    BY <1>1, <1>3, AppendProperties
<1> QED
    BY <1>4 DEF TablesOK

\* The defaults of a new epoch are settings.
LEMMA NothingIsSettings ==
    NewDefaults \in [Types -> Settings]
<1>1. Nothing \in [{} -> ParamValues]
    BY DEF Nothing
<1>2. Nothing \in Settings
    BY <1>1, SettingsAre
<1> QED
    BY <1>2 DEF NewDefaults

\* What was spent and asked, when a preset is added.
LEMMA HistoryGrows ==
    ASSUME NEW n \in Nat, NEW m \in Machines(n), NEW k \in Nat, NEW w \in Machines(k),
           Extends(m, w), NEW ps, NEW ts, PresetsOK(ps, ts, m), NEW sp, SpentOK(ps, sp, m),
           NEW ak, AskedOK(ps, ak, m), NEW f, DictOK(w, f), NEW t \in Nat,
           NEW s \in [Variables -> Nat],
           \A e \in ToSet(f) : ~e.raw => s[e.key] <= w.mutators[e.id].count,
           NEW a \in Modes, HasModes(w, f, a)
    PROVE  /\ SpentOK(Append(ps, [fields |-> f, table |-> t]), Append(sp, s), w)
           /\ AskedOK(Append(ps, [fields |-> f, table |-> t]), Append(ak, a), w)
<1>1. ps \in Seq(PresetRecords) /\ Len(ps) \in Nat
    BY LenProperties DEF PresetsOK
<1>2. PICK x \in PresetRecords : x = [fields |-> f, table |-> t] /\ x.fields = f
    <2>1. f \in Dicts
        BY DEF DictOK
    <2> QED
        BY <2>1, PresetIs
<1>3. PICK qs \in Seq(PresetRecords) : qs = Append(ps, x)
    BY <1>1, AppendProperties
<1>4. /\ Len(qs) = Len(ps) + 1 /\ qs[Len(ps) + 1].fields = f
      /\ \A i \in 1..Len(ps) : qs[i] = ps[i]
    BY <1>1, <1>2, <1>3, AppendProperties
<1>5. sp \in Seq([Variables -> Nat]) /\ Len(sp) = Len(ps)
    BY DEF SpentOK
<1>6. PICK sq \in Seq([Variables -> Nat]) : sq = Append(sp, s)
    BY <1>5, AppendProperties
<1>7. /\ Len(sq) = Len(ps) + 1 /\ sq[Len(ps) + 1] = s
      /\ \A i \in 1..Len(ps) : sq[i] = sp[i]
    BY <1>5, <1>6, AppendProperties
<1>8. ak \in Seq(Modes) /\ Len(ak) = Len(ps)
    BY DEF AskedOK
<1>9. PICK bs \in Seq(Modes) : bs = Append(ak, a)
    BY <1>8, AppendProperties
<1>10. /\ Len(bs) = Len(ps) + 1 /\ bs[Len(ps) + 1] = a
       /\ \A i \in 1..Len(ps) : bs[i] = ak[i]
    BY <1>8, <1>9, AppendProperties
<1>11. ASSUME NEW i \in 1..Len(qs)
       PROVE  /\ \A e \in ToSet(qs[i].fields) : ~e.raw => sq[i][e.key] <= w.mutators[e.id].count
              /\ HasModes(w, qs[i].fields, bs[i])
    <2>1. CASE i = Len(ps) + 1
        BY <1>4, <1>7, <1>10, <2>1
    <2>2. CASE i # Len(ps) + 1
        <3>1. i \in 1..Len(ps) /\ qs[i] = ps[i] /\ sq[i] = sp[i] /\ bs[i] = ak[i]
            BY <1>1, <1>4, <1>7, <1>10, <2>2
        <3>2. DictOK(m, ps[i].fields) /\ HasModes(m, ps[i].fields, ak[i])
            BY <3>1 DEF PresetsOK, AskedOK
        <3>3. HasModes(w, ps[i].fields, ak[i])
            BY <3>2, ModesStay
        <3>4. ASSUME NEW e \in ToSet(ps[i].fields), ~e.raw
              PROVE  sp[i][e.key] <= w.mutators[e.id].count
            <4>1. w.mutators[e.id] = m.mutators[e.id]
                BY <3>2, <3>4, ExtendsEntry DEF DictOK
            <4> QED
                BY <3>1, <3>4, <4>1 DEF SpentOK
        <3> QED
            BY <3>1, <3>3, <3>4
    <2> QED
        BY <2>1, <2>2
<1>12. SpentOK(qs, sq, w)
    BY <1>4, <1>7, <1>11 DEF SpentOK
<1>13. AskedOK(qs, bs, w)
    BY <1>4, <1>10, <1>11 DEF AskedOK
<1> QED
    BY <1>2, <1>3, <1>6, <1>9, <1>12, <1>13

\* Nothing is asked of and nothing is spent by a preset that is new or cleared.
LEMMA EmptyHistory ==
    /\ [v \in Variables |-> 0] \in [Variables -> Nat]
    /\ [v \in Variables |-> "none"] \in Modes
    /\ \A w : HasModes(w, <<>>, [v \in Variables |-> "none"])
    /\ \A w : DictOK(w, <<>>)
<1>1. \A w : HasModes(w, <<>>, [v \in Variables |-> "none"])
    BY DEF HasModes
<1>2. \A w : DictOK(w, <<>>)
    BY EmptyDict DEF DictOK
<1> QED
    BY <1>1, <1>2 DEF Modes

\* The class gets a new table with new defaults.
LEMMA NewEpoch ==
    ASSUME NEW n, NEW m, NEW ps, NEW ts, NEW sp, NEW ak, Holds(n, m, ps, ts, sp, ak)
    PROVE  \E w \in Machines(n + 1) :
               /\ w = [defaults |-> Append(m.defaults, NewDefaults), confs |-> m.confs,
                       mutators |-> m.mutators, ok |-> TRUE]
               /\ w.defaults = Append(m.defaults, NewDefaults) /\ w.confs = m.confs
               /\ w.mutators = m.mutators /\ w.ok = TRUE
               /\ Extends(m, w)
<1>1. n \in Nat /\ m \in Machines(n) /\ m.ok = TRUE
    BY DEF Holds
<1>2. PICK d \in [Types -> Settings] : d = NewDefaults
    BY NothingIsSettings
<1>3. PICK w \in Machines(n + 1) : w = [m EXCEPT !.defaults = Append(@, d)] /\ Extends(m, w)
    BY <1>1, OneMoreEpoch
<1>4. PICK d0, c0, x0 :
          m = [defaults |-> d0, confs |-> c0, mutators |-> x0, ok |-> TRUE]
    BY <1>1, MachineFacts
<1>5. m.defaults = d0 /\ m.confs = c0 /\ m.mutators = x0
    BY <1>4
<1>6. w = [defaults |-> Append(d0, d), confs |-> c0, mutators |-> x0, ok |-> TRUE]
    BY <1>3, <1>4
<1>7. /\ w.defaults = Append(d0, d) /\ w.confs = c0 /\ w.mutators = x0 /\ w.ok = TRUE
    BY <1>6
<1> QED
    BY <1>2, <1>3, <1>5, <1>6, <1>7

\* The table of a new epoch leads to its defaults.
LEMMA NewTableOK ==
    ASSUME NEW n \in Nat, TablesOK(tables, n)
    PROVE  NewTable \in [Types -> 1..(n + 1)] /\ TablesOK(Append(tables, NewTable), n + 1)
<1>1. Len(tables) = n
    BY DEF TablesOK
<1>2. NewTable \in [Types -> 1..(n + 1)]
    BY <1>1 DEF NewTable
<1> QED
    BY <1>2, TablesGrow

\* Preset.__init__.
LEMMA CreateKeeps ==
    ASSUME PresetsInvariant, Create
    PROVE  PresetsInvariant'
<1>1. PICK n, m, ps, ts, sp, ak :
          /\ Holds(n, m, ps, ts, sp, ak) /\ n = Len(defaults) /\ m = Machine
          /\ ps = presets /\ ts = tables /\ sp = spent /\ ak = asked
    BY Now
<1>2. PICK w \in Machines(n + 1) :
          /\ w.defaults = Append(m.defaults, NewDefaults) /\ w.confs = m.confs
          /\ w.mutators = m.mutators /\ w.ok = TRUE /\ Extends(m, w)
    BY <1>1, NewEpoch
<1>3. /\ n \in Nat /\ m \in Machines(n) /\ TablesOK(ts, n) /\ PresetsOK(ps, ts, m)
      /\ SpentOK(ps, sp, m) /\ AskedOK(ps, ak, m) /\ n + 1 \in Nat /\ Len(ts) = n
    BY <1>1 DEF Holds, TablesOK
<1>4. PICK us : us = Append(ts, NewTable) /\ TablesOK(us, n + 1) /\ Len(us) = n + 1
    BY <1>1, <1>3, NewTableOK DEF TablesOK
<1>5. PICK s \in [Variables -> Nat] : s = [v \in Variables |-> 0]
    BY EmptyHistory
<1>6. PICK a \in Modes : a = [v \in Variables |-> "none"]
    BY EmptyHistory
<1>7. PICK f : f = <<>> /\ DictOK(w, f) /\ HasModes(w, f, a) /\ ToSet(f) = {}
    BY <1>6, EmptyHistory, EmptyDict
<1>8. /\ n + 1 \in 1..Len(us) /\ Len(us) \in Nat /\ Len(ts) \in Nat /\ Len(ts) <= Len(us)
    BY <1>3, <1>4
<1>9. PICK qs : qs = Append(ps, [fields |-> f, table |-> n + 1]) /\ PresetsOK(qs, us, w)
    BY <1>2, <1>3, <1>7, <1>8, OneMore
<1>10. PICK sq, bs : /\ sq = Append(sp, s) /\ bs = Append(ak, a)
                     /\ SpentOK(qs, sq, w) /\ AskedOK(qs, bs, w)
    <2>1. \A e \in ToSet(f) : ~e.raw => s[e.key] <= w.mutators[e.id].count
        BY <1>7
    <2> QED
        BY <1>2, <1>3, <1>7, <1>9, <2>1, HistoryGrows
<1>11. Holds(n + 1, w, qs, us, sq, bs)
    BY <1>2, <1>3, <1>4, <1>9, <1>10 DEF Holds
<1>12. /\ m.defaults = defaults /\ m.confs = confs /\ m.mutators = mutators
    BY <1>1 DEF Machine
<1>13. /\ defaults' = w.defaults /\ confs' = w.confs /\ mutators' = w.mutators
       /\ presets' = qs /\ tables' = us /\ spent' = sq /\ asked' = bs
    BY <1>1, <1>2, <1>3, <1>4, <1>5, <1>6, <1>7, <1>9, <1>10, <1>12 DEF Create
<1>14. globalMax' \in Nat /\ calls' \in 0..MaxCalls
    BY Now, CallsStay, PresetsAssumption DEF Create
<1> QED
    BY <1>11, <1>13, <1>14, Then

\* Preset.clear.
LEMMA ClearKeeps ==
    ASSUME PresetsInvariant, NEW p \in DOMAIN presets, Clear(p)
    PROVE  PresetsInvariant'
<1>1. PICK n, m, ps, ts, sp, ak :
          /\ Holds(n, m, ps, ts, sp, ak) /\ n = Len(defaults) /\ m = Machine
          /\ ps = presets /\ ts = tables /\ sp = spent /\ ak = asked
    BY Now
<1>2. PICK w \in Machines(n + 1) :
          /\ w.defaults = Append(m.defaults, NewDefaults) /\ w.confs = m.confs
          /\ w.mutators = m.mutators /\ w.ok = TRUE /\ Extends(m, w)
    BY <1>1, NewEpoch
<1>3. /\ n \in Nat /\ m \in Machines(n) /\ TablesOK(ts, n) /\ PresetsOK(ps, ts, m)
      /\ SpentOK(ps, sp, m) /\ AskedOK(ps, ak, m) /\ n + 1 \in Nat /\ Len(ts) = n
    BY <1>1 DEF Holds, TablesOK
<1>4. PICK us : us = Append(ts, NewTable) /\ TablesOK(us, n + 1) /\ Len(us) = n + 1
    BY <1>1, <1>3, NewTableOK DEF TablesOK
<1>5. PICK s \in [Variables -> Nat] : s = [v \in Variables |-> 0]
    BY EmptyHistory
<1>6. PICK a \in Modes : a = [v \in Variables |-> "none"]
    BY EmptyHistory
<1>7. PICK f : f = <<>> /\ DictOK(w, f) /\ HasModes(w, f, a) /\ ToSet(f) = {}
    BY <1>6, EmptyHistory, EmptyDict
<1>8. Len(us) \in Nat /\ Len(ts) \in Nat /\ Len(ts) <= Len(us)
    BY <1>3, <1>4
<1>p. p \in 1..Len(ps)
    BY <1>1, PresetFacts DEF PresetsInvariant
<1>9. PICK qs : qs = [ps EXCEPT ![p].fields = f] /\ PresetsOK(qs, us, w)
    <2>1. PresetsOK([ps EXCEPT ![p].fields = f], us, w)
        BY <1>2, <1>3, <1>7, <1>8, <1>p, OneChanges
    <2> QED
        BY <2>1
<1>10. PICK sq : sq = [sp EXCEPT ![p] = s] /\ SpentOK(qs, sq, w)
    <2>1. \A e \in ToSet(f) : ~e.raw => s[e.key] <= w.mutators[e.id].count
        BY <1>7
    <2> QED
        BY <1>2, <1>3, <1>7, <1>9, <1>p, <2>1, SpentChanges
<1>a. PICK bs : bs = [ak EXCEPT ![p] = a] /\ AskedOK(qs, bs, w)
    BY <1>2, <1>3, <1>7, <1>9, <1>p, AskedChanges
<1>11. Holds(n + 1, w, qs, us, sq, bs)
    BY <1>2, <1>3, <1>4, <1>9, <1>10, <1>a DEF Holds
<1>12. /\ m.defaults = defaults /\ m.confs = confs /\ m.mutators = mutators
    BY <1>1 DEF Machine
<1>13. /\ defaults' = w.defaults /\ confs' = w.confs /\ mutators' = w.mutators
       /\ presets' = qs /\ tables' = us /\ spent' = sq /\ asked' = bs
    BY <1>1, <1>2, <1>4, <1>5, <1>6, <1>7, <1>9, <1>10, <1>a, <1>12 DEF Clear
<1>14. globalMax' \in Nat /\ calls' \in 0..MaxCalls
    BY Now, CallsStay DEF Clear
<1> QED
    BY <1>11, <1>13, <1>14, Then

\* Preset.setFuzzingCounterMax.
LEMMA LimitKeeps ==
    ASSUME PresetsInvariant, NEW n \in Limits, SetFuzzingCounterMax(n)
    PROVE  PresetsInvariant'
<1>1. PICK k, m, ps, ts, sp, ak :
          /\ Holds(k, m, ps, ts, sp, ak) /\ m = Machine
          /\ ps = presets /\ ts = tables /\ sp = spent /\ ak = asked
    BY Now
<1>2. /\ m.defaults = defaults /\ m.confs = confs /\ m.mutators = mutators
    BY <1>1 DEF Machine
<1>3. /\ defaults' = m.defaults /\ confs' = m.confs /\ mutators' = m.mutators
      /\ presets' = ps /\ tables' = ts /\ spent' = sp /\ asked' = ak
    BY <1>1, <1>2 DEF SetFuzzingCounterMax, heap
<1>4. globalMax' \in Nat /\ calls' \in 0..MaxCalls
    BY Now, CallsStay, PresetsAssumption DEF SetFuzzingCounterMax
<1> QED
    BY <1>1, <1>3, <1>4, Then

\* One preset changes, and the heap is extended.
LEMMA OneSteps ==
    ASSUME NEW n, NEW m, NEW ps, NEW ts, NEW sp, NEW ak, Holds(n, m, ps, ts, sp, ak),
           NEW k \in Nat, NEW w \in Machines(k), w.ok = TRUE, Extends(m, w),
           NEW us, TablesOK(us, k), Len(ts) <= Len(us),
           NEW p \in 1..Len(ps), NEW f, DictOK(w, f), NEW s \in [Variables -> Nat],
           \A e \in ToSet(f) : ~e.raw => s[e.key] <= w.mutators[e.id].count,
           NEW a \in Modes, HasModes(w, f, a)
    PROVE  Holds(k, w, [ps EXCEPT ![p].fields = f], us, [sp EXCEPT ![p] = s],
                 [ak EXCEPT ![p] = a])
<1>1. /\ n \in Nat /\ m \in Machines(n) /\ PresetsOK(ps, ts, m)
      /\ SpentOK(ps, sp, m) /\ AskedOK(ps, ak, m) /\ Len(ts) \in Nat /\ Len(us) \in Nat
    BY DEF Holds, TablesOK
<1>2. PresetsOK([ps EXCEPT ![p].fields = f], us, w)
    BY <1>1, OneChanges
<1>3. SpentOK([ps EXCEPT ![p].fields = f], [sp EXCEPT ![p] = s], w)
    BY <1>1, SpentChanges
<1>4. AskedOK([ps EXCEPT ![p].fields = f], [ak EXCEPT ![p] = a], w)
    BY <1>1, AskedChanges
<1> QED
    BY <1>2, <1>3, <1>4 DEF Holds

\* A preset, and what was spent and asked of it.
LEMMA PresetOf ==
    ASSUME NEW n, NEW m, NEW ps, NEW ts, NEW sp, NEW ak, Holds(n, m, ps, ts, sp, ak),
           NEW p \in 1..Len(ps)
    PROVE  /\ DictOK(m, ps[p].fields) /\ ps[p].fields \in Dicts /\ ps[p].table \in 1..Len(ts)
           /\ ts[ps[p].table] \in [Types -> 1..n] /\ sp[p] \in [Variables -> Nat]
           /\ ak[p] \in Modes /\ HasModes(m, ps[p].fields, ak[p])
<1>1. /\ PresetsOK(ps, ts, m) /\ SpentOK(ps, sp, m) /\ AskedOK(ps, ak, m) /\ TablesOK(ts, n)
    BY DEF Holds
<1>2. DictOK(m, ps[p].fields) /\ ps[p].table \in 1..Len(ts)
    BY <1>1 DEF PresetsOK
<1>3. ts \in Seq([Types -> 1..n])
    BY <1>1 DEF TablesOK
<1>4. ts[ps[p].table] \in [Types -> 1..n]
    BY <1>2, <1>3, ElementOfSeq
<1>5. sp \in Seq([Variables -> Nat]) /\ p \in 1..Len(sp)
    BY <1>1 DEF SpentOK
<1>6. sp[p] \in [Variables -> Nat]
    BY <1>5, ElementOfSeq
<1>7. ak \in Seq(Modes) /\ p \in 1..Len(ak) /\ HasModes(m, ps[p].fields, ak[p])
    BY <1>1 DEF AskedOK
<1>8. ak[p] \in Modes
    BY <1>7, ElementOfSeq
<1> QED
    BY <1>2, <1>4, <1>6, <1>7, <1>8 DEF DictOK

\* Preset.unset.
LEMMA UnsetKeeps ==
    ASSUME PresetsInvariant, NEW p \in DOMAIN presets, NEW key \in Targets \cap Keys,
           Unset(p, key)
    PROVE  PresetsInvariant'
<1>1. PICK n, m, ps, ts, sp, ak :
          /\ Holds(n, m, ps, ts, sp, ak) /\ n = Len(defaults) /\ m = Machine
          /\ ps = presets /\ ts = tables /\ sp = spent /\ ak = asked
    BY Now
<1>2. p \in 1..Len(ps) /\ n \in Nat /\ m \in Machines(n) /\ m.ok = TRUE /\ TablesOK(ts, n)
    BY <1>1, PresetFacts DEF PresetsInvariant, Holds
<1>3. Extends(m, m) /\ Len(ts) <= Len(ts)
    BY <1>2, ExtendsReflexive DEF TablesOK
<1>4. PICK g, old : /\ g = ps[p].fields /\ old = ak[p] /\ DictOK(m, g) /\ g \in Dicts
                    /\ old \in Modes /\ HasModes(m, g, old)
    BY <1>1, <1>2, PresetOf
<1>5. PICK removed : removed = ToSet(Resolve(key))
                              \cup (IF IsLeafField(key) THEN {} ELSE {key})
    OBVIOUS
<1>6. PICK f : f = Drop(g, removed)
    OBVIOUS
<1>7. f \in Dicts /\ ToSet(f) = {x \in ToSet(g) : x.key \notin removed}
    BY <1>4, <1>6, DropFacts
<1>8. DictOK(m, f)
    BY <1>4, <1>7 DEF DictOK
<1>9. PICK s : s = Respent(p, f)
    OBVIOUS
<1>10. /\ s \in [Variables -> Nat]
       /\ \A e \in ToSet(f) : ~e.raw => s[e.key] <= m.mutators[e.id].count
    BY <1>1, <1>2, <1>3, <1>8, <1>9, RespentFacts DEF PresetsInvariant
<1>11. PICK a : a = [v \in Variables |-> IF v \in removed THEN "none" ELSE old[v]]
    OBVIOUS
<1>12. a \in Modes
    BY <1>4, <1>11 DEF Modes
<1>13. HasModes(m, f, a)
    <2>1. ASSUME NEW v \in Variables, a[v] # "none"
          PROVE  HasMode(m, f, v, a[v])
        <3>1. v \notin removed /\ a[v] = old[v]
            BY <1>11, <2>1
        <3>2. HasMode(m, g, v, a[v])
            BY <1>4, <2>1, <3>1 DEF HasModes
        <3>3. PICK e \in ToSet(g) : e.key = v /\ ModeIn(m, e) = a[v]
            BY <3>2 DEF HasMode
        <3>4. e \in ToSet(f)
            BY <1>7, <3>1, <3>3
        <3> QED
            BY <3>3, <3>4 DEF HasMode
    <2> QED
        BY <2>1 DEF HasModes
<1>14. PICK qs, sq, bs : /\ qs = [ps EXCEPT ![p].fields = f] /\ sq = [sp EXCEPT ![p] = s]
                         /\ bs = [ak EXCEPT ![p] = a] /\ Holds(n, m, qs, ts, sq, bs)
    <2>1. Holds(n, m, [ps EXCEPT ![p].fields = f], ts, [sp EXCEPT ![p] = s],
                [ak EXCEPT ![p] = a])
        BY <1>1, <1>2, <1>3, <1>8, <1>10, <1>12, <1>13, OneSteps
    <2> QED
        BY <2>1
<1>15. /\ m.defaults = defaults /\ m.confs = confs /\ m.mutators = mutators
    BY <1>1 DEF Machine
<1>16. presets' = qs /\ spent' = sq /\ asked' = bs
    BY <1>1, <1>4, <1>5, <1>6, <1>9, <1>11, <1>14 DEF Unset
<1>17. /\ defaults' = m.defaults /\ confs' = m.confs /\ mutators' = m.mutators /\ tables' = ts
       /\ globalMax' = globalMax
    BY <1>1, <1>15 DEF Unset, heap
<1>18. globalMax' \in Nat /\ calls' \in 0..MaxCalls
    BY <1>17, Now, CallsStay DEF Unset
<1> QED
    BY <1>14, <1>16, <1>17, <1>18, Then

\* Preset.update: the entries come with the modes asked for them.
LEMMA UpdateKeeps ==
    ASSUME PresetsInvariant, NEW p \in DOMAIN presets, NEW q \in DOMAIN presets \ {p},
           Update(p, q)
    PROVE  PresetsInvariant'
<1>1. PICK n, m, ps, ts, sp, ak :
          /\ Holds(n, m, ps, ts, sp, ak) /\ n = Len(defaults) /\ m = Machine
          /\ ps = presets /\ ts = tables /\ sp = spent /\ ak = asked
    BY Now
<1>2. /\ p \in 1..Len(ps) /\ q \in 1..Len(ps)
      /\ n \in Nat /\ m \in Machines(n) /\ m.ok = TRUE /\ TablesOK(ts, n)
    BY <1>1, PresetFacts DEF PresetsInvariant, Holds
<1>3. Extends(m, m)
    BY <1>2, ExtendsReflexive
<1>4. PICK g, old, i : /\ g = ps[p].fields /\ old = ak[p] /\ DictOK(m, g) /\ g \in Dicts
                       /\ old \in Modes /\ HasModes(m, g, old)
                       /\ i = ps[p].table /\ i \in 1..Len(ts)
    BY <1>1, <1>2, PresetOf
<1>5. PICK h, his, t : /\ h = ps[q].fields /\ his = ak[q] /\ DictOK(m, h) /\ h \in Dicts
                       /\ his \in Modes /\ HasModes(m, h, his)
                       /\ t = ts[ps[q].table] /\ t \in [Types -> 1..n]
    BY <1>1, <1>2, PresetOf
<1>6. PICK f : f = PutAll(g, h)
    OBVIOUS
<1>7. /\ f \in Dicts
      /\ \A x \in ToSet(g) : x.key \notin KeysOf(h) => x \in ToSet(f)
      /\ \A x \in ToSet(f) : x \in ToSet(h) \/ x \in ToSet(g)
      /\ \A x \in ToSet(h) : x \in ToSet(f)
    <2>1. h \in Seq(Entries)
        BY <1>5, DictFacts
    <2> QED
        BY <1>4, <1>5, <1>6, <2>1, PutAllFacts
<1>8. DictOK(m, f)
    BY <1>4, <1>5, <1>7 DEF DictOK
<1>9. PICK s : s = Respent(p, f)
    OBVIOUS
<1>10. /\ s \in [Variables -> Nat]
       /\ \A e \in ToSet(f) : ~e.raw => s[e.key] <= m.mutators[e.id].count
    BY <1>1, <1>2, <1>3, <1>8, <1>9, RespentFacts DEF PresetsInvariant
<1>11. PICK a : a = [v \in Variables |-> IF v \in KeysOf(h) THEN his[v] ELSE old[v]]
    OBVIOUS
<1>12. a \in Modes
    BY <1>4, <1>5, <1>11 DEF Modes
<1>13. HasModes(m, f, a)
    <2>1. ASSUME NEW v \in Variables, a[v] # "none"
          PROVE  HasMode(m, f, v, a[v])
        <3>1. CASE v \in KeysOf(h)
            <4>1. HasMode(m, h, v, a[v])
                BY <1>5, <1>11, <2>1, <3>1 DEF HasModes
            <4>2. PICK e \in ToSet(h) : e.key = v /\ ModeIn(m, e) = a[v]
                BY <4>1 DEF HasMode
            <4>3. e \in ToSet(f)
                BY <1>7, <4>2
            <4> QED
                BY <4>2, <4>3 DEF HasMode
        <3>2. CASE v \notin KeysOf(h)
            <4>1. HasMode(m, g, v, a[v])
                BY <1>4, <1>11, <2>1, <3>2 DEF HasModes
            <4>2. PICK e \in ToSet(g) : e.key = v /\ ModeIn(m, e) = a[v]
                BY <4>1 DEF HasMode
            <4>3. e \in ToSet(f)
                BY <1>7, <3>2, <4>2
            <4> QED
                BY <4>2, <4>3 DEF HasMode
        <3> QED
            BY <3>1, <3>2
    <2> QED
        BY <2>1 DEF HasModes
<1>14. PICK us : us = [ts EXCEPT ![i] = t] /\ TablesOK(us, n) /\ Len(us) = Len(ts)
    <2>1. ts \in Seq([Types -> 1..n]) /\ Len(ts) = n
        BY <1>2 DEF TablesOK
    <2>a. i \in 1..Len(ts) /\ t \in [Types -> 1..n]
        BY <1>4, <1>5
    <2>b. /\ [ts EXCEPT ![i] = t] \in Seq([Types -> 1..n])
          /\ Len([ts EXCEPT ![i] = t]) = Len(ts)
        BY <2>1, <2>a, ExceptSeq
    <2>2. PICK us \in Seq([Types -> 1..n]) : us = [ts EXCEPT ![i] = t]
        BY <2>b
    <2>3. Len(us) = Len(ts)
        BY <2>2, <2>b
    <2> QED
        BY <2>1, <2>2, <2>3 DEF TablesOK
<1>15. Len(ts) <= Len(us)
    BY <1>2, <1>14 DEF TablesOK
<1>16. PICK qs, sq, bs : /\ qs = [ps EXCEPT ![p].fields = f] /\ sq = [sp EXCEPT ![p] = s]
                         /\ bs = [ak EXCEPT ![p] = a] /\ Holds(n, m, qs, us, sq, bs)
    <2>1. Holds(n, m, [ps EXCEPT ![p].fields = f], us, [sp EXCEPT ![p] = s],
                [ak EXCEPT ![p] = a])
        BY <1>1, <1>2, <1>3, <1>8, <1>10, <1>12, <1>13, <1>14, <1>15, OneSteps
    <2> QED
        BY <2>1
<1>17. /\ m.defaults = defaults /\ m.confs = confs /\ m.mutators = mutators
    BY <1>1 DEF Machine
<1>18. presets' = qs /\ spent' = sq /\ asked' = bs
    BY <1>1, <1>4, <1>5, <1>6, <1>9, <1>11, <1>16 DEF Update
<1>19. /\ defaults' = m.defaults /\ confs' = m.confs /\ mutators' = m.mutators /\ tables' = us
       /\ globalMax' = globalMax
    BY <1>1, <1>4, <1>5, <1>14, <1>17 DEF Update
<1>20. globalMax' \in Nat /\ calls' \in 0..MaxCalls
    BY <1>19, Now, CallsStay DEF Update
<1> QED
    BY <1>16, <1>18, <1>19, <1>20, Then

\* Preset.fuzz on a type.
LEMMA FuzzTypeKeeps ==
    ASSUME PresetsInvariant, NEW p \in DOMAIN presets, NEW type \in Targets \cap Types,
           NEW request \in Requests, FuzzType(p, type, request)
    PROVE  PresetsInvariant'
<1>1. PICK n, m, ps, ts, sp, ak :
          /\ Holds(n, m, ps, ts, sp, ak) /\ n = Len(defaults) /\ m = Machine
          /\ ps = presets /\ ts = tables /\ sp = spent /\ ak = asked
    BY Now
<1>2. p \in 1..Len(ps) /\ n \in Nat /\ m \in Machines(n) /\ m.ok = TRUE /\ TablesOK(ts, n)
    BY <1>1, PresetFacts DEF PresetsInvariant, Holds
<1>3. PICK i : i = ts[ps[p].table][type] /\ i \in 1..n
    BY <1>1, <1>2, PresetOf
<1>4. /\ m.defaults \in Seq([Types -> Settings]) /\ Len(m.defaults) = n
      /\ m.confs \in Seq(Complete) /\ m.mutators \in Seq(Mutators(n))
    BY <1>2, MachineFacts
<1>5. m.defaults[i] \in [Types -> Settings] /\ m.defaults[i][type] \in Settings
    BY <1>3, <1>4, ElementOfSeq
<1>6. PICK x \in Settings : x = Written(Defaulted(request), m.defaults[i][type])
    <2>1. Defaulted(request) \in Settings
        BY RequestFacts, DefaultedFacts, CompleteFacts
    <2> QED
        BY <1>5, <2>1, WrittenFacts
<1>7. PICK row \in [Types -> Settings] : row = [m.defaults[i] EXCEPT ![type] = x]
    BY <1>5, <1>6
<1>8. PICK d \in Seq([Types -> Settings]) : d = [m.defaults EXCEPT ![i] = row] /\ Len(d) = n
    <2>1. i \in 1..Len(m.defaults) /\ m.defaults \in Seq([Types -> Settings])
        BY <1>3, <1>4
    <2>2. /\ [m.defaults EXCEPT ![i] = row] \in Seq([Types -> Settings])
          /\ Len([m.defaults EXCEPT ![i] = row]) = Len(m.defaults)
        BY <2>1, ExceptSeq
    <2> QED
        BY <1>4, <2>2
<1>9. PICK w \in Machines(n) :
          w = [defaults |-> d, confs |-> m.confs, mutators |-> m.mutators, ok |-> TRUE]
    BY <1>2, <1>4, <1>8, MachineIs
<1>10. w.defaults = d /\ w.confs = m.confs /\ w.mutators = m.mutators /\ w.ok = TRUE
    BY <1>9
<1>11. Extends(m, w)
    BY <1>2, <1>10, MachineFacts DEF Extends
<1>12. Holds(n, w, ps, ts, sp, ak)
    <2>1. /\ PresetsOK(ps, ts, m) /\ SpentOK(ps, sp, m) /\ AskedOK(ps, ak, m)
        BY <1>1 DEF Holds
    <2>2. PresetsOK(ps, ts, w)
        BY <1>10, <2>1 DEF PresetsOK, DictOK, EntryOK
    <2>3. SpentOK(ps, sp, w)
        BY <1>10, <2>1 DEF SpentOK
    <2>4. \A f, a : HasModes(m, f, a) => HasModes(w, f, a)
        BY <1>10 DEF HasModes, HasMode, ModeIn
    <2>5. AskedOK(ps, ak, w)
        BY <2>1, <2>4 DEF AskedOK
    <2> QED
        BY <1>2, <1>10, <2>2, <2>3, <2>5 DEF Holds
<1>13. /\ m.defaults = defaults /\ m.confs = confs /\ m.mutators = mutators
    BY <1>1 DEF Machine
<1>14. defaults' = d
    <2>1. defaults' = [defaults EXCEPT ![i][type] = Written(Defaulted(request), @)]
        BY <1>1, <1>3 DEF FuzzType
    <2>2. defaults' = [m.defaults EXCEPT ![i] =
              [m.defaults[i] EXCEPT ![type] = Written(Defaulted(request), m.defaults[i][type])]]
        BY <1>13, <2>1
    <2> QED
        BY <1>6, <1>7, <1>8, <2>2
<1>15. /\ confs' = w.confs /\ mutators' = w.mutators /\ presets' = ps /\ tables' = ts
       /\ spent' = sp /\ asked' = ak /\ globalMax' = globalMax
    BY <1>1, <1>10, <1>13 DEF FuzzType
<1>16. globalMax' \in Nat /\ calls' \in 0..MaxCalls
    BY <1>15, Now, CallsStay DEF FuzzType
<1> QED
    BY <1>10, <1>12, <1>14, <1>15, <1>16, Then

-----------------------------------------------------------------------------
(* fuzz on a key. *)

AskedMode(request) ==
    IF "value" \in DOMAIN request THEN "FIXED" ELSE Defaulted(request)["mode"]

\* What fuzz has written when the keys are about to be normalized.
Configured(n, m, g, key, mode, m0, e0, set) ==
    /\ n \in Nat /\ m \in Machines(n) /\ m0 \in Machines(n) /\ m0.ok = TRUE
    /\ m0.mutators = m.mutators /\ Extends(m, m0) /\ mode \in ParamValues
    /\ g \in Dicts /\ DictOK(m, g) /\ DictOK(m0, set)
    /\ e0 \in Entries /\ e0.key = key /\ e0.raw /\ ModeIn(m0, e0) = mode /\ key \in Keys
    /\ ToSet(set) = {x \in ToSet(g) : x.key # key} \cup {e0}

\* The entry of the key of a call is written first.
LEMMA ConfiguredFirst ==
    ASSUME NEW n \in Nat, NEW m \in Machines(n), m.ok = TRUE, NEW g, DictOK(m, g),
           NEW key \in Keys, NEW request \in Requests,
           NEW m0, m0 = [m EXCEPT !.confs = Append(@, Defaulted(request))],
           NEW e0, e0 = Entry(key, TRUE, Len(m.confs) + 1),
           NEW set, set = Put(g, e0)
    PROVE  Configured(n, m, g, key, AskedMode(request), m0, e0, set)
<1>1. /\ m.defaults \in Seq([Types -> Settings]) /\ Len(m.defaults) = n
      /\ m.confs \in Seq(Complete) /\ m.mutators \in Seq(Mutators(n)) /\ Len(m.confs) \in Nat
      /\ m = [defaults |-> m.defaults, confs |-> m.confs, mutators |-> m.mutators, ok |-> m.ok]
    BY MachineFacts
<1>2. PICK c \in Complete : c = Defaulted(request)
    BY RequestFacts, DefaultedFacts
<1>3. PICK cs \in Seq(Complete) : cs = Append(m.confs, c)
    BY <1>1, AppendProperties
<1>4. /\ Len(cs) = Len(m.confs) + 1 /\ cs[Len(m.confs) + 1] = c
      /\ \A i \in 1..Len(m.confs) : cs[i] = m.confs[i]
    BY <1>1, <1>3, AppendProperties
<1>5. m0 = [defaults |-> m.defaults, confs |-> cs, mutators |-> m.mutators, ok |-> TRUE]
    <2>1. PICK d0, c0, x0 :
              m = [defaults |-> d0, confs |-> c0, mutators |-> x0, ok |-> TRUE]
        BY <1>1
    <2>2. m.defaults = d0 /\ m.mutators = x0
        BY <2>1
    <2>3. m0 = [m EXCEPT !.confs = cs]
        BY <1>2, <1>3
    <2>4. m0 = [defaults |-> d0, confs |-> cs, mutators |-> x0, ok |-> TRUE]
        BY <2>1, <2>3
    <2> QED
        BY <2>2, <2>4
<1>6. m0 \in Machines(n)
    <2>1. /\ m.defaults \in Seq([Types -> Settings]) /\ Len(m.defaults) = n
          /\ m.mutators \in Seq(Mutators(n)) /\ TRUE \in BOOLEAN
        BY <1>1
    <2>2. [defaults |-> m.defaults, confs |-> cs, mutators |-> m.mutators, ok |-> TRUE]
              \in Machines(n)
        BY <2>1, MachineIs
    <2> QED
        BY <1>5, <2>2
<1>7. m0.confs = cs /\ m0.mutators = m.mutators /\ m0.ok = TRUE
    BY <1>5
<1>8. Extends(m, m0)
    BY <1>1, <1>4, <1>7, MachineFacts DEF Extends
<1>9. /\ e0 \in Entries /\ e0.key = key /\ e0.raw = TRUE /\ e0.id = Len(m.confs) + 1
    BY <1>1 DEF Entry, Entries
<1>10. EntryOK(m0, e0)
    <2>1. e0.id \in 1..Len(m0.confs)
        <3>1. PICK l \in Nat : l = Len(m.confs)
            BY <1>1
        <3>2. Len(m0.confs) = l + 1
            BY <1>4, <1>7, <3>1
        <3>3. e0.id = l + 1
            BY <1>9, <3>1
        <3>4. l + 1 \in 1..(l + 1)
            OBVIOUS
        <3> QED
            BY <3>2, <3>3, <3>4
    <2> QED
        BY <1>9, <2>1 DEF EntryOK
<1>11. ModeIn(m0, e0) = ConfMode(c)
    BY <1>4, <1>7, <1>9 DEF ModeIn
<1>12. ConfMode(c) = AskedMode(request) /\ AskedMode(request) \in ParamValues
    <2>1. "value" \in DOMAIN c <=> "value" \in DOMAIN request
        BY <1>2, RequestFacts, DefaultedFacts
    <2>2. c["mode"] \in ParamValues
        BY CompleteFacts
    <2> QED
        BY <1>2, <2>1, <2>2, ConstantValues DEF ConfMode, AskedMode
<1>13. g \in Dicts /\ \A e \in ToSet(g) : EntryOK(m, e)
    BY DEF DictOK
<1>14. /\ set \in Dicts
       /\ ToSet(set) = {x \in ToSet(g) : x.key # key} \cup {e0}
    <2>1. g \in Seq(Entries) /\ g \in Dicts /\ e0 \in Entries
        BY <1>9, <1>13, DictFacts
    <2>2. /\ Put(g, e0) \in Dicts
          /\ ToSet(Put(g, e0)) = {x \in ToSet(g) : x.key # e0.key} \cup {e0}
        BY <2>1, PutFacts
    <2> QED
        BY <1>9, <2>2
<1>15. DictOK(m0, set)
    <2>1. \A e \in ToSet(g) : EntryOK(m0, e)
        BY <1>6, <1>8, <1>13, ExtendsEntry
    <2> QED
        BY <1>10, <1>14, <2>1 DEF DictOK
<1> QED
    BY <1>6, <1>7, <1>8, <1>9, <1>11, <1>12, <1>13, <1>14, <1>15 DEF Configured

\* The variables that the keys are given to: those of the key of the call and
\* those of the keys that were left behind.
LEMMA TakenNow ==
    ASSUME NEW set, NEW key \in KeysOf(set), KeysOf(set) \subseteq Keys
    PROVE  TakenAt(set, key) = LeftBehind(set, key)
               \cup (IF key \in Variables THEN {} ELSE ToSet(Resolve(key)))
<1>1. ToSet(Taken(set, key, key)) = ToSet(Resolve(key))
    BY TakenFacts
<1>2. CASE key \in Variables
    BY <1>2 DEF TakenAt, LeftBehind
<1>3. CASE key \notin Variables
    <2>1. KeysOf(set) \ Variables = (KeysOf(set) \ (Variables \cup {key})) \cup {key}
        BY <1>3
    <2> QED
        BY <1>1, <1>3, <2>1 DEF TakenAt, LeftBehind
<1> QED
    BY <1>2, <1>3

\* The keys once the call's is written.
LEMMA ConfiguredKeys ==
    ASSUME NEW n, NEW m, NEW g, NEW key, NEW mode, NEW m0, NEW e0, NEW set,
           Configured(n, m, g, key, mode, m0, e0, set)
    PROVE  /\ key \in KeysOf(set) /\ KeysOf(set) \subseteq Keys /\ set \in Dicts
           /\ e0 \in ToSet(set)
<1>1. set \in Dicts /\ e0 \in ToSet(set) /\ e0.key = key
    BY DEF Configured, DictOK
<1>2. set \in Seq(Entries) /\ e0.key \in KeysOf(set)
    BY <1>1, DictFacts
<1>3. KeysOf(set) \in SUBSET Keys
    BY <1>2, KeysFacts
<1> QED
    BY <1>1, <1>2, <1>3

\* The entries that normalized keys leave are well formed.
LEMMA GivenWay ==
    ASSUME NEW n, NEW m, NEW g, NEW key, NEW mode, NEW m0, NEW e0, NEW set,
           Configured(n, m, g, key, mode, m0, e0, set), NEW f, KeysGiveWay(set, key, f)
    PROVE  DictOK(m0, f) /\ KeysOf(f) \subseteq Variables
<1>1. f \in Dicts /\ KeysOf(f) \subseteq Variables
    BY DEF KeysGiveWay
<1>2. ASSUME NEW x \in ToSet(f)
      PROVE  EntryOK(m0, x)
    <2>1. \A e \in ToSet(set) : EntryOK(m0, e)
        BY DEF Configured, DictOK
    <2>2. CASE x \in ToSet(set)
        BY <2>1, <2>2
    <2>3. CASE \E e \in ToSet(set) : e.key \notin Variables /\ x = Entry(x.key, e.raw, e.id)
        <3>1. PICK e \in ToSet(set) : e.key \notin Variables /\ x = Entry(x.key, e.raw, e.id)
            BY <2>3
        <3>2. EntryOK(m0, e)
            BY <2>1
        <3>3. e.raw /\ e.id \in 1..Len(m0.confs) /\ e \in Entries
            BY <3>1, <3>2 DEF EntryOK
        <3>4. x \in Entries
            BY <1>1, KeysFacts, DictFacts
        <3>5. x.raw = e.raw /\ x.id = e.id
            BY <3>1 DEF Entry
        <3> QED
            BY <3>3, <3>4, <3>5 DEF EntryOK
    <2> QED
        BY <2>2, <2>3 DEF KeysGiveWay
<1> QED
    BY <1>1, <1>2 DEF DictOK

\* The modes that a call of fuzz asks for, when it refuses no key.
AskedNow(old, set, key, mode) ==
    [v \in Variables |->
        IF v \in LeftBehind(set, key) THEN "none"
        ELSE IF v = key \/ v \in ToSet(Resolve(key)) THEN mode ELSE old[v]]

\* An entry that no key gives way to stays.
LEMMA StaysThere ==
    ASSUME NEW n, NEW m, NEW g, NEW key, NEW mode, NEW m0, NEW e0, NEW set,
           Configured(n, m, g, key, mode, m0, e0, set), NEW f, KeysGiveWay(set, key, f),
           NEW x \in ToSet(g), x.key \in Variables, x.key # key,
           x.key \notin LeftBehind(set, key), x.key \notin ToSet(Resolve(key))
    PROVE  x \in ToSet(f)
<1>1. x \in ToSet(set)
    BY DEF Configured
<1>2. x.key \notin TakenAt(set, key)
    BY ConfiguredKeys, TakenNow
<1> QED
    BY <1>1, <1>2 DEF KeysGiveWay

\* When the keys give way, the variables have the modes last asked for.
LEMMA ModesGiveWay ==
    ASSUME NEW n, NEW m, NEW g, NEW key, NEW mode, NEW m0, NEW e0, NEW set,
           Configured(n, m, g, key, mode, m0, e0, set), NEW f, KeysGiveWay(set, key, f),
           NEW old \in Modes, HasModes(m, g, old)
    PROVE  AskedNow(old, set, key, mode) \in Modes
           /\ HasModes(m0, f, AskedNow(old, set, key, mode))
<1>1. PICK a : a = AskedNow(old, set, key, mode)
    OBVIOUS
<1>2. a \in Modes
    BY <1>1 DEF AskedNow, Modes, Configured
<1>3. /\ key \in KeysOf(set) /\ KeysOf(set) \subseteq Keys /\ set \in Dicts /\ key \in Keys
      /\ e0 \in ToSet(set)
    BY ConfiguredKeys
<1>4. /\ n \in Nat /\ m \in Machines(n) /\ m0 \in Machines(n) /\ Extends(m, m0)
      /\ DictOK(m, g) /\ e0.key = key /\ e0.raw /\ ModeIn(m0, e0) = mode
    BY DEF Configured
<1>5. TakenAt(set, key) = LeftBehind(set, key)
          \cup (IF key \in Variables THEN {} ELSE ToSet(Resolve(key)))
    BY <1>3, TakenNow
<1>6. HasModes(m0, g, old)
    BY <1>4, ModesStay
<1>7. ASSUME NEW v \in Variables, a[v] # "none"
      PROVE  HasMode(m0, f, v, a[v])
    <2>1. /\ v \notin LeftBehind(set, key)
          /\ a[v] = IF v = key \/ v \in ToSet(Resolve(key)) THEN mode ELSE old[v]
        BY <1>1, <1>7 DEF AskedNow
    <2>2. CASE v = key
        <3>1. e0.key \in Variables /\ e0.key \notin TakenAt(set, key)
            BY <1>4, <1>5, <2>1, <2>2
        <3>2. e0 \in ToSet(f)
            BY <1>3, <3>1 DEF KeysGiveWay
        <3> QED
            BY <1>4, <2>1, <2>2, <3>2 DEF HasMode
    <2>3. CASE v # key /\ v \in ToSet(Resolve(key))
        <3>1. key \notin Variables
            BY <1>3, <2>3, ResolveFacts
        <3>2. v \in TakenAt(set, key)
            BY <1>5, <2>3, <3>1
        <3>3. v \in KeysOf(f) /\ f \in Dicts
            BY <3>2 DEF KeysGiveWay
        <3>4. PICK x \in ToSet(f) : x.key = v
            BY <3>3, KeysFacts, DictFacts
        <3>5. PICK e \in ToSet(set) :
                  /\ e.key \notin Variables
                  /\ x.key \in ToSet(Taken(set, e.key, key)) /\ x = Entry(x.key, e.raw, e.id)
            BY <3>2, <3>4 DEF KeysGiveWay
        <3>6. e.key = key
            <4>1. e.key \in KeysOf(set)
                BY <1>3, DictFacts
            <4> QED
                BY <2>1, <3>4, <3>5, <4>1 DEF LeftBehind
        <3>7. e = e0
            BY <1>3, <1>4, <3>6, DictFacts
        <3>8. x.raw = e0.raw /\ x.id = e0.id
            BY <3>5, <3>7 DEF Entry
        <3>9. ModeIn(m0, x) = mode
            BY <1>4, <3>8 DEF ModeIn
        <3> QED
            BY <2>1, <2>3, <3>4, <3>9 DEF HasMode
    <2>4. CASE v # key /\ v \notin ToSet(Resolve(key))
        <3>1. HasMode(m0, g, v, a[v])
            BY <1>6, <1>7, <2>1, <2>4 DEF HasModes
        <3>2. PICK x \in ToSet(g) : x.key = v /\ ModeIn(m0, x) = a[v]
            BY <3>1 DEF HasMode
        <3>3. x \in ToSet(f)
            BY <2>1, <2>4, <3>2, StaysThere
        <3> QED
            BY <3>2, <3>3 DEF HasMode
    <2> QED
        BY <2>2, <2>3, <2>4
<1>8. HasModes(m0, f, a)
    BY <1>7 DEF HasModes
<1> QED
    BY <1>1, <1>2, <1>8

\* Normalizing the values keeps the modes.
LEMMA KeepsModes ==
    ASSUME NEW n, NEW m, NEW f, NEW r, Keeps(m, f, r, n), NEW a, HasModes(m, f, a)
    PROVE  HasModes(r.m, r.fields, a)
<1>1. ASSUME NEW v \in Variables, a[v] # "none"
      PROVE  HasMode(r.m, r.fields, v, a[v])
    <2>1. HasMode(m, f, v, a[v])
        BY <1>1 DEF HasModes
    <2>2. PICK e \in ToSet(f) : e.key = v /\ ModeIn(m, e) = a[v]
        BY <2>1 DEF HasMode
    <2>3. PICK x \in ToSet(r.fields) : x.key = e.key /\ ModeIn(r.m, x) = ModeIn(m, e)
        BY DEF Keeps
    <2> QED
        BY <2>2, <2>3 DEF HasMode
<1> QED
    BY <1>1 DEF HasModes

\* The same heap, when an exception has left the call.
Same(m, w) ==
    w.defaults = m.defaults /\ w.confs = m.confs /\ w.mutators = m.mutators

\* All that depends on the heap alone is the same in the same heap.
LEMMA SameFacts ==
    ASSUME NEW m, NEW w, Same(m, w)
    PROVE  /\ \A f : DictOK(m, f) => DictOK(w, f)
           /\ \A f, a : HasModes(m, f, a) => HasModes(w, f, a)
           /\ \A b : Extends(b, m) => Extends(b, w)
<1>1. \A f : DictOK(m, f) => DictOK(w, f)
    BY DEF Same, DictOK, EntryOK
<1>2. \A f, a : HasModes(m, f, a) => HasModes(w, f, a)
    BY DEF Same, HasModes, HasMode, ModeIn
<1>3. \A b : Extends(b, m) => Extends(b, w)
    BY DEF Same, Extends
<1> QED
    BY <1>1, <1>2, <1>3

\* The heap that an exception has left is the heap of the next call.
LEMMA Recovers ==
    ASSUME NEW n \in Nat, NEW m \in Machines(n)
    PROVE  \E w \in Machines(n) : w.ok = TRUE /\ Same(m, w)
<1>1. /\ m.defaults \in Seq([Types -> Settings]) /\ Len(m.defaults) = n
      /\ m.confs \in Seq(Complete) /\ m.mutators \in Seq(Mutators(n)) /\ TRUE \in BOOLEAN
    BY MachineFacts
<1>2. PICK w \in Machines(n) :
          w = [defaults |-> m.defaults, confs |-> m.confs, mutators |-> m.mutators, ok |-> TRUE]
    BY <1>1, MachineIs
<1>3. /\ w.defaults = m.defaults /\ w.confs = m.confs /\ w.mutators = m.mutators
      /\ w.ok = TRUE
    BY <1>2
<1> QED
    BY <1>3 DEF Same

\* The modes that the call asks for, when it refuses a key.
AskedOnly(old, key, mode) == [v \in Variables |-> IF v = key THEN mode ELSE old[v]]

\* fuzz refuses a key, and leaves the key of the call behind.
Refuses(m0, set, k, r) ==
    /\ k.m.ok = FALSE /\ Same(k.m, m0) /\ k.fields = set /\ r = k

\* fuzz normalizes the keys and then the values.
Normalizes(n, m0, key, set, k, r) ==
    /\ k.m = m0 /\ KeysGiveWay(set, key, k.fields)
    /\ Keeps(m0, k.fields, r, n)
    /\ r.m.ok => AllReach(r) /\ \A x \in ToSet(r.fields) : ~x.raw

FuzzedTo(p, key, n, m, g, mode, m0, e0, set, k, r) ==
    /\ Configured(n, m, g, key, mode, m0, e0, set)
    /\ Refuses(m0, set, k, r) \/ Normalizes(n, m0, key, set, k, r)
    /\ presets' = [presets EXCEPT ![p].fields = r.fields]
    /\ defaults' = r.m.defaults /\ confs' = r.m.confs /\ mutators' = r.m.mutators
    /\ asked' = [asked EXCEPT ![p] =
                    IF k.m.ok THEN AskedNow(asked[p], set, key, mode)
                    ELSE AskedOnly(asked[p], key, mode)]
    /\ spent' = [spent EXCEPT ![p] = Respent(p, r.fields)]
    /\ Called("fuzz", p, ToSet(Resolve(key)) \cup LeftBehind(set, key), r.m.ok)
    /\ UNCHANGED <<tables, globalMax>>

\* A call of fuzz is refused, or normalizes the keys and then the values.
LEMMA FuzzFacts ==
    ASSUME PresetsInvariant, NEW p \in DOMAIN presets, NEW key \in Targets \cap Keys,
           NEW request \in Requests, Fuzz(p, key, request)
    PROVE  \E m0, e0, set, k, r :
               FuzzedTo(p, key, Len(defaults), Machine, presets[p].fields,
                        AskedMode(request), m0, e0, set, k, r)
<1>1. PICK n, m : /\ n \in Nat /\ m \in Machines(n) /\ n = Len(defaults) /\ m = Machine
                  /\ m.ok = TRUE /\ m.confs = confs
    BY MachineNow DEF PresetsInvariant
<1>2. PICK g : g = presets[p].fields /\ g \in Dicts /\ DictOK(m, g) /\ CurrentTable(n)
    BY <1>1, PresetFacts DEF PresetsInvariant
<1>3. PICK mode : mode = AskedMode(request)
    OBVIOUS
<1>4. PICK m0 : m0 = [m EXCEPT !.confs = Append(@, Defaulted(request))]
    OBVIOUS
<1>5. PICK e0 : e0 = Entry(key, TRUE, Len(m.confs) + 1)
    OBVIOUS
<1>6. PICK set : set = Put(g, e0)
    OBVIOUS
<1>7. Configured(n, m, g, key, mode, m0, e0, set)
    BY <1>1, <1>2, <1>3, <1>4, <1>5, <1>6, ConfiguredFirst
<1>9. /\ m0 \in Machines(n) /\ m0.ok = TRUE /\ set \in Dicts /\ n \in Nat
    <2>1. m0 \in Machines(n) /\ m0.ok = TRUE /\ n \in Nat
        BY <1>7 DEF Configured
    <2>2. set \in Dicts
        BY <1>7, ConfiguredKeys
    <2> QED
        BY <2>1, <2>2
<1>s. /\ m0 = [Machine EXCEPT !.confs = Append(@, Defaulted(request))]
      /\ set = Put(presets[p].fields, Entry(key, TRUE, Len(confs) + 1))
      /\ mode = IF "value" \in DOMAIN request THEN "FIXED" ELSE Defaulted(request)["mode"]
    BY <1>1, <1>2, <1>3, <1>4, <1>5, <1>6 DEF AskedMode
<1>k. PICK k \in {NormalizeKeys(m0, set, key)} :
          \E r \in {IF k.m.ok THEN NormalizeMapping(k.m, k.fields) ELSE k} :
              /\ presets' = [presets EXCEPT ![p].fields = r.fields]
              /\ defaults' = r.m.defaults /\ confs' = r.m.confs /\ mutators' = r.m.mutators
              /\ asked' = [asked EXCEPT ![p] = [v \in Variables |->
                    IF k.m.ok /\ v \in LeftBehind(set, key) THEN "none"
                    ELSE IF v = key \/ (k.m.ok /\ v \in ToSet(Resolve(key))) THEN mode
                    ELSE asked[p][v]]]
              /\ spent' = [spent EXCEPT ![p] = Respent(p, r.fields)]
              /\ Called("fuzz", p, ToSet(Resolve(key)) \cup LeftBehind(set, key), r.m.ok)
              /\ UNCHANGED <<tables, globalMax>>
    BY <1>s DEF Fuzz
<1>r. PICK r \in {IF k.m.ok THEN NormalizeMapping(k.m, k.fields) ELSE k} :
          /\ presets' = [presets EXCEPT ![p].fields = r.fields]
          /\ defaults' = r.m.defaults /\ confs' = r.m.confs /\ mutators' = r.m.mutators
          /\ asked' = [asked EXCEPT ![p] = [v \in Variables |->
                    IF k.m.ok /\ v \in LeftBehind(set, key) THEN "none"
                    ELSE IF v = key \/ (k.m.ok /\ v \in ToSet(Resolve(key))) THEN mode
                    ELSE asked[p][v]]]
          /\ spent' = [spent EXCEPT ![p] = Respent(p, r.fields)]
          /\ Called("fuzz", p, ToSet(Resolve(key)) \cup LeftBehind(set, key), r.m.ok)
          /\ UNCHANGED <<tables, globalMax>>
    BY <1>k
<1>8. /\ k = NormalizeKeys(m0, set, key)
      /\ r = IF k.m.ok THEN NormalizeMapping(k.m, k.fields) ELSE k
    OBVIOUS
<1>10. \/ k = [m |-> [m0 EXCEPT !.ok = FALSE], fields |-> set]
       \/ k.m = m0 /\ KeysGiveWay(set, key, k.fields)
    BY <1>8, <1>9, NormalizeKeysFacts
<1>11. PICK a :
          /\ a = IF k.m.ok THEN AskedNow(asked[p], set, key, mode)
                 ELSE AskedOnly(asked[p], key, mode)
          /\ asked' = [asked EXCEPT ![p] = a]
    <2>1. CASE k.m.ok
        BY <1>r, <2>1 DEF AskedNow
    <2>2. CASE ~k.m.ok
        BY <1>r, <2>2 DEF AskedOnly
    <2> QED
        BY <2>1, <2>2
<1>12. Refuses(m0, set, k, r) \/ Normalizes(n, m0, key, set, k, r)
    <2>1. CASE k = [m |-> [m0 EXCEPT !.ok = FALSE], fields |-> set]
        <3>1. k.fields = set /\ k.m = [m0 EXCEPT !.ok = FALSE]
            BY <2>1
        <3>2. PICK d0, c0, x0 :
                  m0 = [defaults |-> d0, confs |-> c0, mutators |-> x0, ok |-> TRUE]
            BY <1>9, MachineFacts
        <3>3. m0.defaults = d0 /\ m0.confs = c0 /\ m0.mutators = x0
            BY <3>2
        <3>4. k.m = [defaults |-> d0, confs |-> c0, mutators |-> x0, ok |-> FALSE]
            BY <3>1, <3>2
        <3>5. k.m.defaults = d0 /\ k.m.confs = c0 /\ k.m.mutators = x0 /\ k.m.ok = FALSE
            BY <3>4
        <3>6. Same(k.m, m0)
            BY <3>3, <3>5 DEF Same
        <3>7. r = k
            BY <1>8, <3>5
        <3> QED
            BY <3>1, <3>5, <3>6, <3>7 DEF Refuses
    <2>2. CASE k.m = m0 /\ KeysGiveWay(set, key, k.fields)
        <3>1. PICK f : f = k.fields /\ KeysGiveWay(set, key, f)
            BY <2>2
        <3>2. DictOK(m0, f) /\ KeysOf(f) \subseteq Variables
            BY <1>7, <3>1, GivenWay
        <3>3. r = NormalizeMapping(m0, f)
            BY <1>8, <1>9, <2>2, <3>1
        <3>4. LET z == NormalizeMapping(m0, f)
              IN  /\ Keeps(m0, f, z, n)
                  /\ z.m.ok => \A x \in ToSet(z.fields) : ~x.raw
            BY <1>2, <1>9, <3>2, NormalizeMappingFacts
        <3>5. r.m.ok => AllReach(r)
            BY <1>2, <1>9, <3>2, <3>3, NormalizeMappingReaches
        <3> QED
            BY <2>2, <3>1, <3>3, <3>4, <3>5 DEF Normalizes
    <2> QED
        BY <1>10, <2>1, <2>2
<1>13. FuzzedTo(p, key, n, m, g, mode, m0, e0, set, k, r)
    BY <1>7, <1>r, <1>11, <1>12 DEF FuzzedTo
<1> QED
    BY <1>1, <1>2, <1>3, <1>13

\* Preset.fuzz on a symbol, a field or a variable.
LEMMA FuzzKeeps ==
    ASSUME PresetsInvariant, NEW p \in DOMAIN presets, NEW key \in Targets \cap Keys,
           NEW request \in Requests, Fuzz(p, key, request)
    PROVE  PresetsInvariant'
<1>1. PICK n, m, ps, ts, sp, ak :
          /\ Holds(n, m, ps, ts, sp, ak) /\ n = Len(defaults) /\ m = Machine
          /\ ps = presets /\ ts = tables /\ sp = spent /\ ak = asked
    BY Now
<1>2. p \in 1..Len(ps) /\ n \in Nat /\ m \in Machines(n) /\ m.ok = TRUE /\ TablesOK(ts, n)
    BY <1>1, PresetFacts DEF PresetsInvariant, Holds
<1>3. PICK g, old : /\ g = ps[p].fields /\ old = ak[p] /\ DictOK(m, g) /\ g \in Dicts
                    /\ old \in Modes /\ HasModes(m, g, old)
    BY <1>1, <1>2, PresetOf
<1>4. PICK mode : mode = AskedMode(request)
    OBVIOUS
<1>5. PICK m0, e0, set, k, r : FuzzedTo(p, key, n, m, g, mode, m0, e0, set, k, r)
    BY <1>1, <1>3, <1>4, FuzzFacts
<1>6. /\ Configured(n, m, g, key, mode, m0, e0, set)
      /\ Refuses(m0, set, k, r) \/ Normalizes(n, m0, key, set, k, r)
    BY <1>5 DEF FuzzedTo
<1>7. PICK a : /\ a = IF k.m.ok THEN AskedNow(old, set, key, mode)
                      ELSE AskedOnly(old, key, mode)
               /\ asked' = [ak EXCEPT ![p] = a]
    BY <1>1, <1>3, <1>5 DEF FuzzedTo
<1>8. /\ m0 \in Machines(n) /\ m0.ok = TRUE /\ Extends(m, m0) /\ DictOK(m0, set)
    BY <1>6 DEF Configured
<1>9. PICK w, f :
          /\ w \in Machines(n) /\ w.ok = TRUE /\ Same(r.m, w) /\ Extends(m, w) /\ f = r.fields /\ DictOK(w, f)
          /\ a \in Modes /\ HasModes(w, f, a)
    <2>1. CASE Refuses(m0, set, k, r)
        <3>1. Same(r.m, m0) /\ r.fields = set /\ a = AskedOnly(old, key, mode)
            BY <1>7, <2>1 DEF Refuses
        <3>2. a \in Modes
            BY <1>3, <1>6, <3>1 DEF AskedOnly, Modes, Configured
        <3>3. HasModes(m0, set, a)
            <4>1. HasModes(m0, g, old)
                BY <1>2, <1>3, <1>8, ModesStay
            <4>2. ASSUME NEW v \in Variables, a[v] # "none"
                  PROVE  HasMode(m0, set, v, a[v])
                <5>1. CASE v = key
                    <6>1. a[v] = mode
                        BY <3>1, <5>1 DEF AskedOnly
                    <6>2. e0 \in ToSet(set) /\ e0.key = key /\ ModeIn(m0, e0) = mode
                        BY <1>6 DEF Configured
                    <6> QED
                        BY <5>1, <6>1, <6>2 DEF HasMode
                <5>2. CASE v # key
                    <6>1. a[v] = old[v]
                        BY <3>1, <5>2 DEF AskedOnly
                    <6>2. HasMode(m0, g, v, a[v])
                        BY <4>1, <4>2, <6>1 DEF HasModes
                    <6>3. PICK e \in ToSet(g) : e.key = v /\ ModeIn(m0, e) = a[v]
                        BY <6>2 DEF HasMode
                    <6>4. e \in ToSet(set)
                        BY <1>6, <5>2, <6>3 DEF Configured
                    <6> QED
                        BY <6>3, <6>4 DEF HasMode
                <5> QED
                    BY <5>1, <5>2
            <4> QED
                BY <4>2 DEF HasModes
        <3> QED
            BY <1>8, <3>1, <3>2, <3>3
    <2>2. CASE Normalizes(n, m0, key, set, k, r)
        <3>1. k.m = m0 /\ KeysGiveWay(set, key, k.fields) /\ Keeps(m0, k.fields, r, n)
            BY <2>2 DEF Normalizes
        <3>2. a = AskedNow(old, set, key, mode)
            BY <1>7, <1>8, <3>1
        <3>3. a \in Modes /\ HasModes(m0, k.fields, a)
            BY <1>3, <1>6, <3>1, <3>2, ModesGiveWay
        <3>4. HasModes(r.m, r.fields, a)
            BY <3>1, <3>3, KeepsModes
        <3>5. r.m \in Machines(n) /\ Extends(m0, r.m) /\ DictOK(r.m, r.fields)
            BY <3>1 DEF Keeps
        <3>6. Extends(m, r.m)
            BY <1>2, <1>8, <3>5, ExtendsTransitive
        <3>7. PICK w \in Machines(n) : w.ok = TRUE /\ Same(r.m, w)
            BY <1>2, <3>5, Recovers
        <3>8. Extends(m, w) /\ DictOK(w, r.fields) /\ HasModes(w, r.fields, a)
            BY <3>4, <3>5, <3>6, <3>7, SameFacts
        <3> QED
            BY <3>3, <3>7, <3>8
    <2> QED
        BY <1>6, <2>1, <2>2
<1>10. PICK s : s = Respent(p, f)
    OBVIOUS
<1>11. /\ s \in [Variables -> Nat]
       /\ \A e \in ToSet(f) : ~e.raw => s[e.key] <= w.mutators[e.id].count
    BY <1>1, <1>2, <1>9, <1>10, RespentFacts DEF PresetsInvariant
<1>12. PICK qs, sq, bs : /\ qs = [ps EXCEPT ![p].fields = f] /\ sq = [sp EXCEPT ![p] = s]
                         /\ bs = [ak EXCEPT ![p] = a] /\ Holds(n, w, qs, ts, sq, bs)
    <2>1. Len(ts) <= Len(ts)
        BY <1>2 DEF TablesOK
    <2>2. Holds(n, w, [ps EXCEPT ![p].fields = f], ts, [sp EXCEPT ![p] = s],
                [ak EXCEPT ![p] = a])
        BY <1>1, <1>2, <1>9, <1>11, <2>1, OneSteps
    <2> QED
        BY <2>2
<1>13. presets' = qs /\ spent' = sq /\ asked' = bs
    BY <1>1, <1>5, <1>7, <1>9, <1>10, <1>12 DEF FuzzedTo
<1>14. /\ defaults' = w.defaults /\ confs' = w.confs /\ mutators' = w.mutators
       /\ tables' = ts /\ globalMax' = globalMax
    BY <1>1, <1>5, <1>9 DEF FuzzedTo, Same
<1>15. globalMax' \in Nat /\ calls' \in 0..MaxCalls
    BY <1>5, <1>14, Now, CallsStay DEF FuzzedTo
<1> QED
    BY <1>12, <1>13, <1>14, <1>15, Then

\* A call of fuzz that returns has left nothing raw, and has reached the
\* children of all that is fuzzed with its children.
LEMMA FuzzNormalizes ==
    ASSUME PresetsInvariant, NEW p \in DOMAIN presets, NEW key \in Targets \cap Keys,
           NEW request \in Requests, Fuzz(p, key, request)
    PROVE  NothingLeftRaw' /\ FuzzingReachesDescendants'
<1>1. PICK n, m, g, mode, m0, e0, set, k, r :
          FuzzedTo(p, key, n, m, g, mode, m0, e0, set, k, r)
    BY FuzzFacts
<1>2. /\ last'.preset = p /\ last'.ok = r.m.ok
      /\ presets' = [presets EXCEPT ![p].fields = r.fields] /\ mutators' = r.m.mutators
    BY <1>1 DEF FuzzedTo, Called
<1>3. presets'[p].fields = r.fields
    <2>1. presets \in Seq(PresetRecords) /\ p \in 1..Len(presets)
        BY PresetFacts DEF PresetsInvariant, Shape, PresetsOK
    <2>2. presets[p] \in PresetRecords
        BY <2>1, ElementOfSeq
    <2>3. presets[p] = [fields |-> presets[p].fields, table |-> presets[p].table]
        BY <2>2 DEF PresetRecords
    <2>4. [presets[p] EXCEPT !.fields = r.fields].fields = r.fields
        BY <2>3
    <2> QED
        BY <1>2, <2>1, <2>4
<1>4. ASSUME r.m.ok
      PROVE  AllReach(r) /\ \A x \in ToSet(r.fields) : x.key \in Variables /\ ~x.raw
    <2>1. Normalizes(n, m0, key, set, k, r)
        BY <1>1, <1>4 DEF FuzzedTo, Refuses
    <2>2. DictOK(r.m, r.fields) /\ KeysOf(r.fields) \subseteq Variables
        BY <2>1 DEF Normalizes, Keeps
    <2>3. AllReach(r) /\ \A x \in ToSet(r.fields) : ~x.raw
        BY <1>4, <2>1 DEF Normalizes
    <2> QED
        BY <2>2, <2>3, DictFacts DEF DictOK
<1>5. ASSUME FuzzSucceeded', NEW i \in DOMAIN r.fields
      PROVE  /\ r.fields[i].key \in Variables /\ ~r.fields[i].raw
             /\ MutatesChildren(mutators'[r.fields[i].id]) =>
                    ToSet(Children[r.fields[i].key]) \subseteq KeysOf(r.fields)
    <2>1. r.m.ok
        BY <1>2, <1>5 DEF FuzzSucceeded
    <2>2. r.fields[i] \in ToSet(r.fields)
        BY <1>5 DEF ToSet
    <2>3. Reaches(r.m, r.fields[i], KeysOf(r.fields))
        BY <1>4, <2>1, <2>2 DEF AllReach
    <2> QED
        BY <1>2, <1>4, <2>1, <2>2, <2>3 DEF Reaches, Mutates
<1>6. NothingLeftRaw'
    BY <1>2, <1>3, <1>5 DEF NothingLeftRaw
<1>7. FuzzingReachesDescendants'
    BY <1>2, <1>3, <1>5 DEF FuzzingReachesDescendants
<1> QED
    BY <1>6, <1>7

\* Whether it returns or raises, a call of fuzz keeps the mutators of the
\* variables that it is not about.
LEMMA FuzzKeepsTheRest ==
    ASSUME PresetsInvariant, NEW p \in DOMAIN presets, NEW key \in Targets \cap Keys,
           NEW request \in Requests, Fuzz(p, key, request),
           NEW e \in ToSet(presets[p].fields), ~e.raw, e.key \notin last'.named
    PROVE  /\ last'.preset = p /\ mutators'[e.id] = mutators[e.id]
           /\ e \in ToSet(presets'[p].fields)
<1>1. PICK n, m : n = Len(defaults) /\ m = Machine /\ m.mutators = mutators
    <2>1. Machine.mutators = mutators
        BY DEF Machine
    <2> QED
        BY <2>1
<1>2. PICK g, mode : g = presets[p].fields /\ mode = AskedMode(request)
    OBVIOUS
<1>3. PICK m0, e0, set, k, r : FuzzedTo(p, key, n, m, g, mode, m0, e0, set, k, r)
    BY <1>1, <1>2, FuzzFacts
<1>4. /\ last'.preset = p /\ last'.named = ToSet(Resolve(key)) \cup LeftBehind(set, key)
      /\ presets' = [presets EXCEPT ![p].fields = r.fields]
      /\ mutators' = r.m.mutators /\ Configured(n, m, g, key, mode, m0, e0, set)
      /\ Refuses(m0, set, k, r) \/ Normalizes(n, m0, key, set, k, r)
    BY <1>3 DEF FuzzedTo, Called
<1>5. presets'[p].fields = r.fields
    <2>1. presets \in Seq(PresetRecords) /\ p \in 1..Len(presets)
        BY PresetFacts DEF PresetsInvariant, Shape, PresetsOK
    <2>2. presets[p] \in PresetRecords
        BY <2>1, ElementOfSeq
    <2>3. presets[p] = [fields |-> presets[p].fields, table |-> presets[p].table]
        BY <2>2 DEF PresetRecords
    <2>4. [presets[p] EXCEPT !.fields = r.fields].fields = r.fields
        BY <2>3
    <2> QED
        BY <1>4, <2>1, <2>4
<1>6. EntryOK(m, e) /\ e \in ToSet(g) /\ n \in Nat /\ m \in Machines(n) /\ key \in Keys
    BY <1>2, <1>4 DEF Configured, DictOK
<1>7. e.key \in Variables /\ e.id \in 1..Len(m.mutators)
    BY <1>6 DEF EntryOK
<1>8. e.key # key /\ e.key \notin ToSet(Resolve(key)) /\ e.key \notin LeftBehind(set, key)
    <2>1. e.key \notin ToSet(Resolve(key)) /\ e.key \notin LeftBehind(set, key)
        BY <1>4
    <2>2. ASSUME e.key = key PROVE FALSE
        <3>1. key \in Variables
            BY <1>7, <2>2
        <3>2. ToSet(Resolve(key)) = {key}
            BY <1>6, <3>1, ResolveFacts
        <3> QED
            BY <2>1, <2>2, <3>2
    <2> QED
        BY <2>1, <2>2
<1>9. /\ m0 \in Machines(n) /\ Extends(m, m0) /\ m0.mutators = m.mutators
    BY <1>4 DEF Configured
<1>10. CASE Refuses(m0, set, k, r)
    <2>1. r.fields = set /\ r.m.mutators = m0.mutators
        BY <1>10 DEF Refuses, Same
    <2>2. e \in ToSet(set)
        BY <1>4, <1>6, <1>8 DEF Configured
    <2> QED
        BY <1>1, <1>4, <1>5, <1>9, <2>1, <2>2
<1>11. CASE Normalizes(n, m0, key, set, k, r)
    <2>1. KeysGiveWay(set, key, k.fields) /\ Keeps(m0, k.fields, r, n)
        BY <1>11 DEF Normalizes
    <2>2. e \in ToSet(k.fields)
        BY <1>4, <1>6, <1>7, <1>8, <2>1, StaysThere
    <2>3. e \in ToSet(r.fields) /\ Extends(m0, r.m)
        BY <2>1, <2>2 DEF Keeps
    <2>4. r.m.mutators[e.id] = m0.mutators[e.id]
        BY <1>7, <1>9, <2>3 DEF Extends
    <2> QED
        BY <1>1, <1>4, <1>5, <1>9, <2>3, <2>4
<1> QED
    BY <1>4, <1>10, <1>11

-----------------------------------------------------------------------------
(* copy. *)

\* A copy of a mutator has its mode, and counts from zero.
Copied(m, e, w, n) ==
    /\ w \in Machines(n) /\ Extends(m, w) /\ w.ok = m.ok /\ w.confs = m.confs
    /\ Len(w.mutators) = Len(m.mutators) + 1
    /\ w.mutators[Len(m.mutators) + 1].params["mode"] = m.mutators[e.id].params["mode"]

\* The copy of a mutator has its mode.
LEMMA CopyMutatorFacts ==
    ASSUME NEW n \in Nat, NEW m \in Machines(n), NEW e, EntryOK(m, e), ~e.raw,
           NEW epoch \in 1..n
    PROVE  Copied(m, e, CopyMutator(m, e, epoch), n)
<1> DEFINE w == CopyMutator(m, e, epoch)
<1>1. /\ m.defaults \in Seq([Types -> Settings]) /\ Len(m.defaults) = n
      /\ m.confs \in Seq(Complete) /\ m.mutators \in Seq(Mutators(n)) /\ m.ok \in BOOLEAN
      /\ Len(m.mutators) \in Nat
    BY MachineFacts
<1>2. PICK id \in 1..Len(m.mutators) : id = e.id
    BY DEF EntryOK
<1>3. PICK old \in Mutators(n) : old = m.mutators[id]
    BY <1>1, ElementOfSeq
<1>4. PICK given \in Complete, table \in [Types -> 1..n] :
          given = old.params /\ table = old.table
    BY DEF Mutators
<1>5. PICK params \in Complete :
          /\ params = [x \in DOMAIN given \ {"interval"} |-> given[x]]
          /\ params["mode"] = given["mode"]
    <2>1. PICK p, K : K = DOMAIN given \ {"interval"} /\ p = [x \in K |-> given[x]]
        OBVIOUS
    <2>2. K \in SUBSET Params /\ p \in [K -> ParamValues] /\ p["mode"] = given["mode"]
        <3>1. /\ DOMAIN given \in SUBSET Params /\ "mode" \in DOMAIN given
              /\ \A x \in DOMAIN given : given[x] \in ParamValues
            BY SettingsFacts, CompleteFacts
        <3> QED
            BY <2>1, <3>1
    <2>3. "counterMax" \in K => p["counterMax"] \in Nat
        BY <2>1, CompleteFacts
    <2>4. p \in Settings
        BY <2>2, <2>3, SettingsAre
    <2>5. {"mode", "generator", "counterMax"} \subseteq DOMAIN p
        BY <2>1, CompleteFacts
    <2>6. p \in Complete
        BY <2>4, <2>5 DEF Complete
    <2> QED
        BY <2>1, <2>2, <2>6
<1>6. PICK new \in Mutators(n) :
          /\ new = [params |-> params, table |-> [t \in Types |-> epoch],
                    count |-> 0, depth |-> 0]
          /\ new.params = params
    <2>1. PICK cur \in [Types -> 1..n] : cur = [t \in Types |-> epoch]
        OBVIOUS
    <2>2. params["counterMax"] \in Nat
        BY CompleteFacts
    <2>3. [params |-> params, table |-> cur, count |-> 0, depth |-> 0] \in Mutators(n)
        BY <2>2 DEF Mutators
    <2> QED
        BY <2>1, <2>3
<1>7. PICK poured \in [Types -> Settings] :
          poured = [t \in Types |-> Written(m.defaults[table[t]][t], m.defaults[epoch][t])]
    <2>1. ASSUME NEW t \in Types
          PROVE  Written(m.defaults[table[t]][t], m.defaults[epoch][t]) \in Settings
        <3>1. table[t] \in 1..Len(m.defaults) /\ epoch \in 1..Len(m.defaults)
            BY <1>1
        <3>2. m.defaults[table[t]] \in [Types -> Settings] /\ m.defaults[epoch] \in [Types -> Settings]
            BY <1>1, <3>1, ElementOfSeq
        <3>3. m.defaults[table[t]][t] \in Settings /\ m.defaults[epoch][t] \in Settings
            BY <3>2
        <3> QED
            BY <3>3, WrittenFacts
    <2> QED
        BY <2>1
<1>8. PICK row \in [Types -> Settings] :
          row = IF IsNode(e.key) THEN poured ELSE m.defaults[epoch]
    <2>1. epoch \in 1..Len(m.defaults)
        BY <1>1
    <2>2. m.defaults[epoch] \in [Types -> Settings]
        BY <1>1, <2>1, ElementOfSeq
    <2> QED
        BY <2>2
<1>9. PICK d \in Seq([Types -> Settings]) : d = [m.defaults EXCEPT ![epoch] = row] /\ Len(d) = n
    <2>1. epoch \in 1..Len(m.defaults) /\ m.defaults \in Seq([Types -> Settings])
        BY <1>1
    <2>2. /\ [m.defaults EXCEPT ![epoch] = row] \in Seq([Types -> Settings])
          /\ Len([m.defaults EXCEPT ![epoch] = row]) = Len(m.defaults)
        BY <2>1, ExceptSeq
    <2> QED
        BY <1>1, <2>2
<1>10. PICK all \in Seq(Mutators(n)) : all = Append(m.mutators, new)
    BY <1>1, AppendProperties
<1>11. /\ Len(all) = Len(m.mutators) + 1 /\ all[Len(m.mutators) + 1] = new
       /\ \A i \in 1..Len(m.mutators) : all[i] = m.mutators[i]
    BY <1>1, <1>10, AppendProperties
<1>12. w = [m EXCEPT !.mutators = Append(@, new), !.defaults[epoch] = row]
    <2>1. w = [m EXCEPT !.mutators = Append(@, new),
                        !.defaults[epoch] = IF IsNode(e.key) THEN poured ELSE @]
        BY <1>2, <1>3, <1>4, <1>5, <1>6, <1>7 DEF CopyMutator
    <2> HIDE DEF w
    <2> QED
        BY <1>8, <2>1
<1>13. w = [defaults |-> d, confs |-> m.confs, mutators |-> all, ok |-> m.ok]
    <2> HIDE DEF w
    <2>1. PICK d0, c0, x0, k0 :
              m = [defaults |-> d0, confs |-> c0, mutators |-> x0, ok |-> k0]
        BY MachineFacts
    <2>2. m.defaults = d0 /\ m.confs = c0 /\ m.mutators = x0 /\ m.ok = k0
        BY <2>1
    <2>3. w = [m EXCEPT !.mutators = all, !.defaults = d]
        BY <1>9, <1>10, <1>12
    <2>4. w = [defaults |-> d, confs |-> c0, mutators |-> all, ok |-> k0]
        BY <2>1, <2>3
    <2> QED
        BY <2>2, <2>4
<1> HIDE DEF w
<1>14. w \in Machines(n)
    <2>1. [defaults |-> d, confs |-> m.confs, mutators |-> all, ok |-> m.ok] \in Machines(n)
        BY <1>1, <1>9, MachineIs
    <2> QED
        BY <1>13, <2>1
<1>15. w.confs = m.confs /\ w.mutators = all /\ w.ok = m.ok
    BY <1>13
<1>16. Extends(m, w)
    <2>1. Len(m.confs) \in Nat
        BY MachineFacts
    <2> QED
        BY <1>1, <1>11, <1>15, <2>1 DEF Extends
<1>17. w.mutators[Len(m.mutators) + 1].params["mode"] = m.mutators[e.id].params["mode"]
    BY <1>2, <1>3, <1>4, <1>5, <1>6, <1>11, <1>15
<1> QED
    BY <1>11, <1>14, <1>15, <1>16, <1>17 DEF Copied, w

\* What copy has made: b is what it started from.
Copies(n, b) ==
    {acc \in [m : Machines(n), fields : Seq(Entries)] : Extends(b, acc.m) /\ acc.m.ok = b.ok}

\* What the loop of copy has made.
LEMMA CopiesFacts ==
    ASSUME NEW n \in Nat, NEW b, NEW acc \in Copies(n, b)
    PROVE  /\ acc.m \in Machines(n) /\ acc.fields \in Seq(Entries)
           /\ Extends(b, acc.m) /\ acc.m.ok = b.ok
BY DEF Copies

\* A heap with some entries is what the loop of copy makes.
LEMMA CopiesAre ==
    ASSUME NEW n \in Nat, NEW b, NEW w \in Machines(n), Extends(b, w), w.ok = b.ok,
           NEW g \in Seq(Entries)
    PROVE  /\ [m |-> w, fields |-> g] \in Copies(n, b)
           /\ [m |-> w, fields |-> g].m = w /\ [m |-> w, fields |-> g].fields = g
BY DEF Copies

\* The parts of an entry.
LEMMA EntryIs ==
    ASSUME NEW k \in Keys, NEW raw \in BOOLEAN, NEW id \in Nat
    PROVE  /\ Entry(k, raw, id) \in Entries /\ Entry(k, raw, id).key = k
           /\ Entry(k, raw, id).raw = raw /\ Entry(k, raw, id).id = id
BY DEF Entry, Entries

\* A turn adds the copy of an entry.
CopyAdded(acc, e, w, n, b) ==
    /\ w \in Copies(n, b) /\ Extends(acc.m, w.m)
    /\ \E x \in Entries : /\ w.fields = Append(acc.fields, x) /\ x.key = e.key
                          /\ EntryOK(w.m, x) /\ ModeIn(w.m, x) = ModeIn(b, e)

\* A turn of the loop of copy adds a copy, of the mode of its original.
LEMMA CopyEntryFacts ==
    ASSUME NEW n \in Nat, NEW b \in Machines(n), NEW acc \in Copies(n, b), NEW e,
           EntryOK(b, e), NEW epoch \in 1..n
    PROVE  CopyAdded(acc, e, CopyEntry(acc, e, epoch), n, b)
<1>1. PICK m \in Machines(n), f \in Seq(Entries) :
          /\ m = acc.m /\ f = acc.fields /\ Extends(b, m) /\ m.ok = b.ok
    BY CopiesFacts
<1>2. EntryOK(m, e) /\ ModeIn(m, e) = ModeIn(b, e) /\ e.key \in Keys
    BY <1>1, ExtendsEntry DEF EntryOK, Entries
<1>3. Len(m.confs) \in Nat /\ Len(m.mutators) \in Nat
    BY MachineFacts
<1>4. ASSUME NEW w \in Machines(n), Extends(m, w), w.ok = m.ok, NEW x \in Entries,
             x.key = e.key, EntryOK(w, x), ModeIn(w, x) = ModeIn(b, e),
             CopyEntry(acc, e, epoch) = [m |-> w, fields |-> Append(f, x)]
      PROVE  CopyAdded(acc, e, CopyEntry(acc, e, epoch), n, b)
    <2>1. PICK g \in Seq(Entries) : g = Append(f, x)
        BY <1>4, AppendProperties
    <2>2. Extends(b, w)
        BY <1>1, <1>4, ExtendsTransitive
    <2>3. PICK r \in Copies(n, b) : r = [m |-> w, fields |-> g] /\ r.m = w /\ r.fields = g
        <3>1. w.ok = b.ok
            BY <1>1, <1>4
        <3>2. /\ [m |-> w, fields |-> g] \in Copies(n, b)
              /\ [m |-> w, fields |-> g].m = w /\ [m |-> w, fields |-> g].fields = g
            BY <2>2, <3>1, CopiesAre
        <3> QED
            BY <3>2
    <2>5. CopyAdded(acc, e, r, n, b)
        BY <1>1, <1>4, <2>1, <2>3 DEF CopyAdded
    <2> QED
        BY <1>4, <2>1, <2>3, <2>5
<1>5. CASE e.raw
    <2>1. PICK c \in Complete : c = m.confs[e.id]
        <3>1. m.confs \in Seq(Complete) /\ e.id \in 1..Len(m.confs)
            BY <1>2, <1>5, MachineFacts DEF EntryOK
        <3> QED
            BY <3>1, ElementOfSeq
    <2>2. PICK cs \in Seq(Complete) : cs = Append(m.confs, c)
        BY MachineFacts, AppendProperties
    <2>3. /\ Len(cs) = Len(m.confs) + 1 /\ cs[Len(m.confs) + 1] = c
          /\ \A i \in 1..Len(m.confs) : cs[i] = m.confs[i]
        BY <2>2, MachineFacts, AppendProperties
    <2>4. PICK w : w = [m EXCEPT !.confs = Append(@, @[e.id])]
        OBVIOUS
    <2>5. w = [defaults |-> m.defaults, confs |-> cs, mutators |-> m.mutators, ok |-> m.ok]
        <3>1. PICK d0, c0, x0, k0 :
                  m = [defaults |-> d0, confs |-> c0, mutators |-> x0, ok |-> k0]
            BY MachineFacts
        <3>2. m.defaults = d0 /\ m.mutators = x0 /\ m.ok = k0
            BY <3>1
        <3>3. w = [m EXCEPT !.confs = cs]
            BY <2>1, <2>2, <2>4
        <3>4. w = [defaults |-> d0, confs |-> cs, mutators |-> x0, ok |-> k0]
            BY <3>1, <3>3
        <3> QED
            BY <3>2, <3>4
    <2>6. w \in Machines(n)
        <3>1. /\ m.defaults \in Seq([Types -> Settings]) /\ Len(m.defaults) = n
              /\ m.mutators \in Seq(Mutators(n)) /\ m.ok \in BOOLEAN
            BY MachineFacts
        <3>2. [defaults |-> m.defaults, confs |-> cs, mutators |-> m.mutators, ok |-> m.ok]
                  \in Machines(n)
            BY <3>1, MachineIs
        <3> QED
            BY <2>5, <3>2
    <2>7. w.confs = cs /\ w.mutators = m.mutators /\ w.ok = m.ok
        BY <2>5
    <2>8. Extends(m, w)
        BY <1>3, <2>3, <2>7 DEF Extends
    <2>9. PICK l \in Nat : l = Len(m.confs)
        BY <1>3
    <2>10. PICK x \in Entries : /\ x = Entry(e.key, TRUE, l + 1) /\ x.key = e.key
                                /\ x.raw = TRUE /\ x.id = l + 1
        <3>1. e.key \in Keys /\ l + 1 \in Nat /\ TRUE \in BOOLEAN /\ FALSE \in BOOLEAN
            BY <1>2, <2>9
        <3>2. /\ Entry(e.key, TRUE, l + 1) \in Entries
              /\ Entry(e.key, TRUE, l + 1).key = e.key
              /\ Entry(e.key, TRUE, l + 1).raw = TRUE
              /\ Entry(e.key, TRUE, l + 1).id = l + 1
            BY <3>1, EntryIs
        <3> QED
            BY <3>2
    <2>11. l + 1 \in 1..(l + 1)
        OBVIOUS
    <2>12. EntryOK(w, x)
        BY <2>3, <2>7, <2>9, <2>10, <2>11 DEF EntryOK
    <2>13. ModeIn(w, x) = ModeIn(b, e)
        BY <1>2, <1>5, <2>1, <2>3, <2>7, <2>9, <2>10 DEF ModeIn
    <2>14. CopyEntry(acc, e, epoch) = [m |-> w, fields |-> Append(f, x)]
        BY <1>1, <1>5, <2>4, <2>9, <2>10 DEF CopyEntry
    <2> QED
        BY <1>4, <2>6, <2>7, <2>8, <2>10, <2>12, <2>13, <2>14
<1>6. CASE ~e.raw
    <2>1. PICK w : w = CopyMutator(m, e, epoch) /\ Copied(m, e, w, n)
        BY <1>2, <1>6, CopyMutatorFacts
    <2>2. /\ w \in Machines(n) /\ Extends(m, w) /\ w.ok = m.ok
          /\ Len(w.mutators) = Len(m.mutators) + 1
          /\ w.mutators[Len(m.mutators) + 1].params["mode"] = m.mutators[e.id].params["mode"]
        BY <2>1 DEF Copied
    <2>9. PICK l \in Nat : l = Len(m.mutators)
        BY <1>3
    <2>10. PICK x \in Entries : /\ x = Entry(e.key, FALSE, l + 1) /\ x.key = e.key
                                /\ x.raw = FALSE /\ x.id = l + 1
        <3>1. e.key \in Keys /\ l + 1 \in Nat /\ TRUE \in BOOLEAN /\ FALSE \in BOOLEAN
            BY <1>2, <2>9
        <3>2. /\ Entry(e.key, FALSE, l + 1) \in Entries
              /\ Entry(e.key, FALSE, l + 1).key = e.key
              /\ Entry(e.key, FALSE, l + 1).raw = FALSE
              /\ Entry(e.key, FALSE, l + 1).id = l + 1
            BY <3>1, EntryIs DEF Entry
        <3> QED
            BY <3>2
    <2>11. l + 1 \in 1..(l + 1)
        OBVIOUS
    <2>a. e.key \in Variables
        BY <1>2, <1>6 DEF EntryOK
    <2>12. EntryOK(w, x)
        BY <2>2, <2>9, <2>10, <2>11, <2>a DEF EntryOK
    <2>13. ModeIn(w, x) = ModeIn(b, e)
        BY <1>2, <1>6, <2>2, <2>9, <2>10 DEF ModeIn
    <2>14. CopyEntry(acc, e, epoch) = [m |-> w, fields |-> Append(f, x)]
        BY <1>1, <1>6, <2>1, <2>9, <2>10 DEF CopyEntry
    <2> QED
        BY <1>4, <2>2, <2>10, <2>12, <2>13, <2>14
<1> QED
    BY <1>5, <1>6

\* The turns of CopyEntries.
CopyTurns(m, fields, epoch, n, u) ==
    /\ u \in [0..Len(fields) -> Copies(n, m)] /\ u[0] = [m |-> m, fields |-> <<>>]
    /\ \A i \in 1..Len(fields) : u[i] = CopyEntry(u[i - 1], fields[i], epoch)
    /\ CopyEntries(m, fields, epoch) = u[Len(fields)]

\* The recursive function of CopyEntries exists and takes its turns.
LEMMA CopyLoop ==
    ASSUME NEW n \in Nat, NEW m \in Machines(n), NEW fields, DictOK(m, fields), NEW epoch \in 1..n
    PROVE  \E u : CopyTurns(m, fields, epoch, n, u)
<1> DEFINE turn == [i \in 1..Len(fields) |-> [x \in Copies(n, m) |-> CopyEntry(x, fields[i], epoch)]]
           Right(u) == u = [i \in 0..Len(fields) |-> IF i = 0 THEN [m |-> m, fields |-> <<>>] ELSE CopyEntry(u[i - 1], fields[i], epoch)]
           Until == CHOOSE u : Right(u)
<1>0. fields \in Seq(Entries)
    BY DictFacts DEF DictOK
<1>1. turn \in Turns(Len(fields), Copies(n, m)) /\ [m |-> m, fields |-> <<>>] \in Copies(n, m)
    <2>0. [m |-> m, fields |-> <<>>] \in Copies(n, m)
        <3>1. Extends(m, m) /\ <<>> \in Seq(Entries)
            BY ExtendsReflexive
        <3> QED
            BY <3>1 DEF Copies
    <2>1. \A i \in 1..Len(fields), x \in Copies(n, m) : CopyEntry(x, fields[i], epoch) \in Copies(n, m)
        <3>1. ASSUME NEW i \in 1..Len(fields), NEW x \in Copies(n, m)
              PROVE  CopyEntry(x, fields[i], epoch) \in Copies(n, m)
            <4>1. fields[i] \in ToSet(fields)
                BY <1>0, KeysFacts
            <4>2. EntryOK(m, fields[i])
                BY <4>1 DEF DictOK
            <4>3. CopyAdded(x, fields[i], CopyEntry(x, fields[i], epoch), n, m)
                BY <4>2, CopyEntryFacts
            <4> QED
                BY <4>3 DEF CopyAdded
        <3> QED
            BY <3>1
    <2> QED
        BY <2>0, <2>1 DEF Turns
<1>2. \A i \in 1..Len(fields), x \in Copies(n, m) : turn[i][x] = CopyEntry(x, fields[i], epoch)
    OBVIOUS
<1> HIDE DEF turn
<1>3. PICK u : IsLoop(u, Len(fields), Copies(n, m), [m |-> m, fields |-> <<>>], turn)
    BY <1>0, <1>1, Places, LoopExists
<1>4. Right(u)
    <2>1. u \in [0..Len(fields) -> Copies(n, m)] /\ u[0] = [m |-> m, fields |-> <<>>]
        BY <1>3 DEF IsLoop
    <2>2. ASSUME NEW i \in 0..Len(fields), i # 0
          PROVE  u[i] = CopyEntry(u[i - 1], fields[i], epoch)
        <3>1. i \in 1..Len(fields) /\ u[i - 1] \in Copies(n, m)
            BY <1>0, <2>1, <2>2, Places
        <3> QED
            BY <1>2, <1>3, <3>1 DEF IsLoop
    <2> QED
        BY <2>1, <2>2
<1>5. Right(Until)
    <2> HIDE DEF Right
    <2> QED
        BY <1>4
<1>6. CopyEntries(m, fields, epoch) = Until[Len(fields)]
    BY DEF CopyEntries
<1> HIDE DEF Until
<1>7. /\ Until = [i \in 0..Len(fields) |-> Until[i]] /\ Until[0] = [m |-> m, fields |-> <<>>]
      /\ \A i \in 1..Len(fields) : Until[i] = CopyEntry(Until[i - 1], fields[i], epoch)
    BY <1>0, <1>5, Places
<1> HIDE DEF Right
<1>8. IsLoop(Until, Len(fields), Copies(n, m), [m |-> m, fields |-> <<>>], turn)
    <2>1. \A i \in 1..Len(fields) : Until[i - 1] \in Copies(n, m) => Until[i] = turn[i][Until[i - 1]]
        BY <1>2, <1>7
    <2> QED
        BY <1>0, <1>1, <1>7, <2>1, Places, LoopIs
<1> QED
    BY <1>6, <1>7, <1>8 DEF IsLoop, CopyTurns

\* The copies have the keys and the modes of the entries.
LEMMA CopyEntriesFacts ==
    ASSUME NEW n \in Nat, NEW m \in Machines(n), NEW fields, DictOK(m, fields), NEW epoch \in 1..n,
           NEW a, HasModes(m, fields, a)
    PROVE  LET r == CopyEntries(m, fields, epoch)
           IN  /\ r.m \in Machines(n) /\ Extends(m, r.m) /\ r.m.ok = m.ok
               /\ DictOK(r.m, r.fields) /\ HasModes(r.m, r.fields, a)
<1>1. fields \in Dicts /\ fields \in Seq(Entries) /\ Len(fields) \in Nat
    BY DictFacts, LenProperties DEF DictOK
<1>2. PICK u : CopyTurns(m, fields, epoch, n, u)
    BY CopyLoop
<1>3. PICK r : r = CopyEntries(m, fields, epoch) /\ r = u[Len(fields)]
    BY <1>2 DEF CopyTurns
<1> DEFINE Matches(acc, x, e) ==
              x.key = e.key /\ EntryOK(acc.m, x) /\ ModeIn(acc.m, x) = ModeIn(m, e)
           P == [i \in 0..Len(fields) |-> {acc \in Copies(n, m) :
                    /\ Len(acc.fields) = i
                    /\ \A j \in 1..i : Matches(acc, acc.fields[j], fields[j])}]
<1>4. u[0] \in P[0]
    <2>1. u[0] = [m |-> m, fields |-> <<>>] /\ u[0] \in Copies(n, m) /\ 0 \in 0..Len(fields)
        BY <1>1, <1>2 DEF CopyTurns
    <2>2. Len(u[0].fields) = 0 /\ 1..0 = {}
        BY <2>1
    <2> QED
        BY <2>1, <2>2
<1>5. ASSUME NEW i \in 1..Len(fields), u[i - 1] \in P[i - 1]
      PROVE  u[i] \in P[i]
    <2>1. PICK acc : acc = u[i - 1] /\ acc \in P[i - 1]
        BY <1>5
    <2>2. i - 1 \in 0..Len(fields) /\ i \in 0..Len(fields)
        BY <1>1
    <2>3. /\ acc \in Copies(n, m) /\ Len(acc.fields) = i - 1
          /\ \A j \in 1..(i - 1) : Matches(acc, acc.fields[j], fields[j])
        BY <2>1, <2>2
    <2>4. PICK e : e = fields[i] /\ EntryOK(m, e)
        BY <1>1, KeysFacts DEF DictOK
    <2>5. PICK w : w = u[i] /\ w = CopyEntry(acc, e, epoch) /\ CopyAdded(acc, e, w, n, m)
        BY <1>2, <2>1, <2>3, <2>4, CopyEntryFacts DEF CopyTurns
    <2>6. w \in Copies(n, m) /\ Extends(acc.m, w.m)
        BY <2>5 DEF CopyAdded
    <2>7. PICK x \in Entries : /\ w.fields = Append(acc.fields, x) /\ x.key = e.key
                               /\ EntryOK(w.m, x) /\ ModeIn(w.m, x) = ModeIn(m, e)
        BY <2>5 DEF CopyAdded
    <2>8. acc.fields \in Seq(Entries) /\ acc.m \in Machines(n) /\ w.m \in Machines(n)
        BY <2>3, <2>6, CopiesFacts
    <2>9. /\ Len(w.fields) = i /\ w.fields[i] = x
          /\ \A j \in 1..(i - 1) : w.fields[j] = acc.fields[j]
        <3>1. /\ Len(Append(acc.fields, x)) = Len(acc.fields) + 1
              /\ Append(acc.fields, x)[Len(acc.fields) + 1] = x
              /\ \A j \in 1..Len(acc.fields) : Append(acc.fields, x)[j] = acc.fields[j]
            BY <2>8, AppendProperties
        <3>2. (i - 1) + 1 = i
            OBVIOUS
        <3> QED
            BY <2>3, <2>7, <3>1, <3>2
    <2>10. ASSUME NEW j \in 1..i
           PROVE  Matches(w, w.fields[j], fields[j])
        <3>1. CASE j = i
            BY <2>4, <2>7, <2>9, <3>1
        <3>2. CASE j # i
            <4>1. j \in 1..(i - 1)
                BY <3>2
            <4>2. PICK y : y = acc.fields[j] /\ y = w.fields[j] /\ Matches(acc, y, fields[j])
                BY <2>3, <2>9, <4>1
            <4>3. EntryOK(w.m, y) /\ ModeIn(w.m, y) = ModeIn(acc.m, y)
                BY <2>6, <2>8, <4>2, ExtendsEntry
            <4> QED
                BY <4>2, <4>3
        <3> QED
            BY <3>1, <3>2
    <2> HIDE DEF Matches
    <2> QED
        BY <2>2, <2>5, <2>6, <2>9, <2>10
<1>6. r \in P[Len(fields)]
    <2> HIDE DEF P
    <2>1. \A i \in 0..Len(fields) : u[i] \in P[i]
        BY <1>1, <1>4, <1>5, TurnByTurn
    <2>2. Len(fields) \in 0..Len(fields)
        BY <1>1
    <2> QED
        BY <1>3, <2>1, <2>2
<1>7. /\ r \in Copies(n, m) /\ Len(r.fields) = Len(fields)
      /\ \A j \in 1..Len(fields) : Matches(r, r.fields[j], fields[j])
    BY <1>1, <1>6
<1>8. /\ r.m \in Machines(n) /\ Extends(m, r.m) /\ r.m.ok = m.ok /\ r.fields \in Seq(Entries)
    BY <1>7, CopiesFacts
<1>9. DictOK(r.m, r.fields)
    <2>1. r.fields \in Dicts
        BY <1>1, <1>7, <1>8 DEF Dicts, Distinct
    <2>2. ASSUME NEW x \in ToSet(r.fields) PROVE EntryOK(r.m, x)
        <3>1. PICK j \in 1..Len(r.fields) : x = r.fields[j]
            BY <1>8 DEF ToSet
        <3> QED
            BY <1>7, <3>1
    <2> QED
        BY <2>1, <2>2 DEF DictOK
<1>10. HasModes(r.m, r.fields, a)
    <2>1. ASSUME NEW v \in Variables, a[v] # "none"
          PROVE  HasMode(r.m, r.fields, v, a[v])
        <3>1. HasMode(m, fields, v, a[v])
            BY <2>1 DEF HasModes
        <3>2. PICK e \in ToSet(fields) : e.key = v /\ ModeIn(m, e) = a[v]
            BY <3>1 DEF HasMode
        <3>3. PICK j \in 1..Len(fields) : e = fields[j]
            BY <1>1 DEF ToSet
        <3>4. r.fields[j] \in ToSet(r.fields)
            BY <1>7, <1>8, <3>3, KeysFacts
        <3>5. r.fields[j].key = v /\ ModeIn(r.m, r.fields[j]) = a[v]
            BY <1>7, <3>2, <3>3
        <3> QED
            BY <3>4, <3>5 DEF HasMode
    <2> QED
        BY <2>1 DEF HasModes
<1> QED
    BY <1>3, <1>8, <1>9, <1>10

\* Preset.copy.
LEMMA CopyKeeps ==
    ASSUME PresetsInvariant, NEW p \in DOMAIN presets, Copy(p)
    PROVE  PresetsInvariant'
<1>1. PICK n, m, ps, ts, sp, ak :
          /\ Holds(n, m, ps, ts, sp, ak) /\ n = Len(defaults) /\ m = Machine
          /\ ps = presets /\ ts = tables /\ sp = spent /\ ak = asked
    BY Now
<1>2. /\ n \in Nat /\ m \in Machines(n) /\ m.ok = TRUE /\ TablesOK(ts, n) /\ PresetsOK(ps, ts, m)
      /\ SpentOK(ps, sp, m) /\ AskedOK(ps, ak, m) /\ n + 1 \in Nat /\ Len(ts) = n
    BY <1>1 DEF Holds, TablesOK
<1>3. p \in 1..Len(ps)
    BY <1>1, PresetFacts DEF PresetsInvariant
<1>4. PICK g, old, t : /\ g = ps[p].fields /\ old = ak[p] /\ DictOK(m, g) /\ g \in Dicts
                       /\ old \in Modes /\ HasModes(m, g, old)
                       /\ t = ps[p].table /\ t \in 1..Len(ts)
    BY <1>1, <1>3, PresetOf
<1>5. PICK m0 \in Machines(n + 1) :
          /\ m0 = [m EXCEPT !.defaults = Append(@, NewDefaults)] /\ Extends(m, m0)
          /\ m0.ok = TRUE
    <2>1. PICK w \in Machines(n + 1) :
              w = [m EXCEPT !.defaults = Append(@, NewDefaults)] /\ Extends(m, w)
        BY <1>2, NothingIsSettings, OneMoreEpoch
    <2>2. PICK d0, c0, x0 :
              m = [defaults |-> d0, confs |-> c0, mutators |-> x0, ok |-> TRUE]
        BY <1>2, MachineFacts
    <2>3. w.ok = TRUE
        BY <2>1, <2>2
    <2> QED
        BY <2>1, <2>3
<1>6. DictOK(m0, g) /\ HasModes(m0, g, old)
    <2>1. DictOK(m0, g)
        BY <1>2, <1>4, <1>5, ExtendsEntry DEF DictOK
    <2>2. HasModes(m0, g, old)
        BY <1>2, <1>4, <1>5, ModesStay
    <2> QED
        BY <2>1, <2>2
<1>7. PICK r \in {CopyEntries(m0, g, n + 1)} :
          /\ presets' = Append(ps, [fields |-> r.fields, table |-> t])
          /\ tables' = Append(ts, NewTable)
          /\ defaults' = r.m.defaults /\ confs' = r.m.confs /\ mutators' = r.m.mutators
          /\ globalMax' = DefaultMax /\ asked' = Append(ak, old)
          /\ spent' = Append(sp, [v \in Variables |-> 0])
          /\ Called("copy", Len(presets) + 1, {}, TRUE)
    <2>1. m0 = [Machine EXCEPT !.defaults = Append(@, NewDefaults)] /\ Len(tables) + 1 = n + 1
        BY <1>1, <1>2, <1>5
    <2> QED
        BY <1>1, <1>4, <2>1 DEF Copy
<1>8. PICK w, f : /\ w = r.m /\ f = r.fields /\ w \in Machines(n + 1) /\ Extends(m0, w)
                  /\ w.ok = TRUE /\ DictOK(w, f) /\ HasModes(w, f, old)
    <2>1. n + 1 \in 1..(n + 1)
        BY <1>2
    <2>2. LET z == CopyEntries(m0, g, n + 1)
          IN  /\ z.m \in Machines(n + 1) /\ Extends(m0, z.m) /\ z.m.ok = m0.ok
              /\ DictOK(z.m, z.fields) /\ HasModes(z.m, z.fields, old)
        BY <1>2, <1>6, <2>1, CopyEntriesFacts
    <2> QED
        BY <1>5, <2>2
<1>9. Extends(m, w)
    <2>1. m \in Machines(n) /\ m0 \in Machines(n + 1) /\ w \in Machines(n + 1)
        BY <1>2, <1>5, <1>8
    <2>2. /\ Len(m.confs) \in Nat /\ Len(m.mutators) \in Nat /\ Len(m0.confs) \in Nat
          /\ Len(m0.mutators) \in Nat /\ Len(w.confs) \in Nat /\ Len(w.mutators) \in Nat
        BY <1>2, <2>1, MachineFacts
    <2>3. /\ Len(m.confs) <= Len(m0.confs) /\ Len(m0.confs) <= Len(w.confs)
          /\ Len(m.mutators) <= Len(m0.mutators) /\ Len(m0.mutators) <= Len(w.mutators)
        BY <1>5, <1>8 DEF Extends
    <2>4. Len(m.confs) <= Len(w.confs) /\ Len(m.mutators) <= Len(w.mutators)
        BY <2>2, <2>3
    <2>5. ASSUME NEW i \in 1..Len(m.confs)
          PROVE  ConfMode(w.confs[i]) = ConfMode(m.confs[i])
        <3>1. i \in 1..Len(m0.confs)
            BY <2>2, <2>3
        <3> QED
            BY <1>5, <1>8, <3>1 DEF Extends
    <2>6. ASSUME NEW i \in 1..Len(m.mutators)
          PROVE  w.mutators[i] = m.mutators[i]
        <3>1. i \in 1..Len(m0.mutators)
            BY <2>2, <2>3
        <3> QED
            BY <1>5, <1>8, <3>1 DEF Extends
    <2> QED
        BY <2>4, <2>5, <2>6 DEF Extends
<1>10. PICK us : us = Append(ts, NewTable) /\ TablesOK(us, n + 1) /\ Len(us) = n + 1
    BY <1>1, <1>2, NewTableOK DEF TablesOK
<1>11. /\ t \in 1..Len(us) /\ t \in Nat
       /\ Len(us) \in Nat /\ Len(ts) \in Nat /\ Len(ts) <= Len(us)
    BY <1>2, <1>4, <1>10
<1>12. PICK s \in [Variables -> Nat] : s = [v \in Variables |-> 0]
    BY EmptyHistory
<1>13. PICK qs : qs = Append(ps, [fields |-> f, table |-> t]) /\ PresetsOK(qs, us, w)
    <2>1. PresetsOK(Append(ps, [fields |-> f, table |-> t]), us, w)
        BY <1>2, <1>8, <1>9, <1>11, OneMore
    <2> QED
        BY <2>1
<1>14. ASSUME NEW e \in ToSet(f), ~e.raw
       PROVE  s[e.key] <= w.mutators[e.id].count
    <2>1. EntryOK(w, e)
        BY <1>8 DEF DictOK
    <2>2. e.key \in Variables /\ e.id \in 1..Len(w.mutators)
        BY <1>14, <2>1 DEF EntryOK
    <2>3. w.mutators \in Seq(Mutators(n + 1))
        BY <1>2, <1>8, MachineFacts
    <2>4. w.mutators[e.id] \in Mutators(n + 1)
        BY <2>2, <2>3, ElementOfSeq
    <2>5. w.mutators[e.id].count \in Nat
        BY <2>4 DEF Mutators
    <2> QED
        BY <1>12, <2>2, <2>5
<1>15. PICK sq, bs : /\ sq = Append(sp, s) /\ bs = Append(ak, old)
                     /\ SpentOK(qs, sq, w) /\ AskedOK(qs, bs, w)
    <2>1. /\ SpentOK(Append(ps, [fields |-> f, table |-> t]), Append(sp, s), w)
          /\ AskedOK(Append(ps, [fields |-> f, table |-> t]), Append(ak, old), w)
        BY <1>2, <1>4, <1>8, <1>9, <1>11, <1>14, HistoryGrows
    <2> QED
        BY <1>13, <2>1
<1>16. Holds(n + 1, w, qs, us, sq, bs)
    BY <1>2, <1>8, <1>10, <1>13, <1>15 DEF Holds
<1>17. /\ defaults' = w.defaults /\ confs' = w.confs /\ mutators' = w.mutators
       /\ presets' = qs /\ tables' = us /\ spent' = sq /\ asked' = bs
    BY <1>7, <1>8, <1>10, <1>12, <1>13, <1>15
<1>18. globalMax' \in Nat /\ calls' \in 0..MaxCalls
    BY <1>7, Now, CallsStay, PresetsAssumption
<1> QED
    BY <1>16, <1>17, <1>18, Then

-----------------------------------------------------------------------------
(* Specializing a symbol. *)

\* The mutators have counted further, none over its maximum.
Counted(m, w, n) ==
    /\ w \in Machines(n) /\ w.defaults = m.defaults /\ w.confs = m.confs
    /\ Len(w.mutators) = Len(m.mutators)
    /\ \A i \in 1..Len(m.mutators) :
          /\ w.mutators[i].params = m.mutators[i].params
          /\ m.mutators[i].count <= w.mutators[i].count

\* A mutator has not counted over its maximum.
LEMMA MutatorOf ==
    ASSUME NEW n \in Nat, NEW m \in Machines(n), NEW i \in 1..Len(m.mutators)
    PROVE  /\ m.mutators[i] \in Mutators(n) /\ m.mutators[i].count \in Nat
           /\ m.mutators[i].params \in Complete
           /\ m.mutators[i].count <= m.mutators[i].params["counterMax"]
<1>1. m.mutators \in Seq(Mutators(n))
    BY MachineFacts
<1>2. m.mutators[i] \in Mutators(n)
    BY <1>1, ElementOfSeq
<1> QED
    BY <1>2 DEF Mutators

\* Counting on and on is counting.
LEMMA CountedTransitive ==
    ASSUME NEW n \in Nat, NEW a \in Machines(n), NEW b, Counted(a, b, n), NEW c, Counted(b, c, n)
    PROVE  Counted(a, c, n)
<1>1. b \in Machines(n) /\ c \in Machines(n)
    BY DEF Counted
<1>2. /\ c.defaults = a.defaults /\ c.confs = a.confs /\ Len(c.mutators) = Len(a.mutators)
      /\ Len(b.mutators) = Len(a.mutators)
    BY DEF Counted
<1>3. ASSUME NEW i \in 1..Len(a.mutators)
      PROVE  /\ c.mutators[i].params = a.mutators[i].params
             /\ a.mutators[i].count <= c.mutators[i].count
    <2>1. /\ b.mutators[i].params = a.mutators[i].params
          /\ a.mutators[i].count <= b.mutators[i].count
        BY DEF Counted
    <2>2. /\ c.mutators[i].params = b.mutators[i].params
          /\ b.mutators[i].count <= c.mutators[i].count
        BY <1>2 DEF Counted
    <2>3. a.mutators[i].count \in Nat /\ b.mutators[i].count \in Nat /\ c.mutators[i].count \in Nat
        BY <1>1, <1>2, MutatorOf
    <2> QED
        BY <2>1, <2>2, <2>3
<1> QED
    BY <1>1, <1>2, <1>3 DEF Counted

\* Not counting is counting.
LEMMA CountedReflexive ==
    ASSUME NEW n \in Nat, NEW m \in Machines(n)
    PROVE  Counted(m, m, n)
<1>1. \A i \in 1..Len(m.mutators) : m.mutators[i].count \in Nat
    BY MutatorOf
<1> QED
    BY <1>1 DEF Counted

\* One mutator counts and the others stay.
LEMMA OneCounts ==
    ASSUME NEW n \in Nat, NEW m \in Machines(n), NEW i \in 1..Len(m.mutators),
           NEW x \in Mutators(n), x.params = m.mutators[i].params,
           m.mutators[i].count <= x.count, NEW ok \in BOOLEAN, NEW w,
           w = [defaults |-> m.defaults, confs |-> m.confs,
                mutators |-> [m.mutators EXCEPT ![i] = x], ok |-> ok]
    PROVE  Counted(m, w, n)
<1>1. /\ m.defaults \in Seq([Types -> Settings]) /\ Len(m.defaults) = n
      /\ m.confs \in Seq(Complete) /\ m.mutators \in Seq(Mutators(n))
    BY MachineFacts
<1>2. PICK xs \in Seq(Mutators(n)) : xs = [m.mutators EXCEPT ![i] = x]
    <2>1. [m.mutators EXCEPT ![i] = x] \in Seq(Mutators(n))
        BY <1>1, ExceptSeq
    <2> QED
        BY <2>1
<1>3. /\ Len(xs) = Len(m.mutators)
      /\ \A j \in 1..Len(m.mutators) : xs[j] = IF j = i THEN x ELSE m.mutators[j]
    BY <1>1, <1>2, ExceptSeq
<1>4. w = [defaults |-> m.defaults, confs |-> m.confs, mutators |-> xs, ok |-> ok]
    BY <1>2
<1>5. [defaults |-> m.defaults, confs |-> m.confs, mutators |-> xs, ok |-> ok] \in Machines(n)
    BY <1>1, MachineIs
<1>6. w \in Machines(n) /\ w.defaults = m.defaults /\ w.confs = m.confs /\ w.mutators = xs
    BY <1>4, <1>5
<1>7. ASSUME NEW j \in 1..Len(m.mutators)
      PROVE  xs[j].params = m.mutators[j].params /\ m.mutators[j].count <= xs[j].count
    <2>1. m.mutators[j].count \in Nat
        BY MutatorOf
    <2> QED
        BY <1>3, <2>1
<1> QED
    BY <1>3, <1>6, <1>7 DEF Counted

\* A mutator that is asked for a value counts at most one more, and no mutator
\* counts over its maximum.
LEMMA GenerateFacts ==
    ASSUME NEW n \in Nat, NEW m \in Machines(n), NEW v, NEW e, EntryOK(m, e), NEW limit
    PROVE  Counted(m, Generate(m, v, e, limit), n)
<1> DEFINE w == Generate(m, v, e, limit)
<1>1. PICK d0 \in Seq([Types -> Settings]), c0 \in Seq(Complete), x0 \in Seq(Mutators(n)),
           k0 \in BOOLEAN :
          /\ m = [defaults |-> d0, confs |-> c0, mutators |-> x0, ok |-> k0]
          /\ Len(d0) = n
          /\ d0 = m.defaults /\ c0 = m.confs /\ x0 = m.mutators /\ k0 = m.ok
    BY MachineFacts
<1>2. CASE w = [m EXCEPT !.ok = FALSE]
    <2> HIDE DEF w
    <2>1. w = [defaults |-> d0, confs |-> c0, mutators |-> x0, ok |-> FALSE]
        BY <1>1, <1>2
    <2>2. FALSE \in BOOLEAN
        OBVIOUS
    <2>3. [defaults |-> d0, confs |-> c0, mutators |-> x0, ok |-> FALSE] \in Machines(n)
        BY <1>1, <2>2, MachineIs
    <2>4. w \in Machines(n) /\ w.defaults = d0 /\ w.confs = c0 /\ w.mutators = x0
        BY <2>1, <2>3
    <2>5. Counted(m, m, n)
        BY CountedReflexive
    <2>6. Counted(m, w, n)
        BY <1>1, <2>4, <2>5 DEF Counted
    <2> QED
        BY <2>6 DEF w
<1>3. CASE w # [m EXCEPT !.ok = FALSE]
    <2> DEFINE mutator == m.mutators[e.id]
               fixed == mutator.params["mode"] = "FIXED"
               counts == ~fixed /\ (mutator.params["mode"] = "GENERATE" \/ IsNode(v))
               exhausted == counts /\ (mutator.count >= mutator.params["counterMax"]
                                           \/ mutator.count >= limit)
               tooDeep == TypeOf[v] = "Alt" /\ mutator.depth + 1 >= MaxDepth
               broken == (mutator.params["generator"] = "xorshift") = fixed
                             /\ (fixed \/ TypeOf[v] # "Agg")
    <2>1. ~e.raw /\ ~exhausted
        BY <1>3 DEF Generate
    <2>2. w = [m EXCEPT !.ok = ~tooDeep /\ ~broken,
                        !.mutators[e.id].count = IF counts THEN @ + 1 ELSE @,
                        !.mutators[e.id].depth = IF TypeOf[v] = "Alt" THEN @ + 1 ELSE @]
        BY <2>1 DEF Generate
    <2>3. PICK ok \in BOOLEAN : ok = (~tooDeep /\ ~broken)
        OBVIOUS
    <2>4. PICK i \in 1..Len(x0) : i = e.id
        BY <1>1, <2>1 DEF EntryOK
    <2>5. PICK old \in Mutators(n) : old = x0[i] /\ old = mutator
        BY <1>1, <2>4, ElementOfSeq
    <2>6. /\ old.params \in Complete /\ old.params["counterMax"] \in Nat
          /\ old.count \in Nat /\ old.depth \in Nat /\ old.count <= old.params["counterMax"]
          /\ old.table \in [Types -> 1..n]
        BY CompleteFacts DEF Mutators
    <2>7. counts => old.count < old.params["counterMax"]
        <3>1. counts => ~(old.count >= old.params["counterMax"])
            BY <2>1, <2>5
        <3> QED
            BY <2>6, <3>1
    <2> HIDE DEF counts, exhausted, tooDeep, broken, fixed
    <2>8. PICK c, dep : /\ c = IF counts THEN old.count + 1 ELSE old.count
                        /\ dep = IF TypeOf[v] = "Alt" THEN old.depth + 1 ELSE old.depth
        OBVIOUS
    <2>9. /\ c \in Nat /\ dep \in Nat /\ old.count <= c /\ c <= old.params["counterMax"]
        <3>1. PICK most \in Nat, count \in Nat, deep \in Nat :
                  most = old.params["counterMax"] /\ count = old.count /\ deep = old.depth
            BY <2>6
        <3>2. c \in Nat /\ count <= c /\ c <= most
            <4>1. CASE counts
                <5>1. count < most /\ c = count + 1
                    BY <2>7, <2>8, <3>1, <4>1
                <5>2. \A a, b \in Nat : a < b => a + 1 \in Nat /\ a <= a + 1 /\ a + 1 <= b
                    OBVIOUS
                <5>3. count + 1 \in Nat /\ count <= count + 1 /\ count + 1 <= most
                    BY <3>1, <5>1, <5>2
                <5> QED
                    BY <5>1, <5>3
            <4>2. CASE ~counts
                <5>1. c = count /\ count <= most
                    BY <2>6, <2>8, <3>1, <4>2
                <5> QED
                    BY <3>1, <5>1
            <4> QED
                BY <4>1, <4>2
        <3>3. dep \in Nat
            BY <2>8, <3>1
        <3> QED
            BY <3>1, <3>2, <3>3
    <2>10. PICK x \in Mutators(n) :
               /\ x = [params |-> old.params, table |-> old.table, count |-> c, depth |-> dep]
               /\ x.params = old.params /\ x.count = c
        <3>1. [params |-> old.params, table |-> old.table, count |-> c, depth |-> dep]
                  \in Mutators(n)
            BY <2>6, <2>9 DEF Mutators
        <3> QED
            BY <3>1
    <2>11. PICK z : /\ z = [old EXCEPT !.count = IF counts THEN @ + 1 ELSE @]
                    /\ x = [z EXCEPT !.depth = IF TypeOf[v] = "Alt" THEN @ + 1 ELSE @]
        <3>1. PICK p1, t1, c1, d1 :
                  old = [params |-> p1, table |-> t1, count |-> c1, depth |-> d1]
            BY DEF Mutators
        <3>2. old.params = p1 /\ old.table = t1 /\ old.count = c1 /\ old.depth = d1
            BY <3>1
        <3>3. PICK z : z = [old EXCEPT !.count = IF counts THEN @ + 1 ELSE @]
            OBVIOUS
        <3>4. z = [old EXCEPT !.count = c]
            BY <2>8, <3>3
        <3>5. z = [params |-> p1, table |-> t1, count |-> c, depth |-> d1]
            BY <3>1, <3>4
        <3>6. z.depth = d1
            BY <3>5
        <3>7. [z EXCEPT !.depth = IF TypeOf[v] = "Alt" THEN @ + 1 ELSE @] = [z EXCEPT !.depth = dep]
            BY <2>8, <3>2, <3>6
        <3>8. [z EXCEPT !.depth = dep] =
                  [params |-> p1, table |-> t1, count |-> c, depth |-> dep]
            BY <3>5
        <3> QED
            BY <2>10, <3>2, <3>3, <3>7, <3>8
    <2>12. /\ w = [defaults |-> d0, confs |-> c0, mutators |-> w.mutators, ok |-> ok]
           /\ w.mutators = [x0 EXCEPT ![i] = x]
        <3> HIDE DEF w
        <3>1. w = [m EXCEPT !.ok = ok,
                            !.mutators[i].count = IF counts THEN @ + 1 ELSE @,
                            !.mutators[i].depth = IF TypeOf[v] = "Alt" THEN @ + 1 ELSE @]
            BY <2>2, <2>3, <2>4
        <3>2. PICK y : y = [x0 EXCEPT ![i].count = IF counts THEN @ + 1 ELSE @]
            OBVIOUS
        <3>m. m = [defaults |-> d0, confs |-> c0, mutators |-> x0, ok |-> k0]
            BY <1>1
        <3>3. y = [x0 EXCEPT ![i] = z]
            BY <2>5, <2>11, <3>2
        <3>4. y[i] = z
            BY <2>4, <3>3
        <3>5. [y EXCEPT ![i].depth = IF TypeOf[v] = "Alt" THEN @ + 1 ELSE @] = [y EXCEPT ![i] = x]
            BY <2>11, <3>4
        <3>6. [y EXCEPT ![i] = x] = [x0 EXCEPT ![i] = x]
            BY <3>3
        <3>7. w.mutators = [y EXCEPT ![i].depth = IF TypeOf[v] = "Alt" THEN @ + 1 ELSE @]
            BY <3>m, <3>1, <3>2
        <3>8. w = [defaults |-> d0, confs |-> c0, mutators |-> w.mutators, ok |-> ok]
            BY <3>m, <3>1, <3>2
        <3> QED
            BY <3>5, <3>6, <3>7, <3>8
    <2> HIDE DEF w
    <2>13. w = [defaults |-> d0, confs |-> c0, mutators |-> [x0 EXCEPT ![i] = x], ok |-> ok]
        BY <2>12
    <2>14. Counted(m, w, n)
        BY <1>1, <2>5, <2>9, <2>10, <2>13, OneCounts
    <2> QED
        BY <2>14 DEF w
<1> QED
    BY <1>2, <1>3

\* One turn of AskAll.
AskTurn(x, fields, v, limit) ==
    IF x.ok /\ v \in KeysOf(fields)
    THEN Generate(x, v, fields[IndexOf(fields, v)], limit) ELSE x

Counts(n, m) == {x \in Machines(n) : Counted(m, x, n)}

\* A turn over the visited variables only counts.
LEMMA AskTurnFacts ==
    ASSUME NEW n \in Nat, NEW m \in Machines(n), NEW fields, DictOK(m, fields), NEW limit,
           NEW x \in Counts(n, m), NEW v
    PROVE  AskTurn(x, fields, v, limit) \in Counts(n, m)
<1>1. x \in Machines(n) /\ Counted(m, x, n)
    BY DEF Counts
<1>2. CASE x.ok /\ v \in KeysOf(fields)
    <2>1. PICK e : e = fields[IndexOf(fields, v)] /\ e \in ToSet(fields)
        BY <1>2, DictFacts, KeysFacts DEF DictOK, At
    <2>2. EntryOK(m, e)
        BY <2>1 DEF DictOK
    <2>3. EntryOK(x, e)
        BY <1>1, <2>2 DEF Counted, EntryOK
    <2>4. PICK w : w = AskTurn(x, fields, v, limit) /\ w = Generate(x, v, e, limit)
        BY <1>2, <2>1 DEF AskTurn
    <2>5. Counted(x, w, n)
        BY <1>1, <2>3, <2>4, GenerateFacts
    <2>6. Counted(m, w, n) /\ w \in Machines(n)
        <3>1. Counted(m, w, n)
            BY <1>1, <2>5, CountedTransitive
        <3> QED
            BY <3>1 DEF Counted
    <2> QED
        BY <2>4, <2>6 DEF Counts
<1>3. CASE ~(x.ok /\ v \in KeysOf(fields))
    BY <1>3 DEF AskTurn
<1> QED
    BY <1>2, <1>3

\* The turns of AskAll.
AskTurns(m, fields, visited, limit, n, u) ==
    /\ u \in [0..Len(visited) -> Counts(n, m)] /\ u[0] = m
    /\ \A i \in 1..Len(visited) : u[i] = AskTurn(u[i - 1], fields, visited[i], limit)
    /\ AskAll(m, fields, visited, limit) = u[Len(visited)]

\* The recursive function of AskAll exists and takes its turns.
LEMMA AskLoop ==
    ASSUME NEW n \in Nat, NEW m \in Machines(n), NEW fields, DictOK(m, fields), NEW limit, NEW visited \in Seq(Variables)
    PROVE  \E u : AskTurns(m, fields, visited, limit, n, u)
<1> DEFINE turn == [i \in 1..Len(visited) |-> [x \in Counts(n, m) |-> AskTurn(x, fields, visited[i], limit)]]
           Right(u) == u = [i \in 0..Len(visited) |-> IF i = 0 THEN m ELSE AskTurn(u[i - 1], fields, visited[i], limit)]
           Until == CHOOSE u : Right(u)
<1>0. visited \in Seq(Variables)
    OBVIOUS
<1>1. turn \in Turns(Len(visited), Counts(n, m)) /\ m \in Counts(n, m)
    <2>0. m \in Counts(n, m)
        BY CountedReflexive DEF Counts
    <2>1. \A i \in 1..Len(visited), x \in Counts(n, m) : AskTurn(x, fields, visited[i], limit) \in Counts(n, m)
        <3>1. ASSUME NEW i \in 1..Len(visited), NEW x \in Counts(n, m)
              PROVE  AskTurn(x, fields, visited[i], limit) \in Counts(n, m)
            BY <3>1, AskTurnFacts
        <3> QED
            BY <3>1
    <2> QED
        BY <2>0, <2>1 DEF Turns
<1>2. \A i \in 1..Len(visited), x \in Counts(n, m) : turn[i][x] = AskTurn(x, fields, visited[i], limit)
    OBVIOUS
<1> HIDE DEF turn
<1>3. PICK u : IsLoop(u, Len(visited), Counts(n, m), m, turn)
    BY <1>0, <1>1, Places, LoopExists
<1>4. Right(u)
    <2>1. u \in [0..Len(visited) -> Counts(n, m)] /\ u[0] = m
        BY <1>3 DEF IsLoop
    <2>2. ASSUME NEW i \in 0..Len(visited), i # 0
          PROVE  u[i] = AskTurn(u[i - 1], fields, visited[i], limit)
        <3>1. i \in 1..Len(visited) /\ u[i - 1] \in Counts(n, m)
            BY <1>0, <2>1, <2>2, Places
        <3> QED
            BY <1>2, <1>3, <3>1 DEF IsLoop
    <2> QED
        BY <2>1, <2>2
<1>5. Right(Until)
    <2> HIDE DEF Right
    <2> QED
        BY <1>4
<1>6. AskAll(m, fields, visited, limit) = Until[Len(visited)]
    BY DEF AskAll, AskTurn
<1> HIDE DEF Until
<1>7. /\ Until = [i \in 0..Len(visited) |-> Until[i]] /\ Until[0] = m
      /\ \A i \in 1..Len(visited) : Until[i] = AskTurn(Until[i - 1], fields, visited[i], limit)
    BY <1>0, <1>5, Places
<1> HIDE DEF Right
<1>8. IsLoop(Until, Len(visited), Counts(n, m), m, turn)
    <2>1. \A i \in 1..Len(visited) : Until[i - 1] \in Counts(n, m) => Until[i] = turn[i][Until[i - 1]]
        BY <1>2, <1>7
    <2> QED
        BY <1>0, <1>1, <1>7, <2>1, Places, LoopIs
<1> QED
    BY <1>6, <1>7, <1>8 DEF IsLoop, AskTurns

\* Specializing only counts.
LEMMA AskAllFacts ==
    ASSUME NEW n \in Nat, NEW m \in Machines(n), NEW fields, DictOK(m, fields), NEW limit,
           NEW visited \in Seq(Variables)
    PROVE  Counted(m, AskAll(m, fields, visited, limit), n)
<1>1. PICK u : AskTurns(m, fields, visited, limit, n, u)
    BY AskLoop
<1>2. Len(visited) \in 0..Len(visited)
    BY Places
<1>3. u[Len(visited)] \in Counts(n, m) /\ AskAll(m, fields, visited, limit) = u[Len(visited)]
    BY <1>1, <1>2 DEF AskTurns
<1> QED
    BY <1>3 DEF Counts

\* The entries of several presets.
\* The turns of Layered.
LayerTurns(layers, u) ==
    /\ u \in [0..Len(layers) -> Dicts] /\ u[0] = <<>>
    /\ \A i \in 1..Len(layers) : u[i] = PutAll(u[i - 1], presets[layers[i]].fields)
    /\ Layered(layers) = u[Len(layers)]

\* The recursive function of Layered exists and takes its turns.
LEMMA LayeredLoop ==
    ASSUME Shape, NEW layers \in Seq(DOMAIN presets)
    PROVE  \E u : LayerTurns(layers, u)
<1> DEFINE turn == [i \in 1..Len(layers) |-> [x \in Dicts |-> PutAll(x, presets[layers[i]].fields)]]
           Right(u) == u = [i \in 0..Len(layers) |-> IF i = 0 THEN <<>> ELSE PutAll(u[i - 1], presets[layers[i]].fields)]
           Until == CHOOSE u : Right(u)
<1>0. layers \in Seq(DOMAIN presets)
    OBVIOUS
<1>1. turn \in Turns(Len(layers), Dicts) /\ <<>> \in Dicts
    <2>0. <<>> \in Dicts
        BY EmptyDict
    <2>1. \A i \in 1..Len(layers), x \in Dicts : PutAll(x, presets[layers[i]].fields) \in Dicts
        <3>1. ASSUME NEW i \in 1..Len(layers), NEW x \in Dicts
              PROVE  PutAll(x, presets[layers[i]].fields) \in Dicts
            <4>1. layers[i] \in DOMAIN presets
                BY ElementOfSeq
            <4>2. presets[layers[i]].fields \in Dicts
                BY <4>1, PresetFacts
            <4>3. presets[layers[i]].fields \in Seq(Entries)
                BY <4>2, DictFacts
            <4> QED
                BY <4>3, PutAllFacts
        <3> QED
            BY <3>1
    <2> QED
        BY <2>0, <2>1 DEF Turns
<1>2. \A i \in 1..Len(layers), x \in Dicts : turn[i][x] = PutAll(x, presets[layers[i]].fields)
    OBVIOUS
<1> HIDE DEF turn
<1>3. PICK u : IsLoop(u, Len(layers), Dicts, <<>>, turn)
    BY <1>0, <1>1, Places, LoopExists
<1>4. Right(u)
    <2>1. u \in [0..Len(layers) -> Dicts] /\ u[0] = <<>>
        BY <1>3 DEF IsLoop
    <2>2. ASSUME NEW i \in 0..Len(layers), i # 0
          PROVE  u[i] = PutAll(u[i - 1], presets[layers[i]].fields)
        <3>1. i \in 1..Len(layers) /\ u[i - 1] \in Dicts
            BY <1>0, <2>1, <2>2, Places
        <3> QED
            BY <1>2, <1>3, <3>1 DEF IsLoop
    <2> QED
        BY <2>1, <2>2
<1>5. Right(Until)
    <2> HIDE DEF Right
    <2> QED
        BY <1>4
<1>6. Layered(layers) = Until[Len(layers)]
    BY DEF Layered
<1> HIDE DEF Until
<1>7. /\ Until = [i \in 0..Len(layers) |-> Until[i]] /\ Until[0] = <<>>
      /\ \A i \in 1..Len(layers) : Until[i] = PutAll(Until[i - 1], presets[layers[i]].fields)
    BY <1>0, <1>5, Places
<1> HIDE DEF Right
<1>8. IsLoop(Until, Len(layers), Dicts, <<>>, turn)
    <2>1. \A i \in 1..Len(layers) : Until[i - 1] \in Dicts => Until[i] = turn[i][Until[i - 1]]
        BY <1>2, <1>7
    <2> QED
        BY <1>0, <1>1, <1>7, <2>1, Places, LoopIs
<1> QED
    BY <1>6, <1>7, <1>8 DEF IsLoop, LayerTurns

\* The entry of a variable is the one of the last preset that has one.
LEMMA LayeredFacts ==
    ASSUME Shape, NEW layers \in Seq(DOMAIN presets)
    PROVE  /\ DictOK(Machine, Layered(layers))
           /\ \A p \in DOMAIN presets, v \in Variables :
                 IsFrom(p, v, layers) => At(Layered(layers), v) = At(presets[p].fields, v)
                                         /\ At(presets[p].fields, v) \in ToSet(presets[p].fields)
<1>1. PICK u : LayerTurns(layers, u)
    BY LayeredLoop
<1>2. PICK m : m = Machine
    OBVIOUS
<1>3. Len(layers) \in Nat /\ \A i \in 1..Len(layers) : layers[i] \in DOMAIN presets
    BY LenProperties, ElementOfSeq
<1> DEFINE Of(i) == presets[layers[i]].fields
<1>4. \A i \in 1..Len(layers) : Of(i) \in Dicts /\ DictOK(m, Of(i)) /\ Of(i) \in Seq(Entries)
    BY <1>2, <1>3, PresetFacts, DictFacts
<1> DEFINE Counts1(i, j, v) ==
              v \in KeysOf(Of(j)) /\ \A k \in (j + 1)..i : v \notin KeysOf(Of(k))
           P == [i \in 0..Len(layers) |-> {x \in Dicts :
                    /\ DictOK(m, x)
                    /\ \A j \in 1..i, v \in Variables :
                          Counts1(i, j, v) => At(Of(j), v) \in ToSet(x)}]
<1> HIDE DEF Of
<1>5. u[0] \in P[0]
    <2>1. u[0] = <<>> /\ 0 \in 0..Len(layers)
        BY <1>1, <1>3 DEF LayerTurns
    <2>2. DictOK(m, <<>>) /\ <<>> \in Dicts /\ 1..0 = {}
        BY EmptyHistory, EmptyDict
    <2> QED
        BY <2>1, <2>2
<1>6. ASSUME NEW i \in 1..Len(layers), u[i - 1] \in P[i - 1]
      PROVE  u[i] \in P[i]
    <2>1. i - 1 \in 0..Len(layers) /\ i \in 0..Len(layers) /\ i \in Nat
        BY <1>3
    <2>2. PICK x : /\ x = u[i - 1] /\ x \in Dicts /\ DictOK(m, x)
                   /\ \A j \in 1..(i - 1), v \in Variables :
                         Counts1(i - 1, j, v) => At(Of(j), v) \in ToSet(x)
        BY <1>6, <2>1
    <2>3. PICK g : g = Of(i) /\ g \in Dicts /\ DictOK(m, g) /\ g \in Seq(Entries)
        BY <1>4
    <2>4. PICK w : w = u[i] /\ w = PutAll(x, g)
        BY <1>1, <2>2, <2>3 DEF LayerTurns, Of
    <2>5. /\ w \in Dicts
          /\ \A y \in ToSet(x) : y.key \notin KeysOf(g) => y \in ToSet(w)
          /\ \A y \in ToSet(w) : y \in ToSet(g) \/ y \in ToSet(x)
          /\ \A y \in ToSet(g) : y \in ToSet(w)
        BY <2>2, <2>3, <2>4, PutAllFacts
    <2>6. DictOK(m, w)
        BY <2>2, <2>3, <2>5 DEF DictOK
    <2>7. ASSUME NEW j \in 1..i, NEW v \in Variables, Counts1(i, j, v)
          PROVE  At(Of(j), v) \in ToSet(w)
        <3>1. CASE j = i
            BY <2>3, <2>5, <2>7, <3>1, KeysFacts
        <3>2. CASE j # i
            <4>1. j \in 1..(i - 1) /\ i \in (j + 1)..i /\ (j + 1)..(i - 1) \subseteq (j + 1)..i
                BY <2>1, <3>2
            <4>2. Counts1(i - 1, j, v) /\ v \notin KeysOf(g)
                BY <2>3, <2>7, <4>1
            <4>3. At(Of(j), v) \in ToSet(x)
                BY <2>2, <4>1, <4>2
            <4>4. At(Of(j), v).key = v
                BY <1>4, <2>7, KeysFacts
            <4> QED
                BY <2>5, <4>2, <4>3, <4>4
        <3> QED
            BY <3>1, <3>2
    <2> HIDE DEF Counts1
    <2> QED
        BY <2>1, <2>4, <2>5, <2>6, <2>7
<1>7. PICK all : all = Layered(layers) /\ all \in P[Len(layers)]
    <2> HIDE DEF P
    <2>1. \A i \in 0..Len(layers) : u[i] \in P[i]
        BY <1>3, <1>5, <1>6, TurnByTurn
    <2>2. Len(layers) \in 0..Len(layers)
        BY <1>3
    <2> QED
        BY <1>1, <2>1, <2>2 DEF LayerTurns
<1>8. /\ all \in Dicts /\ DictOK(m, all)
      /\ \A j \in 1..Len(layers), v \in Variables :
            Counts1(Len(layers), j, v) => At(Of(j), v) \in ToSet(all)
    BY <1>3, <1>7
<1>9. ASSUME NEW p \in DOMAIN presets, NEW v \in Variables, IsFrom(p, v, layers)
      PROVE  /\ At(all, v) = At(presets[p].fields, v)
             /\ At(presets[p].fields, v) \in ToSet(presets[p].fields)
    <2>1. PICK i \in 1..Len(layers) :
              /\ layers[i] = p /\ v \in KeysOf(presets[p].fields)
              /\ \A j \in (i + 1)..Len(layers) : v \notin KeysOf(presets[layers[j]].fields)
        BY <1>3, <1>9 DEF IsFrom
    <2>2. Of(i) = presets[p].fields /\ Counts1(Len(layers), i, v)
        BY <2>1 DEF Of
    <2>3. At(Of(i), v) \in ToSet(all)
        BY <1>8, <2>2
    <2>4. At(Of(i), v) \in ToSet(Of(i)) /\ At(Of(i), v).key = v
        BY <1>4, <2>1, <2>2, KeysFacts
    <2>5. At(all, v) = At(Of(i), v)
        BY <1>8, <2>3, <2>4, DictFacts
    <2> QED
        BY <2>2, <2>4, <2>5
<1> QED
    BY <1>2, <1>7, <1>8, <1>9

\* What a message generates is counted by the mutators and in spent alike.
LEMMA SpecializeFacts ==
    ASSUME PresetsInvariant, NEW op, NEW layers \in Seq(DOMAIN presets), NEW picked \in Picks,
           NEW limit, Specialize(op, layers, picked, limit)
    PROVE  \E w, sq : /\ Holds(Len(defaults), w, presets, tables, sq, asked)
                      /\ w.defaults = defaults /\ w.confs = confs
                      /\ mutators' = w.mutators /\ spent' = sq
                      /\ calls' \in 0..MaxCalls
<1>1. PICK n, m, ps, ts, sp, ak :
          /\ Holds(n, m, ps, ts, sp, ak) /\ n = Len(defaults) /\ m = Machine
          /\ ps = presets /\ ts = tables /\ sp = spent /\ ak = asked
    BY Now
<1>2. /\ n \in Nat /\ m \in Machines(n) /\ m.ok = TRUE /\ TablesOK(ts, n) /\ PresetsOK(ps, ts, m)
      /\ SpentOK(ps, sp, m) /\ AskedOK(ps, ak, m)
    BY <1>1 DEF Holds
<1>3. PICK fields \in {Layered(layers)} :
          \E r \in {AskAll(Machine, fields, Visited(FixedKeys(fields), picked), limit)} :
            /\ mutators' = r.mutators
            /\ spent' = [p \in DOMAIN spent |-> [v \in Variables |->
                    spent[p][v] + (IF IsFrom(p, v, layers)
                        THEN IF fields[IndexOf(fields, v)].raw THEN 0
                             ELSE r.mutators[fields[IndexOf(fields, v)].id].count
                                    - mutators[fields[IndexOf(fields, v)].id].count
                        ELSE 0)]]
            /\ Called(op, Last(layers), {}, r.ok)
    BY DEF Specialize
<1>4. PICK r \in {AskAll(Machine, fields, Visited(FixedKeys(fields), picked), limit)} :
            /\ mutators' = r.mutators
            /\ spent' = [p \in DOMAIN spent |-> [v \in Variables |->
                    spent[p][v] + (IF IsFrom(p, v, layers)
                        THEN IF fields[IndexOf(fields, v)].raw THEN 0
                             ELSE r.mutators[fields[IndexOf(fields, v)].id].count
                                    - mutators[fields[IndexOf(fields, v)].id].count
                        ELSE 0)]]
            /\ Called(op, Last(layers), {}, r.ok)
    BY <1>3
<1>5. PICK visited \in Seq(Variables) : visited = Visited(FixedKeys(fields), picked)
    BY VisitedTyped
<1>6. /\ DictOK(m, fields)
      /\ \A p \in 1..Len(ps), v \in Variables :
            IsFrom(p, v, layers) => /\ At(fields, v) = At(ps[p].fields, v)
                                    /\ At(ps[p].fields, v) \in ToSet(ps[p].fields)
    <2>1. DOMAIN presets = 1..Len(ps)
        BY <1>1, <1>2, LenProperties DEF PresetsOK
    <2> QED
        BY <1>1, <2>1, LayeredFacts DEF PresetsInvariant
<1>7. r = AskAll(m, fields, visited, limit)
    BY <1>1, <1>4, <1>5
<1>8. Counted(m, r, n)
    BY <1>2, <1>6, <1>7, AskAllFacts
<1>9. PICK w \in Machines(n) : w.ok = TRUE /\ Same(r, w)
    BY <1>2, <1>8, Recovers DEF Counted
<1>10. Counted(m, w, n)
    BY <1>8, <1>9 DEF Counted, Same
<1>11. /\ w.defaults = m.defaults /\ w.confs = m.confs
       /\ Len(w.mutators) = Len(m.mutators)
       /\ \A i \in 1..Len(m.mutators) :
             /\ w.mutators[i].params = m.mutators[i].params
             /\ m.mutators[i].count <= w.mutators[i].count
             /\ m.mutators[i].count \in Nat /\ w.mutators[i].count \in Nat
    <2>1. /\ w.defaults = m.defaults /\ w.confs = m.confs
          /\ Len(w.mutators) = Len(m.mutators)
          /\ \A i \in 1..Len(m.mutators) :
                /\ w.mutators[i].params = m.mutators[i].params
                /\ m.mutators[i].count <= w.mutators[i].count
        BY <1>10 DEF Counted
    <2>2. \A i \in 1..Len(m.mutators) : m.mutators[i].count \in Nat /\ w.mutators[i].count \in Nat
        BY <1>2, <2>1, MutatorOf
    <2> QED
        BY <2>1, <2>2
<1>12. m.defaults = defaults /\ m.confs = confs /\ m.mutators = mutators
    BY <1>1 DEF Machine
<1> DEFINE Made1(p, v) ==
              IF IsFrom(p, v, layers)
              THEN IF At(fields, v).raw THEN 0
                   ELSE w.mutators[At(fields, v).id].count - m.mutators[At(fields, v).id].count
              ELSE 0
           sq == [p \in 1..Len(ps) |-> [v \in Variables |-> sp[p][v] + Made1(p, v)]]
<1>13. sp \in Seq([Variables -> Nat]) /\ Len(sp) = Len(ps) /\ DOMAIN sp = 1..Len(ps)
    BY <1>2, LenProperties DEF SpentOK
<1>14. spent' = sq
    BY <1>1, <1>4, <1>9, <1>12, <1>13 DEF At, Same
<1>15. ASSUME NEW p \in 1..Len(ps), NEW v \in Variables
       PROVE  /\ Made1(p, v) \in Nat /\ sp[p][v] \in Nat
              /\ \A e \in ToSet(ps[p].fields) :
                    ~e.raw /\ e.key = v => sp[p][v] + Made1(p, v) <= w.mutators[e.id].count
    <2>1. DictOK(m, ps[p].fields) /\ sp[p] \in [Variables -> Nat]
        BY <1>1, PresetOf
    <2>2. PICK s \in Nat : s = sp[p][v]
        BY <2>1
    <2>3. ASSUME NEW e \in ToSet(ps[p].fields), ~e.raw
          PROVE  /\ e.id \in 1..Len(m.mutators)
                 /\ e.key = v => s <= m.mutators[e.id].count
        BY <1>2, <2>1, <2>2, <2>3 DEF DictOK, EntryOK, SpentOK
    <2>4. CASE ~IsFrom(p, v, layers)
        <3>1. Made1(p, v) = 0
            BY <2>4
        <3>2. ASSUME NEW e \in ToSet(ps[p].fields), ~e.raw, e.key = v
              PROVE  s <= w.mutators[e.id].count
            <4>1. e.id \in 1..Len(m.mutators) /\ s <= m.mutators[e.id].count
                BY <2>3, <3>2
            <4>2. PICK a \in Nat, b \in Nat :
                      a = m.mutators[e.id].count /\ b = w.mutators[e.id].count /\ a <= b
                BY <1>11, <4>1
            <4> HIDE DEF Made1
            <4>3. s <= a
                BY <4>1, <4>2
            <4>4. s <= b
                BY <4>2, <4>3
            <4> QED
                BY <4>2, <4>4
        <3>3. Made1(p, v) \in Nat /\ sp[p][v] + Made1(p, v) = s
            BY <2>2, <3>1
        <3> HIDE DEF Made1
        <3> QED
            BY <2>2, <3>2, <3>3
    <2>5. CASE IsFrom(p, v, layers)
        <3>1. PICK x : /\ x = At(fields, v) /\ x = At(ps[p].fields, v)
                       /\ x \in ToSet(ps[p].fields)
            BY <1>6, <2>5
        <3>2. ASSUME NEW e \in ToSet(ps[p].fields), e.key = v
              PROVE  e = x
            BY <2>1, <3>1, <3>2, DictFacts DEF DictOK
        <3>3. CASE x.raw
            <4>1. Made1(p, v) = 0
                BY <2>5, <3>1, <3>3
            <4> HIDE DEF Made1
            <4> QED
                BY <2>2, <3>2, <3>3, <4>1
        <3>4. CASE ~x.raw
            <4>1. x.id \in 1..Len(m.mutators)
                BY <2>3, <3>1, <3>4
            <4>2. PICK a \in Nat, b \in Nat :
                      a = m.mutators[x.id].count /\ b = w.mutators[x.id].count /\ a <= b
                BY <1>11, <4>1
            <4>3. Made1(p, v) = b - a
                BY <2>5, <3>1, <3>4, <4>2
            <4> HIDE DEF Made1
            <4>4. Made1(p, v) \in Nat
                BY <4>2, <4>3
            <4>5. ASSUME NEW e \in ToSet(ps[p].fields), ~e.raw, e.key = v
                  PROVE  s + Made1(p, v) <= w.mutators[e.id].count
                <5>1. e = x /\ s <= a
                    BY <2>3, <3>2, <4>2, <4>5
                <5> QED
                    BY <4>2, <4>3, <5>1
            <4> QED
                BY <2>2, <4>4, <4>5
        <3> QED
            BY <3>3, <3>4
    <2> QED
        BY <2>4, <2>5
<1> HIDE DEF Made1
<1>16. SpentOK(ps, sq, w)
    <2>1. ASSUME NEW p \in 1..Len(ps), NEW v \in Variables
          PROVE  sp[p][v] + Made1(p, v) \in Nat
        BY <1>15
    <2>2. Len(ps) \in Nat
        BY <1>2, LenProperties DEF PresetsOK
    <2>3. sq \in [1..Len(ps) -> [Variables -> Nat]]
        BY <2>1
    <2>4. sq \in Seq([Variables -> Nat]) /\ Len(sq) = Len(ps)
        BY <2>2, <2>3, SeqDef, LenProperties
    <2>5. ASSUME NEW i \in 1..Len(ps), NEW e \in ToSet(ps[i].fields), ~e.raw
          PROVE  sq[i][e.key] <= w.mutators[e.id].count
        <3>1. EntryOK(m, e)
            BY <1>2 DEF PresetsOK, DictOK
        <3>2. PICK v \in Variables : v = e.key
            BY <2>5, <3>1 DEF EntryOK
        <3>3. sq[i][v] = sp[i][v] + Made1(i, v)
            OBVIOUS
        <3> QED
            BY <1>15, <2>5, <3>2, <3>3
    <2> QED
        BY <2>4, <2>5 DEF SpentOK
<1>17. \A x : EntryOK(m, x) => EntryOK(w, x) /\ ModeIn(w, x) = ModeIn(m, x)
    BY <1>11 DEF EntryOK, ModeIn
<1>18. PresetsOK(ps, ts, w)
    BY <1>2, <1>17 DEF PresetsOK, DictOK
<1>19. AskedOK(ps, ak, w)
    <2>1. ak \in Seq(Modes) /\ Len(ak) = Len(ps)
        BY <1>2 DEF AskedOK
    <2>2. ASSUME NEW i \in 1..Len(ps)
          PROVE  HasModes(w, ps[i].fields, ak[i])
        <3>1. HasModes(m, ps[i].fields, ak[i])
            BY <1>2 DEF AskedOK
        <3>2. \A e \in ToSet(ps[i].fields) : ModeIn(w, e) = ModeIn(m, e)
            BY <1>2, <1>17 DEF PresetsOK, DictOK
        <3> QED
            BY <3>1, <3>2 DEF HasModes, HasMode
    <2> QED
        BY <2>1, <2>2 DEF AskedOK
<1>20. Holds(n, w, ps, ts, sq, ak)
    BY <1>2, <1>9, <1>16, <1>18, <1>19 DEF Holds
<1>21. calls' \in 0..MaxCalls
    BY <1>4, Now, CallsStay
<1>22. mutators' = w.mutators
    BY <1>4, <1>9 DEF Same
<1> HIDE DEF sq
<1> QED
    BY <1>1, <1>11, <1>12, <1>14, <1>20, <1>21, <1>22

\* Symbol.specialize.
LEMMA SpecializeKeeps ==
    ASSUME PresetsInvariant, NEW p \in DOMAIN presets, NEW picked \in Picks,
           SpecializeSymbol(p, picked)
    PROVE  PresetsInvariant'
<1>1. <<p>> \in Seq(DOMAIN presets)
    OBVIOUS
<1>2. PICK w, sq : /\ Holds(Len(defaults), w, presets, tables, sq, asked)
                   /\ w.defaults = defaults /\ w.confs = confs
                   /\ mutators' = w.mutators /\ spent' = sq
                   /\ calls' \in 0..MaxCalls
    BY <1>1, SpecializeFacts DEF SpecializeSymbol
<1>3. PICK n, ps, ts, ak : /\ n = Len(defaults) /\ ps = presets /\ ts = tables /\ ak = asked
                           /\ Holds(n, w, ps, ts, sq, ak)
    BY <1>2
<1>4. /\ defaults' = w.defaults /\ confs' = w.confs /\ presets' = ps /\ tables' = ts
      /\ asked' = ak /\ globalMax' = globalMax
    BY <1>2, <1>3 DEF SpecializeSymbol, Specialize
<1>5. globalMax' \in Nat
    BY <1>4, Now
<1> QED
    BY <1>2, <1>3, <1>4, <1>5, Then

\* Transition.executeAsInitiator and executeAsNotInitiator.
LEMMA SendKeeps ==
    ASSUME PresetsInvariant, NEW layers \in Layers, NEW picked \in Picks,
           SendSymbol(layers, picked)
    PROVE  PresetsInvariant'
<1>1. layers \in Seq(DOMAIN presets) /\ Len(layers) \in 1..2
    <2>1. PICK n \in 1..2 : layers \in [1..n -> DOMAIN presets]
        BY DEF Layers
    <2>2. n \in Nat
        OBVIOUS
    <2> QED
        BY <2>1, <2>2, SeqDef, LenProperties
<1>2. PICK w, sq : /\ Holds(Len(defaults), w, presets, tables, sq, asked)
                   /\ w.defaults = defaults /\ w.confs = confs
                   /\ mutators' = w.mutators /\ spent' = sq
                   /\ calls' \in 0..MaxCalls
    BY <1>1, SpecializeFacts DEF SendSymbol
<1>3. PICK n, ps, ts, ak : /\ n = Len(defaults) /\ ps = presets /\ ts = tables /\ ak = asked
                           /\ Holds(n, w, ps, ts, sq, ak)
    BY <1>2
<1>4. PICK p : p = Last(layers) /\ p \in DOMAIN presets
    <2>1. Len(layers) \in 1..Len(layers)
        BY <1>1
    <2>2. layers[Len(layers)] \in DOMAIN presets
        BY <1>1, <2>1, ElementOfSeq
    <2> QED
        BY <2>2 DEF Last
<1>5. p \in 1..Len(ps)
    BY <1>3, <1>4, PresetFacts DEF PresetsInvariant
<1>6. PICK t \in [Types -> 1..n] : t = ts[ps[p].table]
    BY <1>3, <1>5, PresetOf
<1>7. PICK x \in Machines(n + 1) :
          /\ x.defaults = Append(w.defaults, NewDefaults) /\ x.confs = w.confs
          /\ x.mutators = w.mutators /\ x.ok = TRUE /\ Extends(w, x)
    BY <1>3, NewEpoch
<1>8. /\ n \in Nat /\ w \in Machines(n) /\ TablesOK(ts, n) /\ PresetsOK(ps, ts, w)
      /\ SpentOK(ps, sq, w) /\ AskedOK(ps, ak, w) /\ n + 1 \in Nat /\ Len(ts) = n
    BY <1>3 DEF Holds, TablesOK
<1>9. PICK us : us = Append(ts, t) /\ TablesOK(us, n + 1) /\ Len(us) = n + 1
    <2>1. t \in [Types -> 1..(n + 1)]
        BY <1>6, <1>8
    <2> QED
        BY <1>8, <2>1, TablesGrow DEF TablesOK
<1>10. \A e : EntryOK(w, e) => EntryOK(x, e) /\ ModeIn(x, e) = ModeIn(w, e)
    BY <1>7 DEF EntryOK, ModeIn
<1>11. PresetsOK(ps, us, x)
    <2>1. ps \in Seq(PresetRecords)
        BY <1>8 DEF PresetsOK
    <2>2. ASSUME NEW i \in 1..Len(ps)
          PROVE  ps[i].table \in 1..Len(us) /\ DictOK(x, ps[i].fields)
        <3>1. ps[i].table \in 1..Len(ts) /\ DictOK(w, ps[i].fields)
            BY <1>8 DEF PresetsOK
        <3>2. DictOK(x, ps[i].fields)
            BY <1>10, <3>1 DEF DictOK
        <3> QED
            BY <1>8, <1>9, <3>1, <3>2
    <2> QED
        BY <2>1, <2>2 DEF PresetsOK
<1>12. SpentOK(ps, sq, x)
    BY <1>7, <1>8 DEF SpentOK
<1>13. AskedOK(ps, ak, x)
    <2>1. ak \in Seq(Modes) /\ Len(ak) = Len(ps)
        BY <1>8 DEF AskedOK
    <2>2. ASSUME NEW i \in 1..Len(ps)
          PROVE  HasModes(x, ps[i].fields, ak[i])
        <3>1. HasModes(w, ps[i].fields, ak[i])
            BY <1>8 DEF AskedOK
        <3>2. \A e \in ToSet(ps[i].fields) : ModeIn(x, e) = ModeIn(w, e)
            BY <1>8, <1>10 DEF PresetsOK, DictOK
        <3> QED
            BY <3>1, <3>2 DEF HasModes, HasMode
    <2> QED
        BY <2>1, <2>2 DEF AskedOK
<1>14. Holds(n + 1, x, ps, us, sq, ak)
    BY <1>7, <1>8, <1>9, <1>11, <1>12, <1>13 DEF Holds
<1>15. /\ defaults' = x.defaults /\ confs' = x.confs /\ mutators' = x.mutators
       /\ presets' = ps /\ tables' = us /\ asked' = ak
    BY <1>2, <1>3, <1>4, <1>6, <1>7, <1>9 DEF SendSymbol, Specialize
<1>16. globalMax' \in Nat
    BY PresetsAssumption DEF SendSymbol
<1> QED
    BY <1>2, <1>14, <1>15, <1>16, Then

-----------------------------------------------------------------------------
(* The theorems. *)

\* What a call of fuzz that returns leaves.
FuzzLeaves == NothingLeftRaw /\ FuzzingReachesDescendants

\* There is nothing at first.
LEMMA InitHolds ==
    ASSUME Init
    PROVE  PresetsInvariant /\ FuzzLeaves
<1>1. PICK z : z = <<>>
    OBVIOUS
<1>2. /\ presets = z /\ tables = z /\ defaults = z /\ confs = z /\ mutators = z
      /\ asked = z /\ spent = z /\ globalMax = DefaultMax /\ calls = 0 /\ last.op = "none"
    BY <1>1 DEF Init
<1>3. \A S : z \in Seq(S) /\ Len(z) = 0 /\ 1..Len(z) = {}
    BY <1>1, EmptyFacts
<1>4. Machine \in Machines(0)
    <2>1. Machine = [defaults |-> z, confs |-> z, mutators |-> z, ok |-> TRUE]
        BY <1>2 DEF Machine
    <2> QED
        BY <1>3, <2>1 DEF Machines
<1>5. Len(defaults) = 0
    BY <1>2, <1>3
<1>6. TablesOK(tables, 0)
    BY <1>2, <1>3 DEF TablesOK
<1>7. PresetsOK(presets, tables, Machine)
    BY <1>2, <1>3 DEF PresetsOK
<1>8. SpentOK(presets, spent, Machine)
    BY <1>2, <1>3 DEF SpentOK
<1>9. AskedOK(presets, asked, Machine)
    BY <1>2, <1>3 DEF AskedOK
<1>10. globalMax \in Nat /\ calls \in 0..MaxCalls
    BY <1>2, PresetsAssumption
<1>11. FuzzLeaves
    BY <1>2 DEF FuzzLeaves, NothingLeftRaw, FuzzingReachesDescendants, FuzzSucceeded
<1> QED
    BY <1>4, <1>5, <1>6, <1>7, <1>8, <1>9, <1>10, <1>11 DEF PresetsInvariant, Shape

\* Every action but a call of fuzz on a key is recorded as something else.
LEMMA OnlyFuzzIsFuzz ==
    ASSUME Next, last'.op = "fuzz"
    PROVE  \E p \in DOMAIN presets, key \in Targets \cap Keys, r \in Requests : Fuzz(p, key, r)
<1>1. ASSUME NEW op, NEW p, NEW named, NEW ok, Called(op, p, named, ok)
      PROVE  last'.op = op
    BY <1>1 DEF Called
<1>2. ~Create
    BY <1>1 DEF Create
<1>3. \A p, type, r : ~FuzzType(p, type, r)
    BY <1>1 DEF FuzzType
<1>4. \A p, key : ~Unset(p, key)
    BY <1>1 DEF Unset
<1>5. \A p : ~Clear(p)
    BY <1>1 DEF Clear
<1>6. \A p, q : ~Update(p, q)
    BY <1>1 DEF Update
<1>7. \A p : ~Copy(p)
    BY <1>1 DEF Copy
<1>8. \A n : ~SetFuzzingCounterMax(n)
    BY <1>1 DEF SetFuzzingCounterMax
<1>9. \A p, picked : ~SpecializeSymbol(p, picked)
    BY <1>1 DEF SpecializeSymbol, Specialize
<1>10. \A layers, picked : ~SendSymbol(layers, picked)
    BY <1>1 DEF SendSymbol, Specialize
<1> QED
    BY <1>2, <1>3, <1>4, <1>5, <1>6, <1>7, <1>8, <1>9, <1>10 DEF Next

\* Each step keeps the invariant.
LEMMA NextKeeps ==
    ASSUME PresetsInvariant, FuzzLeaves, [Next]_vars
    PROVE  PresetsInvariant' /\ FuzzLeaves'
<1>1. CASE Next
    <2>1. PresetsInvariant'
        <3>1. CASE Create
            BY <3>1, CreateKeeps
        <3>2. ASSUME NEW p \in DOMAIN presets, NEW key \in Targets \cap Keys,
                     NEW r \in Requests, Fuzz(p, key, r)
              PROVE  PresetsInvariant'
            BY <3>2, FuzzKeeps
        <3>3. ASSUME NEW p \in DOMAIN presets, NEW type \in Targets \cap Types,
                     NEW r \in Requests, FuzzType(p, type, r)
              PROVE  PresetsInvariant'
            BY <3>3, FuzzTypeKeeps
        <3>4. ASSUME NEW p \in DOMAIN presets, NEW key \in Targets \cap Keys, Unset(p, key)
              PROVE  PresetsInvariant'
            BY <3>4, UnsetKeeps
        <3>5. ASSUME NEW p \in DOMAIN presets, Clear(p)
              PROVE  PresetsInvariant'
            BY <3>5, ClearKeeps
        <3>6. ASSUME NEW p \in DOMAIN presets, NEW q \in DOMAIN presets \ {p}, Update(p, q)
              PROVE  PresetsInvariant'
            BY <3>6, UpdateKeeps
        <3>7. ASSUME NEW p \in DOMAIN presets, Copy(p)
              PROVE  PresetsInvariant'
            BY <3>7, CopyKeeps
        <3>8. ASSUME NEW n \in Limits, SetFuzzingCounterMax(n)
              PROVE  PresetsInvariant'
            BY <3>8, LimitKeeps
        <3>9. ASSUME NEW p \in DOMAIN presets, NEW picked \in Picks, SpecializeSymbol(p, picked)
              PROVE  PresetsInvariant'
            BY <3>9, SpecializeKeeps
        <3>10. ASSUME NEW layers \in Layers, NEW picked \in Picks, SendSymbol(layers, picked)
               PROVE  PresetsInvariant'
            BY <3>10, SendKeeps
        <3> QED
            BY <1>1, <3>1, <3>2, <3>3, <3>4, <3>5, <3>6, <3>7, <3>8, <3>9, <3>10 DEF Next
    <2>2. FuzzLeaves'
        <3>1. CASE last'.op = "fuzz"
            <4>1. PICK p \in DOMAIN presets, key \in Targets \cap Keys, r \in Requests :
                      Fuzz(p, key, r)
                BY <1>1, <3>1, OnlyFuzzIsFuzz
            <4> QED
                BY <4>1, FuzzNormalizes DEF FuzzLeaves
        <3>2. CASE last'.op # "fuzz"
            BY <3>2 DEF FuzzLeaves, NothingLeftRaw, FuzzingReachesDescendants, FuzzSucceeded
        <3> QED
            BY <3>1, <3>2
    <2> QED
        BY <2>1, <2>2
<1>2. CASE UNCHANGED vars
    <2>1. /\ presets' = presets /\ tables' = tables /\ defaults' = defaults
          /\ confs' = confs /\ mutators' = mutators /\ globalMax' = globalMax
          /\ calls' = calls /\ last' = last /\ asked' = asked /\ spent' = spent
        BY <1>2 DEF vars, heap
    <2>2. Machine' = Machine
        BY <2>1 DEF Machine
    <2>3. PresetsInvariant'
        BY <2>1, <2>2 DEF PresetsInvariant, Shape
    <2>4. FuzzLeaves'
        BY <2>1 DEF FuzzLeaves, NothingLeftRaw, FuzzingReachesDescendants, FuzzSucceeded
    <2> QED
        BY <2>3, <2>4
<1> QED
    BY <1>1, <1>2

\* The inductive invariant: the heap is made of complete parameters and of
\* mutators that have not generated more than their maximum, every entry of a
\* preset leads into it, a mutator has counted what any preset has generated
\* with it, and the entry of a variable has the mode last asked for; and a call
\* of fuzz that returned has left no key that is not a variable, no value that
\* is not a mutator, and no child of a fuzzed node without a mutator.
THEOREM PresetsInvariantHolds == Spec => [](PresetsInvariant /\ FuzzLeaves)
<1>1. Init => PresetsInvariant /\ FuzzLeaves
    BY InitHolds
<1>2. (PresetsInvariant /\ FuzzLeaves) /\ [Next]_vars
            => (PresetsInvariant /\ FuzzLeaves)'
    BY NextKeeps
<1> QED
    BY <1>1, <1>2, PTL DEF Spec

\* What an entry of a preset leads to.
LEMMA EntryAt ==
    ASSUME PresetsInvariant, NEW p \in DOMAIN presets, NEW i \in DOMAIN presets[p].fields
    PROVE  LET e == presets[p].fields[i]
           IN  /\ e \in Entries /\ e \in ToSet(presets[p].fields)
               /\ EntryOK(Machine, e)
               /\ p \in 1..Len(presets) /\ presets[p].fields \in Dicts
<1>1. /\ p \in 1..Len(presets) /\ presets[p].fields \in Dicts
      /\ DictOK(Machine, presets[p].fields)
    BY PresetFacts DEF PresetsInvariant
<1>2. PICK f \in Dicts : f = presets[p].fields /\ DictOK(Machine, f)
    BY <1>1
<1>3. f[i] \in ToSet(f)
    BY <1>2 DEF ToSet
<1>4. EntryOK(Machine, f[i]) /\ f[i] \in Entries
    <2>1. f \in Seq(Entries) /\ i \in 1..Len(f)
        BY <1>2 DEF Dicts
    <2>2. f[i] \in Entries
        BY <2>1, ElementOfSeq
    <2> QED
        BY <1>2, <1>3, <2>2 DEF DictOK
<1> QED
    BY <1>1, <1>2, <1>3, <1>4

\* The mutators of the state.
LEMMA MutatorNow ==
    ASSUME PresetsInvariant, NEW i \in DOMAIN mutators
    PROVE  /\ mutators[i].count \in Nat
           /\ mutators[i].params["counterMax"] \in Nat
           /\ mutators[i].count <= mutators[i].params["counterMax"]
<1>1. PICK n, m : /\ n \in Nat /\ m \in Machines(n) /\ m = Machine /\ m.mutators = mutators
    BY Now DEF Holds, Machine
<1>2. DOMAIN mutators = 1..Len(m.mutators)
    <2>1. m.mutators \in Seq(Mutators(n))
        BY <1>1, MachineFacts
    <2> QED
        BY <1>1, <2>1
<1>3. /\ m.mutators[i].count \in Nat /\ m.mutators[i].params \in Complete
      /\ m.mutators[i].count <= m.mutators[i].params["counterMax"]
    BY <1>1, <1>2, MutatorOf
<1>4. m.mutators[i].params["counterMax"] \in Nat
    BY <1>3 DEF Complete, Settings
<1> QED
    BY <1>1, <1>3, <1>4

\* The invariant implies the type invariant.
LEMMA InvariantTypes ==
    ASSUME PresetsInvariant
    PROVE  TypeOK
<1>1. PICK n, m :
          /\ n \in Nat /\ m \in Machines(n) /\ n = Len(defaults) /\ m = Machine /\ m.defaults = defaults /\ m.confs = confs
          /\ m.mutators = mutators
    BY Now DEF Holds, Machine
<1>2. /\ m.defaults \in Seq([Types -> Settings]) /\ m.confs \in Seq(Complete)
      /\ m.mutators \in Seq(Mutators(n)) /\ Len(m.defaults) = n
    BY <1>1, MachineFacts
<1>3. /\ DOMAIN defaults = 1..n /\ DOMAIN confs = 1..Len(m.confs)
      /\ DOMAIN mutators = 1..Len(m.mutators)
    BY <1>1, <1>2
<1>4. tables \in Seq([Types -> 1..n])
    BY <1>1 DEF PresetsInvariant, Shape, TablesOK
<1>5. \A e \in DOMAIN tables : tables[e] \in [Types -> DOMAIN defaults]
    BY <1>3, <1>4
<1>6. DOMAIN tables = 1..Len(tables)
    BY <1>4
<1>7. ASSUME NEW p \in DOMAIN presets
      PROVE  /\ presets[p].table \in DOMAIN tables
             /\ \A i, j \in DOMAIN presets[p].fields :
                    presets[p].fields[i].key = presets[p].fields[j].key => i = j
    <2>1. presets[p].fields \in Dicts /\ presets[p].table \in 1..Len(tables)
        BY PresetFacts DEF PresetsInvariant
    <2> QED
        BY <1>6, <2>1 DEF Dicts, Distinct
<1>8. ASSUME NEW p \in DOMAIN presets, NEW i \in DOMAIN presets[p].fields
      PROVE  LET e == presets[p].fields[i]
             IN  e.key \in Keys /\ e.id \in DOMAIN (IF e.raw THEN confs ELSE mutators)
    <2>1. PICK e : e = presets[p].fields[i] /\ e \in Entries /\ EntryOK(m, e)
        BY <1>1, EntryAt
    <2>2. e.key \in Keys /\ (e.raw => e.id \in DOMAIN confs)
          /\ (~e.raw => e.id \in DOMAIN mutators)
        BY <1>3, <2>1 DEF EntryOK, Entries
    <2> QED
        BY <2>1, <2>2
<1>9. \A i \in DOMAIN mutators : mutators[i].count \in Nat
    BY MutatorNow
<1>10. globalMax \in Nat /\ calls \in 0..MaxCalls
    BY Now
<1> QED
    BY <1>5, <1>7, <1>8, <1>9, <1>10 DEF TypeOK

\* The invariant implies the budget.
LEMMA InvariantBudget ==
    ASSUME PresetsInvariant
    PROVE  BudgetHolds
<1>1. ASSUME NEW p \in DOMAIN presets, NEW i \in DOMAIN presets[p].fields,
             ~presets[p].fields[i].raw
      PROVE  spent[p][presets[p].fields[i].key]
                <= mutators[presets[p].fields[i].id].params["counterMax"]
    <2>1. PICK e : /\ e = presets[p].fields[i] /\ e \in ToSet(presets[p].fields)
                   /\ EntryOK(Machine, e) /\ p \in 1..Len(presets)
        BY EntryAt
    <2>2. e.key \in Variables /\ e.id \in DOMAIN mutators /\ ~e.raw
        <3>1. e.key \in Variables /\ e.id \in 1..Len(Machine.mutators) /\ ~e.raw
            BY <1>1, <2>1 DEF EntryOK
        <3>2. Machine.mutators = mutators /\ Machine \in Machines(Len(defaults))
            BY Now DEF Machine, Holds
        <3>3. Machine.mutators \in Seq(Mutators(Len(defaults)))
            BY <3>2 DEF Machines
        <3> QED
            BY <3>1, <3>2, <3>3
    <2>3. /\ spent \in Seq([Variables -> Nat]) /\ Len(spent) = Len(presets)
          /\ spent[p][e.key] <= Machine.mutators[e.id].count
        BY <2>1, <2>2 DEF PresetsInvariant, SpentOK
    <2>4. spent[p] \in [Variables -> Nat]
        BY <2>1, <2>3, ElementOfSeq
    <2>5. PICK s \in Nat, c \in Nat, x \in Nat :
              /\ s = spent[p][e.key] /\ c = mutators[e.id].count
              /\ x = mutators[e.id].params["counterMax"] /\ c <= x
        BY <2>2, <2>4, MutatorNow
    <2>6. s <= c
        BY <2>3, <2>5 DEF Machine
    <2>7. s <= x
        BY <2>5, <2>6
    <2> QED
        BY <2>1, <2>5, <2>7
<1> QED
    BY <1>1 DEF BudgetHolds

\* The invariant implies that the last call wins.
LEMMA InvariantModes ==
    ASSUME PresetsInvariant
    PROVE  LastCallWins
<1>1. ASSUME NEW p \in DOMAIN presets, NEW v \in Variables, asked[p][v] # "none"
      PROVE  \E i \in DOMAIN presets[p].fields :
                /\ presets[p].fields[i].key = v
                /\ ModeOf(presets[p].fields[i]) = asked[p][v]
    <2>1. p \in 1..Len(presets)
        BY PresetFacts DEF PresetsInvariant
    <2>2. HasModes(Machine, presets[p].fields, asked[p])
        BY <2>1 DEF PresetsInvariant, AskedOK
    <2>3. PICK e \in ToSet(presets[p].fields) : e.key = v /\ ModeIn(Machine, e) = asked[p][v]
        BY <1>1, <2>2 DEF HasModes, HasMode
    <2>4. PICK i \in DOMAIN presets[p].fields : presets[p].fields[i] = e
        BY DEF ToSet
    <2>5. ModeOf(e) = ModeIn(Machine, e)
        BY DEF ModeOf, ModeIn, ConfMode, Machine
    <2> QED
        BY <2>3, <2>4, <2>5
<1> QED
    BY <1>1 DEF LastCallWins

\* What a preset holds is well formed at any moment, and a call of fuzz that
\* returns (_set, then normalize_mappingFieldsMutators) leaves only variables
\* and mutators.
THEOREM WellFormedHolds == Spec => []WellFormed
<1>1. PresetsInvariant /\ FuzzLeaves => WellFormed
    BY InvariantTypes DEF WellFormed, FuzzLeaves
<1> QED
    BY <1>1, PresetsInvariantHolds, PTL

\* Fuzzing reaches every descendant of a fuzzed node, through the nodes in
\* between, when _set returns: _propagateMutation has given a mutator to each
\* child that the calls have not configured.
THEOREM FuzzingReachesDescendantsHolds == Spec => []FuzzingReachesDescendants
<1>1. PresetsInvariant /\ FuzzLeaves => FuzzingReachesDescendants
    BY DEF FuzzLeaves
<1> QED
    BY <1>1, PresetsInvariantHolds, PTL

\* A preset generates at most counterMax values for a variable, however many
\* messages, transitions, updates and copies share its mutators.
THEOREM BudgetHoldsAlways == Spec => []BudgetHolds
<1>1. PresetsInvariant /\ FuzzLeaves => BudgetHolds
    BY InvariantBudget
<1> QED
    BY <1>1, PresetsInvariantHolds, PTL

\* The last call that named a variable, at whatever level, decides its mode.
THEOREM LastCallWinsAlways == Spec => []LastCallWins
<1>1. PresetsInvariant /\ FuzzLeaves => LastCallWins
    BY InvariantModes
<1> QED
    BY <1>1, PresetsInvariantHolds, PTL

\* A call of fuzz that fails leaves the mutators of the other variables as
\* they were, in the heap and in the preset.
THEOREM FailureKeepsTheRestHolds == Spec => FailureKeepsTheRest
<1>1. ASSUME PresetsInvariant, [Next]_vars
      PROVE  [last'.op = "fuzz" /\ ~last'.ok =>
                \A i \in DOMAIN presets[last'.preset].fields :
                    LET e == presets[last'.preset].fields[i]
                    IN  ~e.raw /\ e.key \notin last'.named =>
                            /\ mutators'[e.id] = mutators[e.id]
                            /\ \E j \in DOMAIN presets'[last'.preset].fields :
                                presets'[last'.preset].fields[j] = e]_vars
    <2>1. SUFFICES ASSUME Next, last'.op = "fuzz",
                          NEW i \in DOMAIN presets[last'.preset].fields,
                          NEW e, e = presets[last'.preset].fields[i],
                          ~e.raw, e.key \notin last'.named
                   PROVE  /\ mutators'[e.id] = mutators[e.id]
                          /\ \E j \in DOMAIN presets'[last'.preset].fields :
                                presets'[last'.preset].fields[j] = e
        BY <1>1
    <2>2. PICK p \in DOMAIN presets, key \in Targets \cap Keys, r \in Requests : Fuzz(p, key, r)
        BY <2>1, OnlyFuzzIsFuzz
    <2>3. last'.preset = p
        BY <2>2 DEF Fuzz, Called
    <2>4. e \in ToSet(presets[p].fields)
        BY <2>1, <2>3 DEF ToSet
    <2>5. mutators'[e.id] = mutators[e.id] /\ e \in ToSet(presets'[p].fields)
        BY <1>1, <2>1, <2>2, <2>4, FuzzKeepsTheRest
    <2> QED
        BY <2>3, <2>5 DEF ToSet
<1> QED
    BY <1>1, PresetsInvariantHolds, PTL DEF Spec, FailureKeepsTheRest
=============================================================================
