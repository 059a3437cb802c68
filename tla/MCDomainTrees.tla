---------------------------- MODULE MCDomainTrees ------------------------------
(* Small symbols for TLC. *)
EXTENDS DomainTrees, TLC

\* A leaf or a node of a domain.
Leaf(kind) == [kind |-> kind, children |-> <<>>, targets |-> <<>>, value |-> <<>>,
               size |-> <<1, 1>>, alphabet |-> Bytes, times |-> <<0, 0>>, delimiter |-> <<>>]
Fixed(value) == [Leaf("Constant") EXCEPT !.value = value]
Content(least, most) == [Leaf("Data") EXCEPT !.size = <<least, most>>]
Of(alphabet, least, most) == [Content(least, most) EXCEPT !.alphabet = alphabet]
Relation(kind, targets) == [Leaf(kind) EXCEPT !.targets = targets]
Node(kind, children) == [Leaf(kind) EXCEPT !.children = children]
Repeated(child, times, delimiter) ==
    [Node("Repeat", <<child>>) EXCEPT !.times = times, !.delimiter = delimiter]
Optional(child) == Repeated(child, <<0, 1>>, <<>>)

Domains ==
    [size1 |-> Relation("Size", <<"body1">>), body1 |-> Content(0, 2), end1 |-> Fixed(<<0>>),
     body2 |-> Content(0, 2), size2 |-> Relation("Size", <<"body2">>),
     sum2 |-> Relation("Checksum", <<"body2", "size2">>),
     head3 |-> Node("Agg", <<"size3", "sum3">>),
     size3 |-> Relation("Size", <<"size3", "sum3", "body3">>),
     sum3 |-> Relation("Checksum", <<"size3", "sum3", "body3">>), body3 |-> Content(0, 1),
     alt4 |-> Node("Alt", <<"one4", "pair4">>), one4 |-> Fixed(<<1>>),
     pair4 |-> Node("Agg", <<"two4", "any4">>), two4 |-> Fixed(<<1, 2>>), any4 |-> Content(0, 1),
     opt4 |-> Optional("end4"), end4 |-> Fixed(<<3>>),
     tail4 |-> Node("Agg", <<"zero4", "last4">>), zero4 |-> Fixed(<<0>>), last4 |-> Fixed(<<1>>),
     list5 |-> Repeated("item5", <<0, 2>>, <<0>>), item5 |-> Of({1, 2}, 1, 1), end5 |-> Fixed(<<3>>),
     size5 |-> Relation("Size", <<"list5">>),
     count6 |-> Of({0, 1, 2}, 1, 1), list6 |-> Repeated("item6", "count6", <<>>),
     item6 |-> Content(1, 1), sum6 |-> Relation("Checksum", <<"list6">>),
     copy7 |-> Relation("Value", <<"body7">>), mid7 |-> Fixed(<<0>>), body7 |-> Of({1, 2}, 0, 2),
     size8 |-> Relation("Size", <<"agg8">>), agg8 |-> Node("Agg", <<"a8", "b8">>),
     a8 |-> Content(0, 1), b8 |-> Fixed(<<0>>),
     size9 |-> Relation("Size", <<"body9">>), sizeB9 |-> Relation("Size", <<"body9">>),
     body9 |-> Content(0, 2),
     size10 |-> Relation("Size", <<"size10", "body10", "end10">>), body10 |-> Content(0, 2),
     end10 |-> Fixed(<<0>>),
     copy11 |-> Relation("Value", <<"agg11">>), agg11 |-> Node("Agg", <<"size11", "mid11">>),
     size11 |-> Relation("Size", <<"body11">>), mid11 |-> Fixed(<<0>>), body11 |-> Content(0, 1),
     list12 |-> Repeated("item12", <<2, 3>>, <<>>), item12 |-> Of({1, 2}, 1, 2), end12 |-> Content(0, 1),
     size13 |-> Relation("Size", <<"copy13">>), copy13 |-> Relation("Value", <<"body13">>),
     body13 |-> Of({1, 2}, 0, 2),
     list14 |-> Repeated("item14", <<2, 2>>, <<0>>), item14 |-> Of({1, 2}, 1, 1)]

MCVariables == DOMAIN Domains
MCKind == [v \in MCVariables |-> Domains[v].kind]
MCChildren == [v \in MCVariables |-> Domains[v].children]
MCTargets == [v \in MCVariables |-> Domains[v].targets]
MCConstant == [v \in MCVariables |-> Domains[v].value]
MCMinSize == [v \in MCVariables |-> Domains[v].size[1]]
MCMaxSize == [v \in MCVariables |-> Domains[v].size[2]]
MCAlphabet == [v \in MCVariables |-> Domains[v].alphabet]
MCTimes == [v \in MCVariables |-> Domains[v].times]
MCDelimiter == [v \in MCVariables |-> Domains[v].delimiter]
MCLastOptional == {"tail4"}

MCSymbols == <<
    <<"size1", "body1", "end1">>,
    <<"body2", "size2", "sum2">>,
    <<"head3", "body3">>,
    <<"alt4", "opt4", "tail4">>,
    <<"size5", "list5", "end5">>,
    <<"count6", "list6", "sum6">>,
    <<"copy7", "mid7", "body7">>,
    <<"size8", "agg8">>,
    <<"size9", "sizeB9", "body9">>,
    <<"size10", "body10", "end10">>,
    <<"copy11", "agg11", "body11">>,
    <<"list12", "end12">>,
    <<"size13", "copy13", "body13">>,
    <<"list14">> >>
=============================================================================
