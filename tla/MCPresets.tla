------------------------------ MODULE MCPresets -------------------------------
(***************************************************************************)
(* A symbol with a field fb, whose domain b is an aggregate of a leaf c    *)
(* and of an alternative e of one leaf d, and a field fp that has one      *)
(* sub-field fa, of domain a.                                              *)
(***************************************************************************)
EXTENDS Presets

MCVariables == {"a", "b", "c", "d", "e", "p"}
MCFields == {"fa", "fb", "fp"}
MCSubFields == [f \in MCFields |-> IF f = "fp" THEN <<"fa">> ELSE <<>>]
MCDomain == [fa |-> "a", fb |-> "b", fp |-> "p"]
MCLeafFields == <<"fa", "fb">>
MCChildren == [v \in MCVariables |->
    IF v = "b" THEN <<"c", "e">> ELSE IF v = "e" THEN <<"d">> ELSE <<>>]
MCTypeOf == [v \in MCVariables |->
    IF v = "b" THEN "Agg" ELSE IF v = "e" THEN "Alt" ELSE "Integer"]
MCTargets == {"sym", "fp", "fb", "e", "Alt"}
MCRequests == {
    [mode |-> "MUTATE", counterMax |-> 1],
    [value |-> "raw"],
    [value |-> "typed"],
    [mutateChild |-> FALSE]}
MCTypedValues == {"typed"}
MCLimits == {1}
=============================================================================
