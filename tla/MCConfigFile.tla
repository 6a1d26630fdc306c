---------------------------- MODULE MCConfigFile ----------------------------
(* Two settings with two values each, in files of up to three lines; what  *)
(* was not written reads as no setting's line, or as two of one setting's. *)
EXTENDS ConfigFile, TLC

Whole(k, v) == [key |-> k, val |-> v, ended |-> TRUE]
MCRemains ==
  {<<[key |-> Junk, val |-> Spoiled, ended |-> FALSE]>>}
    \cup {<<Whole(k, v), Whole(k, w)>> : k \in Key, v \in Val, w \in Val}
MCSymmetry == Permutations(Key) \cup Permutations(Val)
=============================================================================
