---------------------------- MODULE InitMainMC ----------------------------
(* Small instances of InitMain for TLC. *)
EXTENDS InitMain, TLC

S(key, byoc, label) ==
    [cert |-> key, key |-> key, due |-> FALSE, readable |-> TRUE, byoc |-> byoc, label |-> label]

(* Nothing; a pair made by a replica of an earlier deployment; the operator's. *)
StartSecrets == {None, S(ExtKey, TRUE, "null")} \cup {S(<<p, 0>>, FALSE, p) : p \in Pods}
OperatorsSecret == {S(ExtKey, TRUE, "null")}

NoVwc == {None}

(* One version of the template. *)
OneTemplate == <<<<"pods">>>>

Symmetric == Permutations(Pods)
===========================================================================
