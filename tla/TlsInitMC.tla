----------------------------- MODULE TlsInitMC -----------------------------
(* Small instances of TlsInit for TLC: the secrets a deployment can start with. *)
EXTENDS TlsInit, TLC

S(pair, due, readable, byoc, label) ==
    [cert |-> pair, key |-> pair, due |-> due, readable |-> readable,
     byoc |-> byoc, label |-> label]

(* A replica of an earlier deployment made it: good, and made blank since. *)
Made == {S(k, FALSE, TRUE, FALSE, k[1]) : k \in Pods \X {0}}
        \cup {S(Blank, FALSE, TRUE, FALSE, p) : p \in Pods}

(* The operator brought it: complete, half blank, due. *)
Brought == {S(ExtKey, due, TRUE, TRUE, "null") : due \in BOOLEAN}
           \cup {[S(ExtKey, FALSE, TRUE, TRUE, "null") EXCEPT !.key = Blank]}

(* Somebody made it by hand, without the annotation: with other labels,    *)
(* with none, and with a field missing.                                    *)
ByHand == {S(ExtKey, FALSE, TRUE, FALSE, l) : l \in {"other", "null"}}
          \cup {S(Blank, FALSE, FALSE, FALSE, "null")}

AllSecrets == {None} \cup Made \cup Brought \cup ByHand
NoSecret   == {None}
DueSecret  == {S(k, TRUE, TRUE, FALSE, k[1]) : k \in Pods \X {0}}

Symmetric == Permutations(Pods)
=============================================================================
