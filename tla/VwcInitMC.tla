----------------------------- MODULE VwcInitMC -----------------------------
(* Small instances of VwcInit for TLC: the VWCs a deployment can find. *)
EXTENDS VwcInit

V(rules, bundle, other, neighbour) ==
    [rules |-> rules, caBundle |-> bundle, other |-> other, neighbour |-> neighbour]

(* None; the template's as an older release left it; changed rules and no   *)
(* CA; one of a PKS cluster behind another webhook.                        *)
FoundVwcs ==
    {None, V(<<"pods">>, "cluster", "edited", "none"), V(<<"jobs">>, None, "default", "after"),
     V(<<"pods">>, "pks", "default", "before")}

NoVwc == {None}

(* A VWC in which something of the template is missing. *)
DriftedVwc == {V(<<"jobs">>, "cluster", "default", "none")}

(* The next version lists more, or less, than the one before. *)
Growing   == <<<<"pods">>, <<"pods", "jobs">>>>
Shrinking == <<<<"pods", "jobs">>, <<"pods">>>>

(* Other resources than the template's, or more. *)
OperatorsRules == {<<"jobs">>, <<"pods", "jobs", "jobs">>}
=============================================================================
