----------------------------- MODULE WebhookMC -----------------------------
(* Small instances of Webhook for TLC. *)
EXTENDS Webhook, TLC

C(l, e, s, p, d) == [level |-> l, events |-> e, slack |-> s, passive |-> p, default |-> d]

(* Every level, and each switch off where it matters. *)
SomeConfigs ==
    {C(l, TRUE, TRUE, TRUE, TRUE) : l \in {"OFF", "LOW", "HIGH"}}
    \cup {C(l, FALSE, TRUE, FALSE, TRUE) : l \in {"MED", "other"}}
    \cup {C("LOW", FALSE, TRUE, TRUE, FALSE), C("MED", TRUE, FALSE, TRUE, TRUE)}

(* One policy of each severity. *)
SeverityOf == [p \in {"LOW", "MED", "HIGH"} |-> p]

CONSTANTS r1, r2   \* the requests
Child    == [owned |-> TRUE, fails |-> {}]
Fails(f) == [owned |-> FALSE, fails |-> f]

(* A child beside a failure; nothing wrong beside two failures; two         *)
(* failures of different weight.                                            *)
SomeLoads ==
    {(r1 :> Child) @@ (r2 :> Fails({"MED"})), (r1 :> Fails({})) @@ (r2 :> Fails({"LOW", "HIGH"})),
     (r1 :> Fails({"LOW"})) @@ (r2 :> Fails({"MED"}))}
=============================================================================
