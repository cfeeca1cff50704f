---------------------------- MODULE PairElection ----------------------------
(***************************************************************************)
(* What the replicas' TLS initialisation promises, seen from outside: one   *)
(* cert/key pair is chosen at most once for the whole deployment, and a     *)
(* replica that serves a stored pair serves the chosen one.                 *)
(***************************************************************************)
CONSTANTS Replicas,   \* the replicas that serve the webhook
          Pairs,      \* the cert/key pairs that may be chosen
          None        \* no pair

VARIABLES chosen,     \* the pair all replicas are to serve, or None
          serves      \* serves[r]: the stored pair replica r serves, or None

vars == <<chosen, serves>>

Init == /\ chosen \in Pairs \cup {None}
        /\ serves = [r \in Replicas |-> None]

(* Any one pair is chosen, once. *)
Choose == /\ chosen = None
          /\ chosen' \in Pairs
          /\ UNCHANGED serves

(* A replica that serves nothing starts to serve the chosen pair. *)
Adopt(r) == /\ chosen # None
            /\ serves[r] = None
            /\ serves' = [serves EXCEPT ![r] = chosen]
            /\ UNCHANGED chosen

Next == Choose \/ \E r \in Replicas : Adopt(r)

Spec == Init /\ [][Next]_vars
=============================================================================
