----------------------------- MODULE Admission -----------------------------
(***************************************************************************)
(* What MagTape promises of admission, README.md, "Deny Level": a request   *)
(* gets one verdict, for good, only an object that fails no policy of a     *)
(* blocked severity is let in, and what was announced as denied is not.  A  *)
(* request may be rejected for other reasons as well, several at once when  *)
(* the worker that held them dies.                                          *)
(***************************************************************************)
CONSTANT Requests

VARIABLES
    passing,    \* the requests whose objects may be let in
    announced,  \* the requests whose denial an alert has announced
    verdict     \* verdict[r]: "pending", "admitted" or "rejected"

Init ==
    /\ passing \in SUBSET Requests
    /\ announced = {}
    /\ verdict = [r \in Requests |-> "pending"]

Pending(S) == \A r \in S : verdict[r] = "pending"

(* The alert goes out before the answer, perhaps after the API server gave up. *)
Announce(r) ==
    /\ verdict[r] # "admitted"
    /\ announced' = announced \cup {r}
    /\ UNCHANGED <<passing, verdict>>

Admit(r) ==
    /\ r \in passing \ announced /\ Pending({r})
    /\ verdict' = [verdict EXCEPT ![r] = "admitted"]
    /\ UNCHANGED <<passing, announced>>

Reject(S) ==
    /\ Pending(S)
    /\ verdict' = [r \in Requests |-> IF r \in S THEN "rejected" ELSE verdict[r]]
    /\ UNCHANGED <<passing, announced>>

Next ==
    \/ \E r \in Requests : Announce(r) \/ Admit(r)
    \/ \E S \in SUBSET Requests : Reject(S)

Spec == Init /\ [][Next]_<<passing, announced, verdict>>
=============================================================================
