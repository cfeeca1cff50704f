----------------------------- MODULE DenyLevel -----------------------------
(***************************************************************************)
(* MAGTAPE_DENY_LEVEL: what magtape() makes of the severities that a        *)
(* response message names after "[FAIL]", and how README.md ranks the       *)
(* levels.                                                                  *)
(***************************************************************************)
EXTENDS Naturals

Severities == {"LOW", "MED", "HIGH"}

(* "other": MAGTAPE_DENY_LEVEL is none of the four. *)
Levels == {"OFF", "LOW", "MED", "HIGH", "other"}

(* The severities that the deny level turns into a denial. *)
DenyList == [LOW |-> {"HIGH"}, MED |-> {"HIGH", "MED"}, HIGH |-> Severities, OFF |-> {}]

(* is_allowed; a level that is not known denies everything. *)
AllowedAt(level, msg) == level # "other" /\ DenyList[level] \cap msg = {}

(* The deny levels as README.md ranks them: each blocks one severity more. *)
Rank      == [LOW |-> 1, MED |-> 2, HIGH |-> 3]
Threshold == [OFF |-> 4, LOW |-> 3, MED |-> 2, HIGH |-> 1]

Blocked(level, severity) == level = "other" \/ Rank[severity] >= Threshold[level]
=============================================================================
