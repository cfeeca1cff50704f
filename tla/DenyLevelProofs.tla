-------------------------- MODULE DenyLevelProofs --------------------------
(* What the deny levels block. *)
EXTENDS DenyLevel, TLAPS

(* The deny lists of the code are the ranking of README.md: a severity is   *)
(* on the list exactly when it reaches the threshold of the level.          *)
LEMMA DenyListIsRanking ==
    ASSUME NEW denyLevel \in {"OFF", "LOW", "MED", "HIGH"}, NEW s \in Severities
    PROVE  s \in DenyList[denyLevel] <=> Blocked(denyLevel, s)
BY DEF DenyList, Severities, Blocked, Rank, Threshold

(* A level that is known lets an object in when none of the severities in   *)
(* the message is one it blocks.                                            *)
LEMMA AllowsUnlessBlocked ==
    ASSUME NEW denyLevel \in {"OFF", "LOW", "MED", "HIGH"}, NEW msg \in SUBSET Severities
    PROVE  AllowedAt(denyLevel, msg) <=> \A s \in msg : ~Blocked(denyLevel, s)
<1>1. \A s \in msg : s \in DenyList[denyLevel] <=> Blocked(denyLevel, s)
  BY DenyListIsRanking
<1> QED
  BY <1>1 DEF AllowedAt
=============================================================================
