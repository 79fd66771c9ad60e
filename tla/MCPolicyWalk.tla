---------------------------- MODULE MCPolicyWalk ----------------------------
(* Two declared regions and one undeclared, one allowed and one foreign    *)
(* purpose, and every ordering of every selection of the shipped clauses.  *)
EXTENDS PolicyWalk, SequencesExt

MCREGIONS == {"EU", "US"}
MCLabels == {"EU", "US", "APAC"}
MCALLOWED == {"summarize"}
MCPurposes == {"summarize", "exfiltrate"}
MCRecordIds == {"r1"}

MCClauseLists == SetToAllKPermutations(Range(DEFAULT_CLAUSES))
=============================================================================
