---------------------------- MODULE PolicyEngine ----------------------------
(***************************************************************************)
(* policy/engine.py: the request the policy may look at, its clauses, and  *)
(* the decision of the first clause that fires.  A request is a record, a  *)
(* clause an identifier with its predicate as a function from requests to  *)
(* verdicts, so a clause list is data, as it is for PolicyEngine.__init__. *)
(* Reasons are wording that follows from the clause and are left out, and  *)
(* so is caller_id, which every gateway of the program sets to one value.  *)
(***************************************************************************)
EXTENDS Naturals, Sequences

CONSTANTS
    REGIONS,            \* the declared residency regions
    Labels,             \* region labels a registration or a row may carry
    ALLOWED_PURPOSES,   \* the policy's vocabulary
    Purposes,           \* every purpose a caller may state
    RecordIds           \* record ids, logged and never evaluated

ASSUME PolicyAssumption ==
    /\ REGIONS \subseteq Labels
    /\ ALLOWED_PURPOSES \subseteq Purposes

\* What a predicate returns: True, False or None.
Verdicts == {"allow", "deny", "none"}

\* The dataclass, before __post_init__ has looked at its regions.
RawRequest == [caller_region : Labels, data_region : Labels,
               purpose : Purposes, record_id : RecordIds]

\* __post_init__: a request with an undeclared region cannot be built.
Constructible(req) == {req.caller_region, req.data_region} \subseteq REGIONS

ToolCallRequest == {req \in RawRequest : Constructible(req)}

purpose_clause(req) ==
    IF req.purpose \notin ALLOWED_PURPOSES THEN "deny" ELSE "none"

cross_region_deny_clause(req) ==
    IF req.data_region # req.caller_region THEN "deny" ELSE "none"

\* Fault: the clause does not compare the regions.
same_region_allow_clause_any(req) == "allow"

same_region_allow_clause(req) ==
    IF req.data_region = req.caller_region THEN "allow" ELSE "none"

\* Any tuple of clauses, whatever they are called, is a clause list.
IsClauseList(clauses) ==
    /\ Len(clauses) \in Nat
    /\ clauses = [i \in 1..Len(clauses) |-> clauses[i]]
    /\ \A i \in DOMAIN clauses :
          clauses[i].predicate \in [ToolCallRequest -> Verdicts]

PurposeClause ==
    [id |-> "SOV-000-PURPOSE",
     predicate |-> [req \in ToolCallRequest |-> purpose_clause(req)]]

ResidencyClause ==
    [id |-> "SOV-001-RESIDENCY",
     predicate |-> [req \in ToolCallRequest |-> cross_region_deny_clause(req)]]

SameRegionClause ==
    [id |-> "SOV-002-SAME-REGION",
     predicate |-> [req \in ToolCallRequest |-> same_region_allow_clause(req)]]

DEFAULT_CLAUSES == <<PurposeClause, ResidencyClause, SameRegionClause>>

PolicyDecision(allowed, clause_id, req) ==
    [allowed |-> allowed, clause_id |-> clause_id,
     caller_region |-> req.caller_region, data_region |-> req.data_region,
     purpose |-> req.purpose, record_id |-> req.record_id]

Fires(clauses, req, i) == clauses[i].predicate[req] # "none"

\* The positions a walk over the clauses may stop at.
Firing(clauses, req) == {i \in DOMAIN clauses : Fires(clauses, req, i)}

IsFirst(i, S) == i \in S /\ \A j \in S : i <= j

DefaultDeny(req) == PolicyDecision(FALSE, "SOV-999-DEFAULT-DENY", req)

ClauseDecision(clause, req) ==
    PolicyDecision(clause.predicate[req] = "allow", clause.id, req)

evaluate(clauses, req) ==
    IF Firing(clauses, req) = {}
    THEN DefaultDeny(req)
    ELSE LET i == CHOOSE k \in DOMAIN clauses :
                      IsFirst(k, Firing(clauses, req))
         IN  ClauseDecision(clauses[i], req)
=============================================================================
