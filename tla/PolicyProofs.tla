---------------------------- MODULE PolicyProofs ----------------------------
(***************************************************************************)
(* What PolicyEngine.evaluate guarantees for every clause list, every      *)
(* vocabulary and every set of regions.                                    *)
(***************************************************************************)
EXTENDS PolicyEngine, WellFoundedInduction, TLAPS

\* A non-empty set of clause positions has a first one.
LEMMA FirstExists ==
    ASSUME NEW S, S \subseteq Nat, S # {}
    PROVE  \E i \in S : IsFirst(i, S)
<1>1. PICK i \in S : \A j \in S : <<j, i>> \notin OpToRel(<, Nat)
  BY NatLessThanWellFounded, WFMin
<1>2. \A j \in S : ~ (j < i)
  BY <1>1 DEF OpToRel
<1>3. \A j \in S : i <= j
  BY <1>2
<1> QED
  BY <1>3 DEF IsFirst

\* What a walk over any clause list returns: the decision of a clause that
\* fires and before which none does, or the default denial if none fires.
LEMMA EvaluateCases ==
    ASSUME NEW clauses, IsClauseList(clauses), NEW req \in ToolCallRequest
    PROVE  \/ /\ Firing(clauses, req) = {}
              /\ evaluate(clauses, req) = DefaultDeny(req)
           \/ \E i \in DOMAIN clauses :
                 /\ Fires(clauses, req, i)
                 /\ \A j \in DOMAIN clauses : j < i => ~ Fires(clauses, req, j)
                 /\ evaluate(clauses, req) = ClauseDecision(clauses[i], req)
<1>1. CASE Firing(clauses, req) = {}
  BY <1>1 DEF evaluate
<1>2. CASE Firing(clauses, req) # {}
  <2> DEFINE S == Firing(clauses, req)
             first == CHOOSE k \in DOMAIN clauses : IsFirst(k, S)
  <2>1. S \subseteq DOMAIN clauses /\ S \subseteq Nat
    BY DEF Firing, IsClauseList
  <2>2. \E k \in S : IsFirst(k, S)
    BY <1>2, <2>1, FirstExists
  <2>3. first \in DOMAIN clauses /\ IsFirst(first, S)
    BY <2>1, <2>2
  <2>4. Fires(clauses, req, first)
    BY <2>3 DEF IsFirst, Firing
  <2>5. \A j \in DOMAIN clauses : j < first => ~ Fires(clauses, req, j)
    <3> SUFFICES ASSUME NEW j \in DOMAIN clauses, j < first,
                        Fires(clauses, req, j)
                 PROVE  FALSE
      OBVIOUS
    <3>1. j \in S
      BY DEF Firing
    <3>2. first <= j
      BY <2>3, <3>1 DEF IsFirst
    <3> QED
      BY <2>1, <2>3, <3>1, <3>2 DEF IsFirst
  <2>6. evaluate(clauses, req) = ClauseDecision(clauses[first], req)
    BY <1>2 DEF evaluate
  <2> QED
    BY <2>3, <2>4, <2>5, <2>6
<1> QED
  BY <1>1, <1>2

\* The engine fails closed: whatever clauses it was given, it allows a request
\* only on the word of a clause, and no clause ahead of that one had an
\* opinion (policy/engine.py, PolicyEngine.evaluate).
THEOREM FailsClosed ==
    ASSUME NEW clauses, IsClauseList(clauses), NEW req \in ToolCallRequest,
           evaluate(clauses, req).allowed
    PROVE  \E i \in DOMAIN clauses :
              /\ clauses[i].predicate[req] = "allow"
              /\ \A j \in DOMAIN clauses :
                    j < i => clauses[j].predicate[req] = "none"
<1>1. evaluate(clauses, req) # DefaultDeny(req)
  BY DEF DefaultDeny, PolicyDecision
<1>2. PICK i \in DOMAIN clauses :
         /\ \A j \in DOMAIN clauses : j < i => ~ Fires(clauses, req, j)
         /\ evaluate(clauses, req) = ClauseDecision(clauses[i], req)
  BY <1>1, EvaluateCases
<1>3. ClauseDecision(clauses[i], req).allowed
           = (clauses[i].predicate[req] = "allow")
  BY DEF ClauseDecision, PolicyDecision
<1>4. clauses[i].predicate[req] = "allow"
  BY <1>2, <1>3
<1> QED
  BY <1>2, <1>4 DEF Fires

\* A deny clause rules wherever no clause ahead of it can allow: put the
\* residency clause there and no request crosses regions, whatever clauses
\* follow it (policy/engine.py, _cross_region_deny_clause).
THEOREM ResidencyRules ==
    ASSUME NEW clauses, IsClauseList(clauses), NEW req \in ToolCallRequest,
           NEW k \in DOMAIN clauses, clauses[k] = ResidencyClause,
           \A j \in DOMAIN clauses :
              j < k => clauses[j].predicate[req] # "allow",
           req.caller_region # req.data_region
    PROVE  ~ evaluate(clauses, req).allowed
<1> SUFFICES ASSUME evaluate(clauses, req).allowed PROVE FALSE
  OBVIOUS
<1>1. PICK i \in DOMAIN clauses :
         /\ clauses[i].predicate[req] = "allow"
         /\ \A j \in DOMAIN clauses :
               j < i => clauses[j].predicate[req] = "none"
  BY FailsClosed
<1>2. clauses[k].predicate[req] = "deny"
  BY DEF ResidencyClause, cross_region_deny_clause
<1>3. i \in Nat /\ k \in Nat
  BY DEF IsClauseList
<1>4. i # k /\ ~ (i < k) /\ ~ (k < i)
  BY <1>1, <1>2
<1> QED
  BY <1>3, <1>4

\* The shipped clauses are a clause list.
LEMMA DefaultClausesType == IsClauseList(DEFAULT_CLAUSES)
<1> DEFINE C == DEFAULT_CLAUSES
<1>1. Len(C) = 3 /\ DOMAIN C = 1..3
  BY DEF DEFAULT_CLAUSES
<1>2. C = [i \in 1..3 |-> C[i]] /\ \A i \in 1..3 : i = 1 \/ i = 2 \/ i = 3
  BY <1>1 DEF DEFAULT_CLAUSES
<1>3. C[1].predicate \in [ToolCallRequest -> Verdicts]
  BY DEF DEFAULT_CLAUSES, PurposeClause, Verdicts, purpose_clause
<1>4. C[2].predicate \in [ToolCallRequest -> Verdicts]
  BY DEF DEFAULT_CLAUSES, ResidencyClause, Verdicts, cross_region_deny_clause
<1>5. C[3].predicate \in [ToolCallRequest -> Verdicts]
  BY DEF DEFAULT_CLAUSES, SameRegionClause, Verdicts, same_region_allow_clause
<1> QED
  BY <1>1, <1>2, <1>3, <1>4, <1>5 DEF IsClauseList

\* The shipped policy in one line: a request is allowed exactly if its purpose
\* is in the vocabulary and its two regions agree (policy/engine.py,
\* DEFAULT_CLAUSES).
THEOREM DefaultPolicy ==
    ASSUME NEW req \in ToolCallRequest
    PROVE  evaluate(DEFAULT_CLAUSES, req).allowed
               <=> /\ req.purpose \in ALLOWED_PURPOSES
                   /\ req.caller_region = req.data_region
<1> DEFINE C == DEFAULT_CLAUSES
<1>1. /\ DOMAIN C = {1, 2, 3}
      /\ C[1].predicate[req] = purpose_clause(req)
      /\ C[2].predicate[req] = cross_region_deny_clause(req)
      /\ C[3].predicate[req] = same_region_allow_clause(req)
  BY DEF DEFAULT_CLAUSES, PurposeClause, ResidencyClause, SameRegionClause
<1>2. ASSUME evaluate(C, req).allowed
      PROVE  /\ req.purpose \in ALLOWED_PURPOSES
             /\ req.caller_region = req.data_region
  <2>1. PICK i \in DOMAIN C :
           /\ C[i].predicate[req] = "allow"
           /\ \A j \in DOMAIN C : j < i => C[j].predicate[req] = "none"
    BY <1>2, DefaultClausesType, FailsClosed
  <2>2. i = 3
    BY <1>1, <2>1 DEF purpose_clause, cross_region_deny_clause
  <2> QED
    BY <1>1, <2>1, <2>2 DEF purpose_clause, same_region_allow_clause
<1>3. ASSUME req.purpose \in ALLOWED_PURPOSES,
             req.caller_region = req.data_region
      PROVE  evaluate(C, req).allowed
  <2>1. /\ C[1].predicate[req] = "none"
        /\ C[2].predicate[req] = "none"
        /\ C[3].predicate[req] = "allow"
    BY <1>1, <1>3 DEF purpose_clause, cross_region_deny_clause,
                      same_region_allow_clause
  <2>2. 3 \in Firing(C, req)
    BY <1>1, <2>1 DEF Firing, Fires
  <2>3. PICK i \in DOMAIN C :
           /\ Fires(C, req, i)
           /\ evaluate(C, req) = ClauseDecision(C[i], req)
    BY <2>2, EvaluateCases, DefaultClausesType
  <2>4. i = 3
    BY <1>1, <2>1, <2>3 DEF Fires
  <2>5. ClauseDecision(C[3], req).allowed = (C[3].predicate[req] = "allow")
    BY DEF ClauseDecision, PolicyDecision
  <2> QED
    BY <2>1, <2>3, <2>4, <2>5
<1> QED
  BY <1>2, <1>3
=============================================================================
