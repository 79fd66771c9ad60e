----------------------------- MODULE WalkProofs -----------------------------
(***************************************************************************)
(* The loop of PolicyEngine.evaluate, for every set of clause lists: what  *)
(* it returns is what evaluate is defined to be, and what follows from it. *)
(***************************************************************************)
EXTENDS PolicyWalk, PolicyProofs

\* No clause the walk has passed fires, and a request under evaluation was
\* constructed.
WalkInv ==
    /\ clauses \in ClauseLists
    /\ request \in RawRequest
    /\ at \in Nat
    /\ at > 0 => Constructible(request)
    /\ Decided => at > 0
    /\ ~ Decided => \A j \in DOMAIN clauses : j < at => ~ Fires(clauses, request, j)
    /\ Decided => decision = evaluate(clauses, request)

\* There is at most one first clause that fires.
LEMMA FirstIsTheOne ==
    ASSUME NEW list, IsClauseList(list), NEW req,
           NEW i \in DOMAIN list, Fires(list, req, i),
           \A j \in DOMAIN list : j < i => ~ Fires(list, req, j)
    PROVE  evaluate(list, req) = ClauseDecision(list[i], req)
<1> DEFINE S == Firing(list, req)
           first == CHOOSE k \in DOMAIN list : IsFirst(k, S)
<1>1. DOMAIN list \subseteq Nat
  BY DEF IsClauseList
<1>2. i \in S
  BY DEF Firing
<1>3. \A j \in S : j \in DOMAIN list /\ Fires(list, req, j) /\ i <= j
  BY <1>1 DEF Firing
<1>4. IsFirst(i, S)
  BY <1>2, <1>3 DEF IsFirst
<1>5. first \in DOMAIN list /\ IsFirst(first, S)
  BY <1>4
<1>6. first = i
  BY <1>1, <1>2, <1>3, <1>5 DEF IsFirst
<1>7. evaluate(list, req) = ClauseDecision(list[first], req)
  BY <1>2 DEF evaluate
<1> QED
  BY <1>6, <1>7

LEMMA WalkInvStep ==
    ASSUME WalkInv, [Next]_vars
    PROVE  WalkInv'
<1>1. IsClauseList(clauses)
  BY WalkAssumption DEF WalkInv
<1>2. DOMAIN clauses \subseteq Nat /\ DOMAIN clauses = 1..Len(clauses)
      /\ Len(clauses) \in Nat
  BY <1>1 DEF IsClauseList
<1>3. CASE UNCHANGED vars
  BY <1>3 DEF vars, WalkInv, Decided
<1>4. CASE Construct
  <2>1. at' = 1 /\ Constructible(request) /\ at = 0
        /\ UNCHANGED <<clauses, request, decision>>
    BY <1>4 DEF Construct
  <2>2. ~ Decided
    BY <2>1 DEF WalkInv
  <2>3. \A j \in DOMAIN clauses : ~ (j < 1)
    BY <1>2
  <2> QED
    BY <2>1, <2>2, <2>3 DEF WalkInv, Decided
<1>5. CASE Skip
  <2>1. /\ ~ Decided /\ at \in DOMAIN clauses /\ at > 0
        /\ ~ Fires(clauses, request, at)
        /\ at' = at + 1 /\ UNCHANGED <<clauses, request, decision>>
    BY <1>5 DEF Skip, Walking, Decided
  <2>2. \A j \in DOMAIN clauses : j < at + 1 => ~ Fires(clauses, request, j)
    <3>1. ASSUME NEW j \in DOMAIN clauses, j < at + 1
          PROVE  ~ Fires(clauses, request, j)
      <4>1. j < at \/ j = at
        BY <1>2, <2>1, <3>1
      <4> QED
        BY <2>1, <4>1 DEF WalkInv
    <3> QED
      BY <3>1
  <2> QED
    BY <2>1, <2>2 DEF WalkInv, Decided
<1>6. CASE ReturnVerdict
  <2>1. /\ ~ Decided /\ at \in DOMAIN clauses /\ at > 0
        /\ Fires(clauses, request, at)
        /\ decision' = ClauseDecision(clauses[at], request)
        /\ UNCHANGED <<clauses, request, at>>
    BY <1>6 DEF ReturnVerdict, Walking, Decided
  <2>2. decision' = evaluate(clauses, request)
    BY <1>1, <2>1, FirstIsTheOne DEF WalkInv
  <2>3. ~ Decided' => \A j \in DOMAIN clauses : j < at => ~ Fires(clauses, request, j)
    BY <2>1 DEF WalkInv
  <2> QED
    BY <2>1, <2>2, <2>3 DEF WalkInv, Decided
<1>7. CASE FailClosed
  <2>1. /\ ~ Decided /\ at \notin DOMAIN clauses /\ at > 0
        /\ decision' = DefaultDeny(request)
        /\ UNCHANGED <<clauses, request, at>>
    BY <1>7 DEF FailClosed, Walking, Decided
  <2>2. \A j \in DOMAIN clauses : j < at
    BY <1>2, <2>1 DEF WalkInv
  <2>3. Firing(clauses, request) = {}
    BY <2>1, <2>2 DEF WalkInv, Firing
  <2>4. decision' = evaluate(clauses, request)
    BY <2>1, <2>3 DEF evaluate
  <2> QED
    BY <2>1, <2>4 DEF WalkInv, Decided
<1> QED
  BY <1>3, <1>4, <1>5, <1>6, <1>7 DEF Next

LEMMA WalkInvariant == Spec => []WalkInv
<1>1. ASSUME Init PROVE WalkInv
  <2>1. \A j \in DOMAIN clauses : ~ (j < 0)
    BY <1>1, WalkAssumption DEF Init, IsClauseList
  <2> QED
    BY <1>1, <2>1 DEF Init, WalkInv, Decided
<1>2. WalkInv /\ [Next]_vars => WalkInv'
  BY WalkInvStep
<1> QED
  BY <1>1, <1>2, PTL DEF Spec

\* Whatever clause lists there are, the loop with its early returns decides
\* as evaluate is defined to (policy/engine.py, PolicyEngine.evaluate).
THEOREM WalkIsEvaluate == Spec => []WalkComputesEvaluate
<1>1. WalkInv => WalkComputesEvaluate
  BY DEF WalkInv, WalkComputesEvaluate
<1> QED
  BY <1>1, WalkInvariant, PTL

\* If every clause allows a request only when its regions agree, no list of
\* them, in whatever order, lets a record cross, and none is asked about an
\* undeclared region (policy/engine.py, DEFAULT_CLAUSES and __post_init__).
THEOREM NothingCrosses ==
    ASSUME \A list \in ClauseLists : \A i \in DOMAIN list :
              \A req \in ToolCallRequest :
                 list[i].predicate[req] = "allow" =>
                     req.caller_region = req.data_region
    PROVE  Spec => []NeverAllowedAcross
<1>1. ASSUME WalkInv, Decided
      PROVE  /\ {request.caller_region, request.data_region} \subseteq REGIONS
             /\ decision.caller_region = request.caller_region
             /\ decision.data_region = request.data_region
             /\ decision.allowed => request.caller_region = request.data_region
  <2>1. request \in ToolCallRequest /\ Constructible(request)
    BY <1>1 DEF WalkInv, ToolCallRequest
  <2>2. IsClauseList(clauses) /\ clauses \in ClauseLists
    BY <1>1, WalkAssumption DEF WalkInv
  <2>3. decision = evaluate(clauses, request)
    BY <1>1 DEF WalkInv
  <2>4. /\ decision.caller_region = request.caller_region
        /\ decision.data_region = request.data_region
    <3>1. CASE decision = DefaultDeny(request)
      BY <3>1 DEF DefaultDeny, PolicyDecision
    <3>2. ASSUME NEW i, decision = ClauseDecision(clauses[i], request)
          PROVE  /\ decision.caller_region = request.caller_region
                 /\ decision.data_region = request.data_region
      BY <3>2 DEF ClauseDecision, PolicyDecision
    <3> QED
      BY <2>1, <2>2, <2>3, <3>1, <3>2, EvaluateCases
  <2>5. ASSUME decision.allowed
        PROVE  request.caller_region = request.data_region
    <3>1. PICK i \in DOMAIN clauses : clauses[i].predicate[request] = "allow"
      BY <2>1, <2>2, <2>3, <2>5, FailsClosed
    <3> QED
      BY <2>1, <2>2, <3>1
  <2> QED
    BY <2>1, <2>4, <2>5 DEF Constructible
<1>2. WalkInv => NeverAllowedAcross
  <2>1. ASSUME WalkInv, Decided
        PROVE  /\ {request.caller_region, request.data_region} \subseteq REGIONS
               /\ decision.allowed =>
                      decision.caller_region = decision.data_region
    BY <1>1, <2>1
  <2>2. ASSUME WalkInv, Decided
        PROVE  {request.caller_region, request.data_region} \subseteq REGIONS
    BY <2>1, <2>2
  <2> QED
    BY <2>1, <2>2 DEF NeverAllowedAcross
<1> QED
  BY <1>2, WalkInvariant, PTL

\* A list of the shipped clauses that starts with the purpose clause vetoes
\* exactly the purposes outside the vocabulary in its name (policy/engine.py,
\* _purpose_clause).
THEOREM PurposeComesFirst ==
    ASSUME \A list \in ClauseLists : \A i \in DOMAIN list :
              list[i] \in {PurposeClause, ResidencyClause, SameRegionClause}
    PROVE  Spec => []PurposeVetoedFirst
<1>1. ASSUME WalkInv, Decided, clauses # <<>>, Head(clauses) = PurposeClause
      PROVE  request.purpose \notin ALLOWED_PURPOSES
                 <=> decision.clause_id = "SOV-000-PURPOSE"
  <2>1. request \in ToolCallRequest /\ clauses \in ClauseLists
        /\ decision = evaluate(clauses, request)
    BY <1>1 DEF WalkInv, ToolCallRequest
  <2>2. IsClauseList(clauses)
    BY <2>1, WalkAssumption
  <2>3. CASE 1 \in DOMAIN clauses
    <3>1. clauses[1] = PurposeClause
      BY <1>1, <2>3
    <3>2. clauses[1].predicate[request] = purpose_clause(request)
          /\ clauses[1].id = "SOV-000-PURPOSE"
      BY <2>1, <3>1 DEF PurposeClause
    <3>3. ASSUME request.purpose \notin ALLOWED_PURPOSES
          PROVE  decision.clause_id = "SOV-000-PURPOSE"
      <4>1. Fires(clauses, request, 1)
        BY <3>2, <3>3 DEF Fires, purpose_clause
      <4>2. \A j \in DOMAIN clauses : ~ (j < 1)
        BY <2>2 DEF IsClauseList
      <4>3. decision = ClauseDecision(clauses[1], request)
        BY <2>1, <2>2, <2>3, <4>1, <4>2, FirstIsTheOne
      <4> QED
        BY <3>2, <4>3 DEF ClauseDecision, PolicyDecision
    <3>4. ASSUME request.purpose \in ALLOWED_PURPOSES,
                 decision.clause_id = "SOV-000-PURPOSE"
          PROVE  FALSE
      <4>1. decision # DefaultDeny(request)
        BY <3>4 DEF DefaultDeny, PolicyDecision
      <4>2. PICK i \in DOMAIN clauses :
               /\ Fires(clauses, request, i)
               /\ decision = ClauseDecision(clauses[i], request)
        BY <2>1, <2>2, <4>1, EvaluateCases
      <4>3. clauses[i].id = "SOV-000-PURPOSE"
        BY <3>4, <4>2 DEF ClauseDecision, PolicyDecision
      <4>4. clauses[i] = PurposeClause
        BY <2>1, <4>3 DEF ResidencyClause, SameRegionClause
      <4>5. clauses[i].predicate[request] = "none"
        BY <2>1, <3>4, <4>4 DEF PurposeClause, purpose_clause
      <4> QED
        BY <4>2, <4>5 DEF Fires
    <3> QED
      BY <3>3, <3>4
  <2>4. CASE 1 \notin DOMAIN clauses
    <3>1. Len(clauses) = 0
      BY <2>2, <2>4 DEF IsClauseList
    <3> QED
      BY <1>1, <2>1, <2>2, <3>1 DEF IsClauseList
  <2> QED
    BY <2>3, <2>4
<1>2. WalkInv => PurposeVetoedFirst
  BY <1>1 DEF PurposeVetoedFirst
<1> QED
  BY <1>2, WalkInvariant, PTL

\* A list allows a request exactly if one of its clauses does and no clause
\* ahead of that one has an opinion.
LEMMA AllowedIff ==
    ASSUME NEW list, IsClauseList(list), NEW req \in ToolCallRequest
    PROVE  /\ evaluate(list, req).allowed \in BOOLEAN
           /\ evaluate(list, req).allowed
                 <=> \E i \in DOMAIN list :
                        /\ list[i].predicate[req] = "allow"
                        /\ \A j \in DOMAIN list :
                              j < i => list[j].predicate[req] = "none"
<1>1. DefaultDeny(req).allowed = FALSE
  BY DEF DefaultDeny, PolicyDecision
<1>2. ASSUME NEW i
      PROVE  ClauseDecision(list[i], req).allowed
                 = (list[i].predicate[req] = "allow")
  BY DEF ClauseDecision, PolicyDecision
<1>3. evaluate(list, req).allowed \in BOOLEAN
  <2>1. CASE evaluate(list, req) = DefaultDeny(req)
    BY <1>1, <2>1
  <2>2. ASSUME NEW i, evaluate(list, req) = ClauseDecision(list[i], req)
        PROVE  evaluate(list, req).allowed \in BOOLEAN
    <3>1. evaluate(list, req).allowed = (list[i].predicate[req] = "allow")
      BY <1>2, <2>2
    <3> QED
      BY <3>1
  <2> QED
    BY <2>1, <2>2, EvaluateCases
<1>4. ASSUME NEW i \in DOMAIN list, list[i].predicate[req] = "allow",
             \A j \in DOMAIN list : j < i => list[j].predicate[req] = "none"
      PROVE  evaluate(list, req).allowed
  <2>1. evaluate(list, req) = ClauseDecision(list[i], req)
    BY <1>4, FirstIsTheOne DEF Fires
  <2> QED
    BY <1>2, <1>4, <2>1
<1> QED
  BY <1>3, <1>4, FailsClosed

\* A clause that has no opinion of a request can go: the list allows the
\* request without it exactly if it does with it.
LEMMA SilentClauseCanGo ==
    ASSUME NEW list, IsClauseList(list), NEW rest, IsClauseList(rest),
           NEW clause, Deleted(clause, list, rest),
           NEW req \in ToolCallRequest, clause.predicate[req] = "none"
    PROVE  evaluate(list, req).allowed <=> evaluate(rest, req).allowed
<1> DEFINE D == DOMAIN list
           E == DOMAIN rest
<1>1. D \subseteq Nat /\ E \subseteq Nat
  BY DEF IsClauseList
<1>2. PICK place \in [E -> D] :
         /\ \A i, j \in E : i < j => place[i] < place[j]
         /\ \A j \in E : rest[j] = list[place[j]]
         /\ {place[j] : j \in E} = {i \in D : list[i] # clause}
  BY DEF Deleted
<1>3. ASSUME NEW i \in D, list[i].predicate[req] # "none"
      PROVE  \E j \in E : i = place[j]
  <2>1. i \in {place[j] : j \in E}
    BY <1>2, <1>3
  <2> QED
    BY <2>1
<1>4. ASSUME NEW i \in E, NEW j \in E, place[i] < place[j]
      PROVE  i < j
  <2>1. i \in Nat /\ j \in Nat /\ place[i] \in Nat /\ place[j] \in Nat
    BY <1>1, <1>2
  <2>2. CASE i = j
    BY <1>4, <2>1, <2>2
  <2>3. CASE j < i
    <3>1. place[j] < place[i]
      BY <1>2, <2>3
    <3> QED
      BY <1>4, <2>1, <3>1
  <2> QED
    BY <2>1, <2>2, <2>3
<1>5. ASSUME evaluate(list, req).allowed
      PROVE  evaluate(rest, req).allowed
  <2>1. PICK i \in D : /\ list[i].predicate[req] = "allow"
                       /\ \A j \in D : j < i => list[j].predicate[req] = "none"
    BY <1>5, FailsClosed
  <2>2. PICK k \in E : i = place[k]
    BY <1>3, <2>1
  <2>3. rest[k].predicate[req] = "allow"
    BY <1>2, <2>1, <2>2
  <2>4. ASSUME NEW j \in E, j < k
        PROVE  rest[j].predicate[req] = "none"
    <3>1. place[j] \in D /\ place[j] < i /\ rest[j] = list[place[j]]
      BY <1>2, <2>2, <2>4
    <3> QED
      BY <2>1, <3>1
  <2> QED
    BY <2>3, <2>4, AllowedIff
<1>6. ASSUME evaluate(rest, req).allowed
      PROVE  evaluate(list, req).allowed
  <2>1. PICK k \in E : /\ rest[k].predicate[req] = "allow"
                       /\ \A j \in E : j < k => rest[j].predicate[req] = "none"
    BY <1>6, FailsClosed
  <2>2. place[k] \in D /\ list[place[k]].predicate[req] = "allow"
    BY <1>2, <2>1
  <2>3. ASSUME NEW i \in D, i < place[k], list[i].predicate[req] # "none"
        PROVE  FALSE
    <3>1. PICK j \in E : i = place[j]
      BY <1>3, <2>3
    <3>2. j < k
      BY <1>4, <2>3, <3>1
    <3> QED
      BY <1>2, <2>1, <2>3, <3>1, <3>2
  <2> QED
    BY <2>2, <2>3, AllowedIff
<1> QED
  BY <1>5, <1>6

\* If every clause allows a request only when its regions agree, the residency
\* clause only names the denial: a list allows the same requests without it
\* (policy/engine.py, _cross_region_deny_clause).
THEOREM ResidencyOnlyNames ==
    ASSUME \A list \in ClauseLists : \A i \in DOMAIN list :
              \A req \in ToolCallRequest :
                 list[i].predicate[req] = "allow" =>
                     req.caller_region = req.data_region
    PROVE  Spec => []ResidencyClauseOnlyNames
<1>1. ASSUME WalkInv, Decided, NEW rest \in ClauseLists,
             Deleted(ResidencyClause, clauses, rest)
      PROVE  decision.allowed = evaluate(rest, request).allowed
  <2>1. request \in ToolCallRequest
    BY <1>1 DEF WalkInv, ToolCallRequest
  <2>2. /\ clauses \in ClauseLists /\ IsClauseList(clauses)
        /\ IsClauseList(rest)
        /\ decision = evaluate(clauses, request)
    BY <1>1, WalkAssumption DEF WalkInv
  <2>3. CASE request.caller_region = request.data_region
    <3>1. ResidencyClause.predicate[request] = "none"
      BY <2>1, <2>3 DEF ResidencyClause, cross_region_deny_clause
    <3>2. evaluate(clauses, request).allowed
             <=> evaluate(rest, request).allowed
      BY <1>1, <2>1, <2>2, <3>1, SilentClauseCanGo
    <3> QED
      BY <2>1, <2>2, <3>2, AllowedIff
  <2>4. CASE request.caller_region # request.data_region
    <3>1. ASSUME NEW list \in ClauseLists
          PROVE  ~ evaluate(list, request).allowed
      BY <2>1, <2>4, <3>1, WalkAssumption, FailsClosed
    <3> QED
      BY <2>1, <2>2, <3>1, AllowedIff
  <2> QED
    BY <2>3, <2>4
<1>2. WalkInv => ResidencyClauseOnlyNames
  BY <1>1 DEF ResidencyClauseOnlyNames
<1> QED
  BY <1>2, WalkInvariant, PTL
=============================================================================
