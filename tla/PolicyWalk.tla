----------------------------- MODULE PolicyWalk -----------------------------
(***************************************************************************)
(* PolicyEngine.evaluate as the code runs it: build the request, then walk *)
(* the clause list one predicate at a time and return at the first that    *)
(* fires.  The clause list is any list of ClauseLists, as the constructor  *)
(* takes any tuple, so an engine whose clauses were reordered or deleted   *)
(* is in the model too.                                                    *)
(***************************************************************************)
EXTENDS PolicyEngine

CONSTANTS ClauseLists,  \* the clause lists an engine is built with
          Undecided     \* no decision yet

ASSUME WalkAssumption == \A list \in ClauseLists : IsClauseList(list)

VARIABLES clauses, request, at, decision

vars == <<clauses, request, at, decision>>

Init == /\ clauses \in ClauseLists
        /\ request \in RawRequest
        /\ at = 0
        /\ decision = Undecided

\* ToolCallRequest(...) returns.  With an undeclared region it raises and
\* nothing is ever evaluated.
Construct == /\ at = 0
             /\ Constructible(request)
             /\ at' = 1
             /\ UNCHANGED <<clauses, request, decision>>

Walking == at > 0 /\ decision = Undecided

\* Fault: the last verdict wins instead of the first.
SkipToLast ==
    /\ Walking
    /\ at \in DOMAIN clauses
    /\ \/ ~ Fires(clauses, request, at)
       \/ \E j \in Firing(clauses, request) : j > at
    /\ at' = at + 1
    /\ UNCHANGED <<clauses, request, decision>>

\* The predicate returns None: continue.
Skip == /\ Walking
        /\ at \in DOMAIN clauses
        /\ ~ Fires(clauses, request, at)
        /\ at' = at + 1
        /\ UNCHANGED <<clauses, request, decision>>

ReturnVerdict == /\ Walking
                 /\ at \in DOMAIN clauses
                 /\ Fires(clauses, request, at)
                 /\ decision' = ClauseDecision(clauses[at], request)
                 /\ UNCHANGED <<clauses, request, at>>

\* Fault: an exhausted list allows.
FailOpen == /\ Walking
            /\ at \notin DOMAIN clauses
            /\ decision' = PolicyDecision(TRUE, "SOV-999-DEFAULT-DENY", request)
            /\ UNCHANGED <<clauses, request, at>>

FailClosed == /\ Walking
              /\ at \notin DOMAIN clauses
              /\ decision' = DefaultDeny(request)
              /\ UNCHANGED <<clauses, request, at>>

Next == Construct \/ Skip \/ ReturnVerdict \/ FailClosed

Spec == Init /\ [][Next]_vars

-----------------------------------------------------------------------------
Decided == decision # Undecided

\* The loop with its early returns computes evaluate: whatever the list, the
\* decision is that of the least clause that fires, or the default denial
\* (policy/engine.py, PolicyEngine.evaluate).
WalkComputesEvaluate == Decided => decision = evaluate(clauses, request)

\* Reordering or deleting clauses never lets a record cross
\* regions, and no request with an undeclared region is ever decided
\* (policy/engine.py, the residency clauses and __post_init__).
NeverAllowedAcross ==
    Decided => /\ {request.caller_region, request.data_region} \subseteq REGIONS
               /\ decision.allowed =>
                      decision.caller_region = decision.data_region

\* rest is list with every occurrence of clause deleted.
Deleted(clause, list, rest) ==
    \E place \in [DOMAIN rest -> DOMAIN list] :
        /\ \A i, j \in DOMAIN rest : i < j => place[i] < place[j]
        /\ \A j \in DOMAIN rest : rest[j] = list[place[j]]
        /\ {place[j] : j \in DOMAIN rest}
               = {i \in DOMAIN list : list[i] # clause}

\* The explicit residency clause only names the denial.  Without it the same
\* requests are allowed, wherever it stood: a cross-region request falls
\* through the other clauses to the default denial (policy/engine.py).
ResidencyClauseOnlyNames ==
    Decided =>
        \A rest \in ClauseLists :
            Deleted(ResidencyClause, clauses, rest) =>
                decision.allowed = evaluate(rest, request).allowed

\* A list that starts with the purpose clause vetoes every purpose outside
\* the vocabulary under that clause's own name, whatever else it holds
\* (policy/engine.py, _purpose_clause ahead of the residency clauses).
PurposeVetoedFirst ==
    Decided /\ clauses # <<>> /\ Head(clauses) = PurposeClause =>
        (request.purpose \notin ALLOWED_PURPOSES
            <=> decision.clause_id = "SOV-000-PURPOSE")
=============================================================================
