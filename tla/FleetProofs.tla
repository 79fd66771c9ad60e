----------------------------- MODULE FleetProofs -----------------------------
(***************************************************************************)
(* The guarantees of the gateway for any number of calls, agents, rows and *)
(* registrations, whichever sub-agent latest resolves an id to: a record a *)
(* tool saw was in the region of the registration the call ran under, and  *)
(* a routed call is in the log.                                            *)
(***************************************************************************)
EXTENDS Fleet, PolicyProofs

IsSeq(s) == s \in Seq({s[i] : i \in 1..Len(s)})

FleetInv == /\ IsSeq(ran) /\ IsSeq(entries) /\ IsSeq(call_log)
            /\ ResidencyHeld

LEMMA SeqDomain ==
    ASSUME NEW s, IsSeq(s)
    PROVE  Len(s) \in Nat /\ DOMAIN s = 1..Len(s)
BY DEF IsSeq

\* t is s with e behind it.
Extended(t, s, e) == t = Append(s, e)

LEMMA AppendedSeq ==
    ASSUME NEW s, IsSeq(s), NEW e, NEW t, Extended(t, s, e)
    PROVE  /\ IsSeq(t)
           /\ Len(t) = Len(s) + 1
           /\ \A i \in 1..Len(s) : t[i] = s[i]
           /\ t[Len(s) + 1] = e
<1> DEFINE S == {s[i] : i \in 1..Len(s)} \union {e}
<1>1. s \in Seq(S)
  BY DEF IsSeq
<1>2. t = Append(s, e)
  BY DEF Extended
<1>3. t \in Seq(S)
  BY <1>1, <1>2
<1>4. Len(t) = Len(s) + 1
  BY <1>1, <1>2
<1>5. t[Len(s) + 1] = e
  BY <1>1, <1>2
<1>6. \A i \in 1..Len(s) : t[i] = s[i]
  BY <1>1, <1>2
<1>7. t \in Seq({t[i] : i \in 1..Len(t)})
  BY <1>3
<1>8. IsSeq(t)
  BY <1>7 DEF IsSeq
<1> QED
  BY <1>4, <1>5, <1>6, <1>8

\* What an allowed call is: of a registered agent, for a row in its region,
\* under a purpose of the vocabulary.
LEMMA AllowedMeans ==
    ASSUME NEW agent_id, NEW record_id \in DOMAIN Rows,
           NEW purpose \in Purposes,
           Evaluated(agent_id, get(record_id), purpose),
           invoke_decision(registry, agent_id, get(record_id), purpose).allowed
    PROVE  /\ latest(registry, agent_id).region = get(record_id).region
           /\ purpose \in ALLOWED_PURPOSES
<1> DEFINE row == get(record_id)
           req == request_of(registry, agent_id, row, purpose)
           home == latest(registry, agent_id).region
<1>1. Registered(registry, agent_id)
  <2>1. ~ unregistered_decision(row, purpose).allowed
    BY DEF unregistered_decision, PolicyDecision
  <2> QED
    BY <2>1 DEF invoke_decision
<1>2. Constructible(req)
  BY <1>1 DEF Evaluated, invoke_raises
<1>3. req = [caller_region |-> home, data_region |-> row.region,
             purpose |-> purpose, record_id |-> record_id]
  BY DEF request_of, get
<1>4. home \in REGIONS /\ row.region \in REGIONS
  BY <1>2, <1>3 DEF Constructible
<1>5. record_id \in RecordIds /\ REGIONS \subseteq Labels
  BY FleetAssumption, PolicyAssumption
<1> HIDE DEF home, row
<1>6. req \in RawRequest
  BY <1>3, <1>4, <1>5 DEF RawRequest
<1>7. req \in ToolCallRequest
  BY <1>2, <1>6 DEF ToolCallRequest
<1>8. evaluate(DEFAULT_CLAUSES, req).allowed
  BY <1>1 DEF invoke_decision, row
<1> HIDE DEF req
<1>9. req.purpose \in ALLOWED_PURPOSES /\ req.caller_region = req.data_region
  BY <1>7, <1>8, DefaultPolicy
<1> QED
  BY <1>3, <1>9 DEF home, row

\* Running the tool for an allowed call keeps the residency of every run.
LEMMA RunKeepsResidency ==
    ASSUME IsSeq(ran), ResidencyHeld,
           NEW agent_id, NEW record_id \in DOMAIN Rows,
           NEW purpose \in Purposes, NEW returned \in BOOLEAN,
           Evaluated(agent_id, get(record_id), purpose),
           invoke_decision(registry, agent_id, get(record_id), purpose).allowed,
           ran' = RanTool(agent_id, get(record_id), purpose, returned)
    PROVE  IsSeq(ran') /\ ResidencyHeld'
<1> DEFINE e == [by |-> latest(registry, agent_id), record |-> get(record_id),
                 purpose |-> purpose, returned |-> returned]
           n == Len(ran)
<1>1. Extended(ran', ran, e)
  BY DEF RanTool, Extended
<1>2. e.record.region = e.by.region /\ e.purpose \in ALLOWED_PURPOSES
  BY AllowedMeans
<1> HIDE DEF e
<1>5. /\ IsSeq(ran') /\ Len(ran') = n + 1
      /\ \A i \in 1..n : ran'[i] = ran[i]
      /\ ran'[n + 1] = e
  BY <1>1, AppendedSeq
<1>3. /\ IsSeq(ran') /\ DOMAIN ran' = 1..(n + 1) /\ n \in Nat
      /\ DOMAIN ran = 1..n
      /\ \A i \in 1..n : ran'[i] = ran[i]
      /\ ran'[n + 1] = e
  BY <1>5, SeqDomain
<1>4. \A i \in 1..(n + 1) : i \in 1..n \/ i = n + 1
  BY <1>3
<1> QED
  BY <1>2, <1>3, <1>4 DEF ResidencyHeld

LEMMA CallKeeps ==
    ASSUME FleetInv, NEW agent_id, NEW record_id \in DOMAIN Rows,
           NEW purpose \in Purposes,
           \/ Denied(agent_id, get(record_id), purpose)
           \/ Allowed(agent_id, get(record_id), purpose)
    PROVE  /\ IsSeq(ran') /\ ResidencyHeld' /\ IsSeq(entries')
           /\ entries' = append_decision(entries,
                  invoke_decision(registry, agent_id, get(record_id), purpose))
<1> DEFINE decision == invoke_decision(registry, agent_id, get(record_id), purpose)
<1>1. entries' = append_decision(entries, decision)
  BY DEF Denied, Allowed
<1> HIDE DEF decision
<1>2. IsSeq(entries')
  <2> DEFINE e == next_entry(entries, decision)
  <2>1. Extended(entries', entries, e) /\ IsSeq(entries)
    BY <1>1 DEF append_decision, FleetInv, Extended
  <2> HIDE DEF e
  <2> QED
    BY <2>1, AppendedSeq
<1> USE DEF decision
<1>3. CASE Denied(agent_id, get(record_id), purpose)
  BY <1>1, <1>2, <1>3 DEF Denied, FleetInv, ResidencyHeld
<1>4. CASE Allowed(agent_id, get(record_id), purpose)
  <2>1. IsSeq(ran') /\ ResidencyHeld'
    BY <1>4, RunKeepsResidency DEF Allowed, FleetInv
  <2> QED
    BY <1>1, <1>2, <2>1
<1> QED
  BY <1>3, <1>4

\* The purposes of the region tools are purposes.
LEMMA ToolPurpose ==
    ASSUME NEW tool \in RegionTools
    PROVE  tool.purpose \in Purposes
BY FleetAssumption DEF RegionTools

LEMMA FleetInvStep == FleetInv /\ [Next]_vars => FleetInv'
<1> SUFFICES ASSUME FleetInv, [Next]_vars PROVE FleetInv'
  OBVIOUS
<1>1. CASE UNCHANGED vars
  BY <1>1 DEF vars, FleetInv, ResidencyHeld
<1>2. ASSUME NEW new \in NewRegistrations, Register(new) PROVE FleetInv'
  BY <1>2 DEF Register, FleetInv, ResidencyHeld
<1>3. ASSUME NEW record_id \in DOMAIN Rows, NEW tool \in RegionTools,
             FleetCall(tool, get(record_id))
      PROVE  FleetInv'
  <2> DEFINE routed == [agent_id |-> tool.agent_id,
                        decision |-> invoke_decision(registry, tool.agent_id,
                                         get(record_id), tool.purpose)]
  <2>1. tool.purpose \in Purposes
    BY ToolPurpose
  <2>2. /\ \/ Denied(tool.agent_id, get(record_id), tool.purpose)
           \/ Allowed(tool.agent_id, get(record_id), tool.purpose)
        /\ call_log' = Append(call_log, routed)
    BY <1>3 DEF FleetCall
  <2>3. IsSeq(ran') /\ ResidencyHeld' /\ IsSeq(entries')
    BY <2>1, <2>2, CallKeeps
  <2>4. Extended(call_log', call_log, routed) /\ IsSeq(call_log)
    BY <2>2 DEF FleetInv, Extended
  <2> HIDE DEF routed
  <2>5. IsSeq(call_log')
    BY <2>4, AppendedSeq
  <2> QED
    BY <2>3, <2>5 DEF FleetInv
<1>4. ASSUME NEW record_id \in DOMAIN Rows, NEW agent_id \in AgentIds,
             NEW purpose \in Purposes,
             DirectCall(agent_id, get(record_id), purpose)
      PROVE  FleetInv'
  <2>1. /\ \/ Denied(agent_id, get(record_id), purpose)
           \/ Allowed(agent_id, get(record_id), purpose)
        /\ UNCHANGED call_log
    BY <1>4 DEF DirectCall
  <2>2. IsSeq(ran') /\ ResidencyHeld' /\ IsSeq(entries')
    BY <2>1, CallKeeps
  <2> QED
    BY <2>1, <2>2 DEF FleetInv
<1>5. ASSUME NEW record_id \in DOMAIN Rows, NEW agent_id \in AgentIds,
             NEW purpose \in Purposes,
             ToolRaises(agent_id, get(record_id), purpose)
      PROVE  FleetInv'
  <2>1. IsSeq(ran') /\ ResidencyHeld'
    BY <1>5, RunKeepsResidency DEF ToolRaises, FleetInv
  <2> QED
    BY <1>5, <2>1 DEF ToolRaises, FleetInv
<1> QED
  BY <1>1, <1>2, <1>3, <1>4, <1>5 DEF Next

LEMMA FleetInvariant == Spec => []FleetInv
<1>1. Init => FleetInv
  BY DEF Init, FleetInv, IsSeq, ResidencyHeld
<1> QED
  BY <1>1, FleetInvStep, PTL DEF Spec

\* No tool ever saw a record outside the region its sub-agent was registered
\* with when the call was made, or under a purpose that is not in the
\* vocabulary (gateway/tool_gateway.py, invoke).
THEOREM RecordsStayHome == Spec => []ResidencyHeld
<1>1. FleetInv => ResidencyHeld
  BY DEF FleetInv
<1> QED
  BY <1>1, FleetInvariant, PTL

-----------------------------------------------------------------------------
\* f finds each routed call in the log, in order.
Finds(f, calls, log) ==
    /\ f \in [DOMAIN calls -> DOMAIN log]
    /\ \A i \in DOMAIN calls : calls[i].decision = log[f[i]].decision
    /\ \A i, j \in DOMAIN calls : i < j => f[i] < f[j]

\* A longer log holds what a shorter one held.
LEMMA FindsInLonger ==
    ASSUME NEW calls, NEW log, IsSeq(log), NEW e, NEW longer,
           Extended(longer, log, e), NEW f, Finds(f, calls, log)
    PROVE  Finds(f, calls, longer)
<1>1. /\ IsSeq(longer) /\ Len(longer) = Len(log) + 1 /\ Len(log) \in Nat
      /\ \A i \in 1..Len(log) : longer[i] = log[i]
      /\ DOMAIN log = 1..Len(log) /\ DOMAIN longer = 1..(Len(log) + 1)
  BY AppendedSeq, SeqDomain
<1>2. DOMAIN log \subseteq DOMAIN longer
  BY <1>1
<1>3. \A i \in DOMAIN calls : longer[f[i]] = log[f[i]]
  BY <1>1 DEF Finds
<1> QED
  BY <1>2, <1>3 DEF Finds

\* A call and its entry, added together, find each other.
LEMMA FindsBoth ==
    ASSUME NEW calls, NEW log, IsSeq(calls), IsSeq(log),
           NEW c, NEW e, c.decision = e.decision,
           NEW moreCalls, Extended(moreCalls, calls, c),
           NEW longer, Extended(longer, log, e),
           NEW f, Finds(f, calls, log)
    PROVE  \E g : Finds(g, moreCalls, longer)
<1> DEFINE m == Len(calls)
           n == Len(log)
           g == [i \in 1..(m + 1) |-> IF i = m + 1 THEN n + 1 ELSE f[i]]
<1>1. /\ m \in Nat /\ n \in Nat
      /\ DOMAIN calls = 1..m /\ DOMAIN log = 1..n
      /\ DOMAIN moreCalls = 1..(m + 1) /\ DOMAIN longer = 1..(n + 1)
      /\ \A i \in 1..m : moreCalls[i] = calls[i]
      /\ \A i \in 1..n : longer[i] = log[i]
      /\ moreCalls[m + 1] = c /\ longer[n + 1] = e
  <2>1. /\ IsSeq(moreCalls) /\ Len(moreCalls) = m + 1
        /\ \A i \in 1..m : moreCalls[i] = calls[i]
        /\ moreCalls[m + 1] = c
    BY AppendedSeq
  <2>2. /\ IsSeq(longer) /\ Len(longer) = n + 1
        /\ \A i \in 1..n : longer[i] = log[i]
        /\ longer[n + 1] = e
    BY AppendedSeq
  <2> QED
    BY <2>1, <2>2, SeqDomain
<1>2. \A i \in 1..m : f[i] \in 1..n
  BY <1>1 DEF Finds
<1>3. \A i \in 1..(m + 1) : (i \in 1..m /\ i # m + 1) \/ i = m + 1
  BY <1>1
<1>4. /\ \A i \in 1..m : g[i] = f[i]
      /\ g[m + 1] = n + 1
  BY <1>1
<1>5. g \in [1..(m + 1) -> 1..(n + 1)]
  BY <1>1, <1>2
<1> HIDE DEF g, m, n
<1>6. ASSUME NEW i \in 1..(m + 1)
      PROVE  moreCalls[i].decision = longer[g[i]].decision
  <2>1. CASE i \in 1..m
    BY <1>1, <1>2, <1>4, <2>1 DEF Finds
  <2>2. CASE i = m + 1
    BY <1>1, <1>4, <2>2
  <2> QED
    BY <1>3, <2>1, <2>2
<1>7. ASSUME NEW i \in 1..(m + 1), NEW j \in 1..(m + 1), i < j
      PROVE  g[i] < g[j]
  <2>1. i \in 1..m
    BY <1>1, <1>7
  <2>2. CASE j \in 1..m
    BY <1>1, <1>4, <1>7, <2>1, <2>2 DEF Finds
  <2>3. CASE j = m + 1
    BY <1>1, <1>2, <1>4, <2>1, <2>3
  <2> QED
    BY <1>3, <2>2, <2>3
<1> QED
  BY <1>1, <1>5, <1>6, <1>7 DEF Finds

LEMMA RoutedStep ==
    ASSUME FleetInv, RoutedCallsAreLogged, [Next]_vars
    PROVE  RoutedCallsAreLogged'
<1>1. PICK f : Finds(f, call_log, entries)
  <2>1. PICK f \in [DOMAIN call_log -> DOMAIN entries] :
           \A i, j \in DOMAIN call_log :
              /\ call_log[i].decision = Decisions[f[i]]
              /\ i < j => f[i] < f[j]
    BY DEF RoutedCallsAreLogged
  <2>2. \A i \in DOMAIN call_log : Decisions[f[i]] = entries[f[i]].decision
    BY DEF Decisions
  <2> QED
    BY <2>1, <2>2 DEF Finds
<1>2. ASSUME NEW g, Finds(g, call_log', entries')
      PROVE  RoutedCallsAreLogged'
  <2>1. g \in [DOMAIN call_log' -> DOMAIN entries']
    BY <1>2 DEF Finds
  <2>2. \A i \in DOMAIN call_log' : Decisions'[g[i]] = entries'[g[i]].decision
    BY <2>1 DEF Decisions
  <2>3. \A i, j \in DOMAIN call_log' :
           /\ call_log'[i].decision = Decisions'[g[i]]
           /\ i < j => g[i] < g[j]
    BY <1>2, <2>2 DEF Finds
  <2> QED
    BY <2>1, <2>3 DEF RoutedCallsAreLogged
<1>3. CASE UNCHANGED <<entries, call_log>>
  BY <1>3 DEF RoutedCallsAreLogged, Decisions
<1>4. ASSUME NEW record_id \in DOMAIN Rows, NEW agent_id,
             NEW purpose \in Purposes,
             \/ Denied(agent_id, get(record_id), purpose)
             \/ Allowed(agent_id, get(record_id), purpose)
      PROVE  \E decision, e :
                /\ decision = invoke_decision(registry, agent_id,
                                              get(record_id), purpose)
                /\ e.decision = decision
                /\ Extended(entries', entries, e)
  <2> DEFINE decision == invoke_decision(registry, agent_id,
                                         get(record_id), purpose)
             e == next_entry(entries, decision)
  <2>1. entries' = append_decision(entries, decision)
    BY <1>4, CallKeeps
  <2>2. e.decision = decision
    BY DEF next_entry, Hashed
  <2>3. Extended(entries', entries, e)
    BY <2>1 DEF append_decision, Extended
  <2> QED
    BY <2>2, <2>3
<1>5. ASSUME NEW record_id \in DOMAIN Rows, NEW agent_id \in AgentIds,
             NEW purpose \in Purposes,
             DirectCall(agent_id, get(record_id), purpose)
      PROVE  RoutedCallsAreLogged'
  <2>1. PICK e : Extended(entries', entries, e)
    BY <1>4, <1>5 DEF DirectCall
  <2>2. call_log' = call_log
    BY <1>5 DEF DirectCall
  <2>3. Finds(f, call_log, entries')
    BY <1>1, <2>1, FindsInLonger DEF FleetInv
  <2>4. Finds(f, call_log', entries')
    BY <2>2, <2>3
  <2> QED
    BY <1>2, <2>4
<1>6. ASSUME NEW record_id \in DOMAIN Rows, NEW tool \in RegionTools,
             FleetCall(tool, get(record_id))
      PROVE  RoutedCallsAreLogged'
  <2>1. PICK decision, e :
           /\ decision = invoke_decision(registry, tool.agent_id,
                                         get(record_id), tool.purpose)
           /\ e.decision = decision
           /\ Extended(entries', entries, e)
    BY <1>4, <1>6, ToolPurpose DEF FleetCall
  <2> DEFINE c == [agent_id |-> tool.agent_id, decision |-> decision]
  <2>2. Extended(call_log', call_log, c)
    BY <1>6, <2>1 DEF FleetCall, Extended
  <2>3. c.decision = e.decision
    BY <2>1
  <2> HIDE DEF c
  <2>4. PICK g : Finds(g, call_log', entries')
    BY <1>1, <2>1, <2>2, <2>3, FindsBoth DEF FleetInv
  <2> QED
    BY <1>2, <2>4
<1> QED
  BY <1>3, <1>5, <1>6 DEF Next, Register, ToolRaises, vars

\* Whatever a region tool reports as routed is in the log, in the order of the
\* report (agent/fleet.py, _tool).
THEOREM RoutedMeansLogged == Spec => []RoutedCallsAreLogged
<1>1. Init => RoutedCallsAreLogged
  <2> SUFFICES ASSUME Init PROVE RoutedCallsAreLogged
    OBVIOUS
  <2>1. DOMAIN call_log = {}
    BY DEF Init
  <2>2. [i \in {} |-> i] \in [DOMAIN call_log -> DOMAIN entries]
    BY <2>1
  <2> QED
    BY <2>1, <2>2 DEF RoutedCallsAreLogged
<1> QED
  BY <1>1, RoutedStep, FleetInvariant, PTL DEF Spec

-----------------------------------------------------------------------------
RegistryInv ==
    /\ registry \subseteq SubAgentRegistration(Labels)
    /\ \A r, s \in registry :
          r.agent_id = s.agent_id /\ r.version = s.version => r = s

\* latest finds a registration of the agent it is asked for.
LEMMA LatestIsOneOf ==
    ASSUME RegistryInv, NEW a, Registered(registry, a)
    PROVE  latest(registry, a) \in registry /\ latest(registry, a).agent_id = a
<1> DEFINE C == Candidates(registry, a)
           V == {r.version : r \in C}
<1>1. /\ C # {} /\ C \subseteq registry
      /\ \A r \in C : r.agent_id = a
  BY DEF Candidates, Registered, all_agent_ids
<1>2. V \in (SUBSET Versions) \ {{}}
  BY <1>1 DEF RegistryInv, SubAgentRegistration
<1> HIDE DEF C
<1>3. PICK last \in V :
        \A v \in V \ {last} : TextBefore(TextOf(v), TextOf(last))
  BY <1>2, VersionAssumption
<1>4. PICK r \in C : r.version = last
  BY <1>3
<1>5. \A s \in C \ {r} : s.version \in V \ {last}
  BY <1>1, <1>4 DEF RegistryInv
<1>6. \A s \in C \ {r} : TextBefore(TextOf(s.version), TextOf(r.version))
  BY <1>3, <1>4, <1>5
<1>7. latest(registry, a) \in C
  BY <1>6 DEF latest, C
<1> QED
  BY <1>1, <1>7

\* An allowed call is made by a registered agent.
LEMMA AllowedIsRegistered ==
    ASSUME NEW agent_id, NEW record, NEW purpose,
           invoke_decision(registry, agent_id, record, purpose).allowed
    PROVE  Registered(registry, agent_id)
<1>1. ~ unregistered_decision(record, purpose).allowed
  BY DEF unregistered_decision, PolicyDecision
<1> QED
  BY <1>1 DEF invoke_decision

\* Running an allowed call adds a run under a registration there is.
LEMMA RunKeepsTypes ==
    ASSUME FleetInv, TypeOK, NEW agent_id, NEW record, NEW purpose,
           NEW returned \in BOOLEAN,
           invoke_decision(registry, agent_id, record, purpose).allowed,
           ran' = RanTool(agent_id, record, purpose, returned)
    PROVE  \A i \in DOMAIN ran' :
               ran'[i].by \in registry /\ ran'[i].returned \in BOOLEAN
<1> DEFINE e == [by |-> latest(registry, agent_id), record |-> record,
                 purpose |-> purpose, returned |-> returned]
<1>1. Extended(ran', ran, e)
  BY DEF RanTool, Extended
<1>2. RegistryInv
  BY DEF TypeOK, RegistryInv
<1>3. latest(registry, agent_id) \in registry
  BY <1>2, AllowedIsRegistered, LatestIsOneOf
<1>4. e.by \in registry /\ e.returned \in BOOLEAN
  BY <1>3
<1> HIDE DEF e
<1>5. /\ IsSeq(ran') /\ Len(ran') = Len(ran) + 1
      /\ \A i \in 1..Len(ran) : ran'[i] = ran[i]
      /\ ran'[Len(ran) + 1] = e
  BY <1>1, AppendedSeq DEF FleetInv
<1>6. /\ DOMAIN ran' = 1..(Len(ran) + 1) /\ Len(ran) \in Nat
      /\ DOMAIN ran = 1..Len(ran)
  BY <1>5, SeqDomain DEF FleetInv
<1>7. \A i \in 1..(Len(ran) + 1) : i \in 1..Len(ran) \/ i = Len(ran) + 1
  BY <1>6
<1> QED
  BY <1>4, <1>5, <1>6, <1>7 DEF TypeOK

LEMMA CallKeepsTypes ==
    ASSUME FleetInv, TypeOK, NEW agent_id, NEW record, NEW purpose,
           Denied(agent_id, record, purpose) \/ Allowed(agent_id, record, purpose)
    PROVE  \A i \in DOMAIN ran' :
               ran'[i].by \in registry /\ ran'[i].returned \in BOOLEAN
<1>1. CASE Denied(agent_id, record, purpose)
  BY <1>1 DEF Denied, TypeOK
<1>2. CASE Allowed(agent_id, record, purpose)
  BY <1>2, RunKeepsTypes DEF Allowed
<1> QED
  BY <1>1, <1>2

LEMMA TypeStep == FleetInv /\ TypeOK /\ [Next]_vars => TypeOK'
<1> SUFFICES ASSUME FleetInv, TypeOK, [Next]_vars PROVE TypeOK'
  OBVIOUS
<1>1. CASE UNCHANGED vars
  BY <1>1 DEF vars, TypeOK
<1>2. ASSUME NEW new \in NewRegistrations, Register(new) PROVE TypeOK'
  <2>1. new \in SubAgentRegistration(Labels)
    BY FleetAssumption
  <2>2. \A r \in registry :
           ~ (r.agent_id = new.agent_id /\ r.version = new.version)
    BY <1>2 DEF Register, CanRegister
  <2> QED
    BY <1>2, <2>1, <2>2 DEF Register, TypeOK
<1>3. ASSUME NEW record_id \in DOMAIN Rows, NEW tool \in RegionTools,
             FleetCall(tool, get(record_id))
      PROVE  TypeOK'
  <2> DEFINE routed == [agent_id |-> tool.agent_id,
                        decision |-> invoke_decision(registry, tool.agent_id,
                                         get(record_id), tool.purpose)]
             n == Len(call_log)
  <2>1. tool.agent_id \in {r.agent_id : r \in bootstrap_default_registry}
    BY DEF RegionTools, bootstrap_default_registry, Bootstrapped
  <2>2. tool.agent_id \in AgentIds
    BY <2>1, FleetAssumption DEF SubAgentRegistration
  <2>3. routed.agent_id \in AgentIds
    BY <2>2
  <2>4. Extended(call_log', call_log, routed) /\ IsSeq(call_log)
    BY <1>3 DEF FleetCall, FleetInv, Extended
  <2> HIDE DEF routed
  <2>5. /\ IsSeq(call_log') /\ Len(call_log') = n + 1
        /\ \A i \in 1..n : call_log'[i] = call_log[i]
        /\ call_log'[n + 1] = routed
    BY <2>4, AppendedSeq
  <2>6. /\ DOMAIN call_log' = 1..(n + 1) /\ n \in Nat
        /\ DOMAIN call_log = 1..n
    BY <2>4, <2>5, SeqDomain
  <2>7. \A i \in 1..(n + 1) : i \in 1..n \/ i = n + 1
    BY <2>6
  <2>8. \A i \in DOMAIN call_log' : call_log'[i].agent_id \in AgentIds
    BY <2>3, <2>5, <2>6, <2>7 DEF TypeOK
  <2>9. \A i \in DOMAIN ran' :
           ran'[i].by \in registry /\ ran'[i].returned \in BOOLEAN
    BY <1>3, CallKeepsTypes DEF FleetCall
  <2> QED
    BY <1>3, <2>8, <2>9 DEF FleetCall, TypeOK
<1>4. ASSUME NEW record_id \in DOMAIN Rows, NEW agent_id \in AgentIds,
             NEW purpose \in Purposes,
             DirectCall(agent_id, get(record_id), purpose)
      PROVE  TypeOK'
  <2>1. \A i \in DOMAIN ran' :
           ran'[i].by \in registry /\ ran'[i].returned \in BOOLEAN
    BY <1>4, CallKeepsTypes DEF DirectCall
  <2> QED
    BY <1>4, <2>1 DEF DirectCall, TypeOK
<1>5. ASSUME NEW record_id \in DOMAIN Rows, NEW agent_id \in AgentIds,
             NEW purpose \in Purposes,
             ToolRaises(agent_id, get(record_id), purpose)
      PROVE  TypeOK'
  <2>1. \A i \in DOMAIN ran' :
           ran'[i].by \in registry /\ ran'[i].returned \in BOOLEAN
    BY <1>5, RunKeepsTypes DEF ToolRaises
  <2> QED
    BY <1>5, <2>1 DEF ToolRaises, TypeOK
<1> QED
  BY <1>1, <1>2, <1>3, <1>4, <1>5 DEF Next

\* A version keeps the registration it was declared with, and every tool ran
\* under one the registry still holds (registry/agent_registry.py, register
\* and latest).
THEOREM TypeCorrect == Spec => []TypeOK
<1>1. Init => TypeOK
  <2> SUFFICES ASSUME Init PROVE TypeOK
    OBVIOUS
  <2>1. registry \subseteq SubAgentRegistration(Labels)
    BY FleetAssumption DEF Init
  <2>2. \A r, s \in registry : r.agent_id = s.agent_id => r = s
    BY DEF Init, bootstrap_default_registry, Bootstrapped
  <2>3. DOMAIN call_log = {} /\ DOMAIN ran = {}
    BY DEF Init
  <2> QED
    BY <2>1, <2>2, <2>3 DEF TypeOK
<1> QED
  BY <1>1, TypeStep, FleetInvariant, PTL DEF Spec

\* A registered agent is allowed a row of a declared region, for a purpose of
\* the vocabulary, exactly if it is at home there.
LEMMA AllowedAtHome ==
    ASSUME RegistryInv, NEW a, Registered(registry, a),
           NEW record_id \in DOMAIN Rows, get(record_id).region \in REGIONS,
           NEW purpose \in ALLOWED_PURPOSES
    PROVE  (/\ ~ invoke_raises(registry, a, get(record_id), purpose)
            /\ invoke_decision(registry, a, get(record_id), purpose).allowed)
               <=> latest(registry, a).region = get(record_id).region
<1> DEFINE row == get(record_id)
           home == latest(registry, a).region
           req == request_of(registry, a, row, purpose)
<1>1. /\ req = [caller_region |-> home, data_region |-> row.region,
                purpose |-> purpose, record_id |-> record_id]
      /\ row.region \in Labels /\ record_id \in RecordIds
      /\ purpose \in Purposes
  BY FleetAssumption, PolicyAssumption DEF request_of, get
<1>2. home \in Labels
  BY LatestIsOneOf DEF RegistryInv, SubAgentRegistration
<1>3. Constructible(req) <=> home \in REGIONS
  BY <1>1 DEF Constructible
<1>4. invoke_raises(registry, a, row, purpose) <=> home \notin REGIONS
  BY <1>3 DEF invoke_raises
<1>5. invoke_decision(registry, a, row, purpose)
          = evaluate(DEFAULT_CLAUSES, req)
  BY DEF invoke_decision
<1> HIDE DEF row, home
<1>6. req \in RawRequest
  BY <1>1, <1>2 DEF RawRequest
<1>7. ASSUME home \in REGIONS
      PROVE  evaluate(DEFAULT_CLAUSES, req).allowed <=> home = row.region
  <2>1. req \in ToolCallRequest
    BY <1>3, <1>6, <1>7 DEF ToolCallRequest
  <2> HIDE DEF req
  <2>2. evaluate(DEFAULT_CLAUSES, req).allowed
            <=> /\ req.purpose \in ALLOWED_PURPOSES
                /\ req.caller_region = req.data_region
    BY <2>1, DefaultPolicy
  <2> QED
    BY <1>1, <2>2
<1> HIDE DEF req
<1> QED
  BY <1>4, <1>5, <1>7 DEF row, home

\* What discover answers for a row's region is what the gateway will allow
\* for the row, after any registrations (registry/agent_registry.py, discover;
\* gateway/tool_gateway.py, invoke).
THEOREM DiscoverIsEnforced == Spec => []DiscoverRoutesToAllowed
<1>1. ASSUME TypeOK PROVE DiscoverRoutesToAllowed
  <2>1. RegistryInv
    BY <1>1 DEF TypeOK, RegistryInv
  <2> SUFFICES ASSUME NEW record_id \in DOMAIN Rows,
                      NEW purpose \in ALLOWED_PURPOSES,
                      get(record_id).region \in REGIONS
               PROVE  {r.agent_id : r \in discover(registry,
                           {get(record_id).region}, Capabilities)}
                      = {a \in all_agent_ids(registry) :
                          /\ ~ invoke_raises(registry, a, get(record_id), purpose)
                          /\ invoke_decision(registry, a, get(record_id),
                                             purpose).allowed}
    BY DEF DiscoverRoutesToAllowed
  <2> DEFINE home == get(record_id).region
  <2>2. \A a \in all_agent_ids(registry) :
           /\ latest(registry, a).agent_id = a
           /\ latest(registry, a).capability \in Capabilities
    BY <2>1, LatestIsOneOf DEF Registered, RegistryInv, SubAgentRegistration
  <2>3. \A a \in all_agent_ids(registry) :
           (/\ ~ invoke_raises(registry, a, get(record_id), purpose)
            /\ invoke_decision(registry, a, get(record_id), purpose).allowed)
               <=> latest(registry, a).region = home
    BY <2>1, AllowedAtHome DEF Registered
  <2> HIDE DEF home
  <2>4. {r.agent_id : r \in discover(registry, {home}, Capabilities)}
            = {a \in all_agent_ids(registry) : latest(registry, a).region = home}
    BY <2>2 DEF discover
  <2> QED
    BY <2>3, <2>4 DEF home
<1> QED
  BY <1>1, TypeCorrect, PTL

-----------------------------------------------------------------------------
AllowsIn(log) == {j \in DOMAIN log : log[j].decision.allowed}

ReturnedIn(runs) == {i \in DOMAIN runs : runs[i].returned}

\* An allow entry of the log and the run it is about.
Fits(entry, run) ==
    /\ entry.decision.record_id = run.record.record_id
    /\ entry.decision.data_region = Rows[entry.decision.record_id]
    /\ entry.decision.caller_region = run.by.region

\* f takes each allow entry to its run, in order, and misses none that returned.
Matches(f, log, runs) ==
    /\ f \in [AllowsIn(log) -> ReturnedIn(runs)]
    /\ \A i \in ReturnedIn(runs) : \E j \in AllowsIn(log) : f[j] = i
    /\ \A j, k \in AllowsIn(log) : j < k => f[j] < f[k]
    /\ \A j \in AllowsIn(log) : Fits(log[j], runs[f[j]])

LEMMA MatchesMeans ==
    (\E f : Matches(f, entries, ran)) <=> AllowsAreRuns
<1> DEFINE A == AllowsIn(entries)
           R == ReturnedIn(ran)
<1>1. /\ A = {j \in DOMAIN entries : Decisions[j].allowed}
      /\ R = {i \in DOMAIN ran : ran[i].returned}
      /\ \A j \in A : Decisions[j] = entries[j].decision
  BY DEF AllowsIn, ReturnedIn, Decisions
<1> HIDE DEF A, R
<1>2. ASSUME NEW f, Matches(f, entries, ran) PROVE AllowsAreRuns
  <2>1. /\ f \in [A -> R] /\ DOMAIN f = A
        /\ \A i \in R : \E j \in A : f[j] = i
        /\ \A j, k \in A : j < k => f[j] < f[k]
        /\ \A j \in A : Fits(entries[j], ran[f[j]])
    BY <1>2 DEF Matches, A, R
  <2>2. f \in Surjection(A, R)
    BY <2>1 DEF Surjection
  <2>3. \A j, k \in DOMAIN f :
            /\ j < k => f[j] < f[k]
            /\ Decisions[j].record_id = ran[f[j]].record.record_id
            /\ Decisions[j].data_region = Rows[Decisions[j].record_id]
            /\ Decisions[j].caller_region = ran[f[j]].by.region
    BY <1>1, <2>1 DEF Fits
  <2> QED
    BY <1>1, <2>2, <2>3 DEF AllowsAreRuns
<1>3. ASSUME AllowsAreRuns PROVE \E f : Matches(f, entries, ran)
  <2>1. PICK f \in Surjection(A, R) :
          \A j, k \in DOMAIN f :
            /\ j < k => f[j] < f[k]
            /\ Decisions[j].record_id = ran[f[j]].record.record_id
            /\ Decisions[j].data_region = Rows[Decisions[j].record_id]
            /\ Decisions[j].caller_region = ran[f[j]].by.region
    BY <1>1, <1>3 DEF AllowsAreRuns
  <2>2. f \in [A -> R] /\ \A i \in R : \E j \in A : f[j] = i
    BY <2>1 DEF Surjection
  <2>3. \A j \in A : Fits(entries[j], ran[f[j]])
    BY <1>1, <2>1, <2>2 DEF Fits
  <2>4. Matches(f, entries, ran)
    BY <2>1, <2>2, <2>3 DEF Matches, A, R
  <2> QED
    BY <2>4
<1> QED
  BY <1>2, <1>3

\* A denial in the log changes nothing.
LEMMA MatchesDenial ==
    ASSUME NEW log, IsSeq(log), NEW e, ~ e.decision.allowed,
           NEW longer, Extended(longer, log, e),
           NEW runs, NEW f, Matches(f, log, runs)
    PROVE  Matches(f, longer, runs)
<1>1. /\ IsSeq(longer) /\ Len(longer) = Len(log) + 1 /\ Len(log) \in Nat
      /\ \A i \in 1..Len(log) : longer[i] = log[i]
      /\ longer[Len(log) + 1] = e
      /\ DOMAIN log = 1..Len(log) /\ DOMAIN longer = 1..(Len(log) + 1)
  BY AppendedSeq, SeqDomain
<1>2. \A j \in 1..(Len(log) + 1) : j \in 1..Len(log) \/ j = Len(log) + 1
  BY <1>1
<1>3. /\ AllowsIn(longer) = AllowsIn(log)
      /\ \A j \in AllowsIn(log) : longer[j] = log[j]
  BY <1>1, <1>2 DEF AllowsIn
<1> QED
  BY <1>3 DEF Matches

\* Nor does a run that raised.
LEMMA MatchesRaised ==
    ASSUME NEW runs, IsSeq(runs), NEW r, ~ r.returned,
           NEW more, Extended(more, runs, r),
           NEW log, NEW f, Matches(f, log, runs)
    PROVE  Matches(f, log, more)
<1>1. /\ IsSeq(more) /\ Len(more) = Len(runs) + 1 /\ Len(runs) \in Nat
      /\ \A i \in 1..Len(runs) : more[i] = runs[i]
      /\ more[Len(runs) + 1] = r
      /\ DOMAIN runs = 1..Len(runs) /\ DOMAIN more = 1..(Len(runs) + 1)
  BY AppendedSeq, SeqDomain
<1>2. \A i \in 1..(Len(runs) + 1) : i \in 1..Len(runs) \/ i = Len(runs) + 1
  BY <1>1
<1>3. /\ ReturnedIn(more) = ReturnedIn(runs)
      /\ \A i \in ReturnedIn(runs) : more[i] = runs[i]
  BY <1>1, <1>2 DEF ReturnedIn
<1>4. \A j \in AllowsIn(log) : f[j] \in ReturnedIn(runs)
  BY DEF Matches
<1> QED
  BY <1>3, <1>4 DEF Matches

\* An allowed call whose tool returns adds one of each.
LEMMA MatchesBoth ==
    ASSUME NEW log, IsSeq(log), NEW runs, IsSeq(runs),
           NEW e, e.decision.allowed, NEW longer, Extended(longer, log, e),
           NEW r, r.returned, NEW more, Extended(more, runs, r),
           Fits(e, r), NEW f, Matches(f, log, runs)
    PROVE  \E g : Matches(g, longer, more)
<1> DEFINE n == Len(log)
           m == Len(runs)
           A == AllowsIn(log)
           R == ReturnedIn(runs)
           g == [j \in A \union {n + 1} |-> IF j = n + 1 THEN m + 1 ELSE f[j]]
<1>1. /\ n \in Nat /\ m \in Nat
      /\ DOMAIN log = 1..n /\ DOMAIN runs = 1..m
      /\ DOMAIN longer = 1..(n + 1) /\ DOMAIN more = 1..(m + 1)
      /\ \A j \in 1..n : longer[j] = log[j]
      /\ \A i \in 1..m : more[i] = runs[i]
      /\ longer[n + 1] = e /\ more[m + 1] = r
  <2>1. /\ IsSeq(longer) /\ Len(longer) = n + 1
        /\ \A j \in 1..n : longer[j] = log[j]
        /\ longer[n + 1] = e
    BY AppendedSeq
  <2>2. /\ IsSeq(more) /\ Len(more) = m + 1
        /\ \A i \in 1..m : more[i] = runs[i]
        /\ more[m + 1] = r
    BY AppendedSeq
  <2> QED
    BY <2>1, <2>2, SeqDomain
<1>2. /\ f \in [A -> R]
      /\ \A i \in R : \E j \in A : f[j] = i
      /\ \A j, k \in A : j < k => f[j] < f[k]
      /\ \A j \in A : Fits(log[j], runs[f[j]])
  BY DEF Matches
<1>3. /\ A \subseteq 1..n /\ R \subseteq 1..m
  BY <1>1 DEF AllowsIn, ReturnedIn
<1> HIDE DEF n, m
<1>4. /\ \A j \in 1..n : j \in Nat /\ j # n + 1 /\ j < n + 1
                         /\ j \in 1..(n + 1)
      /\ \A i \in 1..m : i \in Nat /\ i # m + 1 /\ i < m + 1
                         /\ i \in 1..(m + 1)
      /\ n + 1 \in 1..(n + 1) /\ m + 1 \in 1..(m + 1)
      /\ \A j \in 1..(n + 1) : j \in 1..n \/ j = n + 1
      /\ \A i \in 1..(m + 1) : i \in 1..m \/ i = m + 1
      /\ ~ (n + 1 < n + 1) /\ \A j \in 1..n : ~ (n + 1 < j)
  BY <1>1
<1>5. /\ AllowsIn(longer) = A \union {n + 1}
      /\ ReturnedIn(more) = R \union {m + 1}
  BY <1>1, <1>4 DEF AllowsIn, ReturnedIn
<1> HIDE DEF A, R
<1>6. /\ g[n + 1] = m + 1
      /\ \A j \in A : g[j] = f[j] /\ f[j] \in R
  BY <1>2, <1>3, <1>4
<1>7. g \in [A \union {n + 1} -> R \union {m + 1}]
  BY <1>2
<1> HIDE DEF g
<1>8. \A i \in R \union {m + 1} : \E j \in A \union {n + 1} : g[j] = i
  BY <1>2, <1>6
<1>9. ASSUME NEW j \in A \union {n + 1}, NEW k \in A \union {n + 1}, j < k
      PROVE  g[j] < g[k]
  <2>1. j \in A
    BY <1>3, <1>4, <1>9
  <2>2. CASE k \in A
    BY <1>2, <1>6, <1>9, <2>1, <2>2
  <2>3. CASE k = n + 1
    BY <1>3, <1>4, <1>6, <2>1, <2>3
  <2> QED
    BY <2>2, <2>3
<1>10. ASSUME NEW j \in A \union {n + 1}
       PROVE  Fits(longer[j], more[g[j]])
  <2>1. CASE j \in A
    <3>1. longer[j] = log[j] /\ g[j] = f[j] /\ more[f[j]] = runs[f[j]]
      BY <1>1, <1>3, <1>6, <2>1
    <3> QED
      BY <1>2, <2>1, <3>1
  <2>2. CASE j = n + 1
    BY <1>1, <1>6, <2>2
  <2> QED
    BY <2>1, <2>2
<1> QED
  BY <1>5, <1>7, <1>8, <1>9, <1>10 DEF Matches

\* What the entry of an allowed call says is what its run was.
LEMMA AllowedFits ==
    ASSUME NEW agent_id, NEW record_id, NEW purpose, NEW e,
           e.decision = invoke_decision(registry, agent_id,
                                        get(record_id), purpose),
           e.decision.allowed
    PROVE  Fits(e, [by |-> latest(registry, agent_id),
                    record |-> get(record_id),
                    purpose |-> purpose, returned |-> TRUE])
<1> DEFINE req == request_of(registry, agent_id, get(record_id), purpose)
           home == latest(registry, agent_id)
<1>1. e.decision = evaluate(DEFAULT_CLAUSES, req)
  BY AllowedIsRegistered DEF invoke_decision
<1>2. /\ req.caller_region = home.region
      /\ req.data_region = Rows[record_id] /\ req.record_id = record_id
      /\ get(record_id).record_id = record_id
  BY DEF request_of, get
<1> HIDE DEF req, home
<1>3. /\ e.decision.caller_region = req.caller_region
      /\ e.decision.data_region = req.data_region
      /\ e.decision.record_id = req.record_id
  BY <1>1 DEF evaluate, DefaultDeny, ClauseDecision, PolicyDecision
<1> QED
  BY <1>2, <1>3 DEF Fits, home

LEMMA CallKeepsMatch ==
    ASSUME FleetInv, AllowsAreRuns, NEW agent_id, NEW record_id, NEW purpose,
           \/ Denied(agent_id, get(record_id), purpose)
           \/ Allowed(agent_id, get(record_id), purpose)
    PROVE  \E g : Matches(g, entries', ran')
<1> DEFINE decision == invoke_decision(registry, agent_id,
                                       get(record_id), purpose)
           e == next_entry(entries, decision)
           r == [by |-> latest(registry, agent_id), record |-> get(record_id),
                 purpose |-> purpose, returned |-> TRUE]
<1>1. PICK f : Matches(f, entries, ran)
  BY MatchesMeans
<1>2. Extended(entries', entries, e)
  BY DEF Denied, Allowed, append_decision, Extended
<1>3. e.decision = decision
  BY DEF next_entry, Hashed
<1>4. IsSeq(entries) /\ IsSeq(ran)
  BY DEF FleetInv
<1>5. CASE Denied(agent_id, get(record_id), purpose)
  <2>1. ~ decision.allowed /\ ran' = ran
    BY <1>5 DEF Denied
  <2> HIDE DEF decision, e
  <2>2. Matches(f, entries', ran)
    BY <1>1, <1>2, <1>3, <1>4, <2>1, MatchesDenial
  <2> QED
    BY <2>1, <2>2
<1>6. CASE Allowed(agent_id, get(record_id), purpose)
  <2>1. decision.allowed /\ Extended(ran', ran, r)
    BY <1>6 DEF Allowed, RanTool, Extended
  <2>2. Fits(e, r) /\ r.returned
    BY <1>3, <2>1, AllowedFits
  <2> HIDE DEF decision, e, r
  <2> QED
    BY <1>1, <1>2, <1>3, <1>4, <2>1, <2>2, MatchesBoth
<1> QED
  BY <1>5, <1>6

LEMMA MatchesMeansNext ==
    ASSUME NEW f, Matches(f, entries', ran') PROVE AllowsAreRuns'
<1> DEFINE A == AllowsIn(entries')
           R == ReturnedIn(ran')
<1>1. /\ A = {j \in DOMAIN entries' : Decisions'[j].allowed}
      /\ R = {i \in DOMAIN ran' : ran'[i].returned}
      /\ \A j \in A : Decisions'[j] = entries'[j].decision
  BY DEF AllowsIn, ReturnedIn, Decisions
<1> HIDE DEF A, R
<1>2. /\ f \in [A -> R] /\ DOMAIN f = A
      /\ \A i \in R : \E j \in A : f[j] = i
      /\ \A j, k \in A : j < k => f[j] < f[k]
      /\ \A j \in A : Fits(entries'[j], ran'[f[j]])
  BY DEF Matches, A, R
<1>3. f \in Surjection(A, R)
  BY <1>2 DEF Surjection
<1>4. \A j, k \in DOMAIN f :
          /\ j < k => f[j] < f[k]
          /\ Decisions'[j].record_id = ran'[f[j]].record.record_id
          /\ Decisions'[j].data_region = Rows[Decisions'[j].record_id]
          /\ Decisions'[j].caller_region = ran'[f[j]].by.region
  BY <1>1, <1>2 DEF Fits
<1> QED
  BY <1>1, <1>3, <1>4 DEF AllowsAreRuns

LEMMA MatchStep ==
    FleetInv /\ AllowsAreRuns /\ [Next]_vars => AllowsAreRuns'
<1> SUFFICES ASSUME FleetInv, AllowsAreRuns, [Next]_vars PROVE AllowsAreRuns'
  OBVIOUS
<1>1. CASE UNCHANGED <<entries, ran>>
  <2>1. entries' = entries /\ ran' = ran
    BY <1>1
  <2>2. PICK f : Matches(f, entries, ran)
    BY MatchesMeans
  <2>3. Matches(f, entries', ran')
    BY <2>1, <2>2
  <2> QED
    BY <2>3, MatchesMeansNext
<1>2. ASSUME NEW record_id \in DOMAIN Rows, NEW tool \in RegionTools,
             FleetCall(tool, get(record_id))
      PROVE  AllowsAreRuns'
  BY <1>2, CallKeepsMatch, MatchesMeansNext DEF FleetCall
<1>3. ASSUME NEW record_id \in DOMAIN Rows, NEW agent_id \in AgentIds,
             NEW purpose \in Purposes,
             DirectCall(agent_id, get(record_id), purpose)
      PROVE  AllowsAreRuns'
  BY <1>3, CallKeepsMatch, MatchesMeansNext DEF DirectCall
<1>4. ASSUME NEW record_id \in DOMAIN Rows, NEW agent_id \in AgentIds,
             NEW purpose \in Purposes,
             ToolRaises(agent_id, get(record_id), purpose)
      PROVE  AllowsAreRuns'
  <2> DEFINE r == [by |-> latest(registry, agent_id),
                   record |-> get(record_id),
                   purpose |-> purpose, returned |-> FALSE]
  <2>1. PICK f : Matches(f, entries, ran)
    BY MatchesMeans
  <2>2. /\ Extended(ran', ran, r) /\ ~ r.returned
        /\ entries' = entries /\ IsSeq(ran)
    BY <1>4 DEF ToolRaises, RanTool, Extended, FleetInv
  <2> HIDE DEF r
  <2>3. Matches(f, entries, ran')
    BY <2>1, <2>2, MatchesRaised
  <2>4. Matches(f, entries', ran')
    BY <2>2, <2>3
  <2> QED
    BY <2>4, MatchesMeansNext
<1> QED
  BY <1>1, <1>2, <1>3, <1>4 DEF Next, Register, vars

\* The allow entries of the log are the runs that returned, one for one and in
\* order, each with the row's own label and the region of the registration it
\* ran under (gateway/tool_gateway.py, invoke and _finish).
THEOREM LogTellsTheRuns == Spec => []AllowsAreRuns
<1>1. Init => AllowsAreRuns
  <2> SUFFICES ASSUME Init PROVE AllowsAreRuns
    OBVIOUS
  <2>1. AllowsIn(entries) = {} /\ ReturnedIn(ran) = {}
    BY DEF Init, AllowsIn, ReturnedIn
  <2>2. Matches([i \in {} |-> i], entries, ran)
    BY <2>1 DEF Matches
  <2> QED
    BY <2>2, MatchesMeans
<1> QED
  BY <1>1, MatchStep, FleetInvariant, PTL DEF Spec
=============================================================================
