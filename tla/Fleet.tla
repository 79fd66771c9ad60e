-------------------------------- MODULE Fleet --------------------------------
(***************************************************************************)
(* One process of the program: its registry, its record store, its gateway *)
(* with the decision log, and the region tools of agent/fleet.py that the  *)
(* model-driven sub-agents call.  Calls come from a region tool or straight*)
(* to gateway.invoke, as the job's batch makes them, in any order, while   *)
(* registrations are added.  The process is single-threaded, so a call is  *)
(* one step; a tool that raises ends its call before the verdict is logged.*)
(***************************************************************************)
EXTENDS ToolGateway, FiniteSets, SequencesExt

CONSTANTS
    Rows,               \* the record store: record id -> residency label
    NewRegistrations,   \* what may be registered after the bootstrap
    MaxCalls            \* bound on the calls that reach the gateway

ASSUME FleetAssumption == /\ DOMAIN Rows \subseteq RecordIds
                          /\ {"summarize", "support"} \subseteq Purposes
                          /\ bootstrap_default_registry \union NewRegistrations
                                 \subseteq SubAgentRegistration(Labels)

VARIABLES
    registry,
    entries,    \* decision_log.entries
    call_log,   \* the fleet's RoutedCalls
    ran         \* history: the tool runs, with the registration they ran under

vars == <<registry, entries, call_log, ran>>

\* RecordStore.get; an unknown id raises, and the tool answers DENIED without
\* a call, so only stored rows reach the gateway.
get(record_id) == [record_id |-> record_id, region |-> Rows[record_id]]

\* The tools of build_fleet: the sub-agent each is bound to, and its purpose.
RegionTools == {[agent_id |-> "eu-summarizer", purpose |-> "summarize"],
                [agent_id |-> "us-summarizer", purpose |-> "summarize"],
                [agent_id |-> "us-support", purpose |-> "support"]}

Init == /\ registry = bootstrap_default_registry
        /\ entries = <<>>
        /\ call_log = <<>>
        /\ ran = <<>>

Register(new) ==
    /\ CanRegister(registry, new)
    /\ registry' = registry \union {new}
    /\ UNCHANGED <<entries, call_log, ran>>

\* The calls made so far that reached a verdict.
Calls == Len(entries) + Len(SelectSeq(ran, LAMBDA run : ~ run.returned))

Evaluated(agent_id, record, purpose) ==
    /\ Calls < MaxCalls
    /\ ~ invoke_raises(registry, agent_id, record, purpose)

RanTool(agent_id, record, purpose, returned) ==
    Append(ran, [by |-> latest(registry, agent_id), record |-> record,
                 purpose |-> purpose, returned |-> returned])

\* Fault: the tool is run before the verdict is looked at.
DeniedAfterRun(agent_id, record, purpose) ==
    LET decision == invoke_decision(registry, agent_id, record, purpose)
    IN  /\ Evaluated(agent_id, record, purpose)
        /\ ~ decision.allowed
        /\ entries' = append_decision(entries, decision)
        /\ ran' = IF Registered(registry, agent_id)
                  THEN RanTool(agent_id, record, purpose, TRUE) ELSE ran

\* _finish: the denial is logged and the tool is not run.
Denied(agent_id, record, purpose) ==
    LET decision == invoke_decision(registry, agent_id, record, purpose)
    IN  /\ Evaluated(agent_id, record, purpose)
        /\ ~ decision.allowed
        /\ entries' = append_decision(entries, decision)
        /\ UNCHANGED ran

\* The tool runs and returns; only then is the verdict logged.
Allowed(agent_id, record, purpose) ==
    LET decision == invoke_decision(registry, agent_id, record, purpose)
    IN  /\ Evaluated(agent_id, record, purpose)
        /\ decision.allowed
        /\ ran' = RanTool(agent_id, record, purpose, TRUE)
        /\ entries' = append_decision(entries, decision)

\* Fault: the failed call is recorded as routed.
ToolRaises_routed(agent_id, record, purpose) ==
    LET decision == invoke_decision(registry, agent_id, record, purpose)
    IN  /\ Evaluated(agent_id, record, purpose)
        /\ decision.allowed
        /\ ran' = RanTool(agent_id, record, purpose, FALSE)
        /\ call_log' = Append(call_log, [agent_id |-> agent_id,
                                         decision |-> decision])
        /\ UNCHANGED <<registry, entries>>

\* The tool raises out of invoke: the record has reached the tool, and neither
\* the log nor the call log hears of it.
ToolRaises(agent_id, record, purpose) ==
    /\ Evaluated(agent_id, record, purpose)
    /\ invoke_decision(registry, agent_id, record, purpose).allowed
    /\ ran' = RanTool(agent_id, record, purpose, FALSE)
    /\ UNCHANGED <<registry, entries, call_log>>

DirectCall(agent_id, record, purpose) ==
    /\ Denied(agent_id, record, purpose) \/ Allowed(agent_id, record, purpose)
    /\ UNCHANGED <<registry, call_log>>

FleetCall(tool, record) ==
    /\ \/ Denied(tool.agent_id, record, tool.purpose)
       \/ Allowed(tool.agent_id, record, tool.purpose)
    /\ call_log' = Append(call_log,
            [agent_id |-> tool.agent_id,
             decision |-> invoke_decision(registry, tool.agent_id,
                                          record, tool.purpose)])
    /\ UNCHANGED registry

Next ==
    \/ \E new \in NewRegistrations : Register(new)
    \/ \E record_id \in DOMAIN Rows :
          \/ \E tool \in RegionTools : FleetCall(tool, get(record_id))
          \/ \E agent_id \in AgentIds, purpose \in Purposes :
                \/ DirectCall(agent_id, get(record_id), purpose)
                \/ ToolRaises(agent_id, get(record_id), purpose)

Spec == Init /\ [][Next]_vars

-----------------------------------------------------------------------------
Decisions == [i \in DOMAIN entries |-> entries[i].decision]

\* The state is well formed, and the registry never holds two registrations
\* under one agent id and version, so that a version keeps the region it was
\* declared with (registry/agent_registry.py, register).
TypeOK ==
    /\ registry \subseteq SubAgentRegistration(Labels)
    /\ \A r, s \in registry :
          r.agent_id = s.agent_id /\ r.version = s.version => r = s
    /\ \A i \in DOMAIN call_log : call_log[i].agent_id \in AgentIds
    /\ \A i \in DOMAIN ran :
          ran[i].by \in registry /\ ran[i].returned \in BOOLEAN

\* Every record a tool ever saw lay in the region its sub-agent was registered
\* with when the call was made, under a purpose of the vocabulary, whatever
\* was registered before or since (gateway/tool_gateway.py, invoke).
ResidencyHeld ==
    \A i \in DOMAIN ran :
        /\ ran[i].record.region = ran[i].by.region
        /\ ran[i].purpose \in ALLOWED_PURPOSES

\* The allow entries of the log are the completed tool runs, one for one and
\* in order, with the row's own label: nothing ran under a denial, and no
\* allowed call is logged twice or out of order (gateway/tool_gateway.py).
AllowsAreRuns ==
    \E f \in Surjection({j \in DOMAIN entries : Decisions[j].allowed},
                        {i \in DOMAIN ran : ran[i].returned}) :
        \A j, k \in DOMAIN f :
            /\ j < k => f[j] < f[k]
            /\ Decisions[j].record_id = ran[f[j]].record.record_id
            /\ Decisions[j].data_region = Rows[Decisions[j].record_id]
            /\ Decisions[j].caller_region = ran[f[j]].by.region

\* What the fleet reports as routed is, in order, part of what the log holds:
\* a call the log never saw is never reported (agent/fleet.py, _tool).
RoutedCallsAreLogged ==
    \E f \in [DOMAIN call_log -> DOMAIN entries] :
        \A i, j \in DOMAIN call_log :
            /\ call_log[i].decision = Decisions[f[i]]
            /\ i < j => f[i] < f[j]

\* discover answers what the gateway enforces: for a row of a declared region
\* the agents discover names for that region are exactly those a call for it
\* is allowed through, however versions have moved an agent between regions
\* (registry/agent_registry.py, discover and latest; gateway/tool_gateway.py).
DiscoverRoutesToAllowed ==
    \A record_id \in DOMAIN Rows, purpose \in ALLOWED_PURPOSES :
        LET row == get(record_id)
        IN  row.region \in REGIONS =>
              {r.agent_id : r \in discover(registry, {row.region}, Capabilities)}
              = {a \in all_agent_ids(registry) :
                    /\ ~ invoke_raises(registry, a, row, purpose)
                    /\ invoke_decision(registry, a, row, purpose).allowed}

\* Claimed by README.md: every verdict, allow or deny, is in the log, so every
\* record a tool was given has an allow entry (gateway/tool_gateway.py).
EveryVerdictIsLogged ==
    \A i \in DOMAIN ran :
        \E j \in DOMAIN entries :
            /\ Decisions[j].allowed
            /\ Decisions[j].record_id = ran[i].record.record_id

\* Claimed by the class docstring: latest resolves the highest version seen
\* for an agent id (registry/agent_registry.py).
LatestIsHighest ==
    \A r \in registry :
        ~ NumberBefore(latest(registry, r.agent_id).version, r.version)
=============================================================================
