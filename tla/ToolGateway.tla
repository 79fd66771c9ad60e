----------------------------- MODULE ToolGateway -----------------------------
(***************************************************************************)
(* gateway/tool_gateway.py: what ToolGateway.invoke decides for a call.    *)
(* Running the tool and appending to the log are steps of the modules that *)
(* use this one, since a tool may raise between them.  Spans are left out: *)
(* they carry what the decision already says.                              *)
(***************************************************************************)
EXTENDS PolicyEngine, AgentRegistry, DecisionLog

\* A row with the residency label of the storage layer.  The content never
\* reaches the policy and is left out.
DataRecord == [record_id : RecordIds, region : Labels]

Registered(registry, agent_id) == agent_id \in all_agent_ids(registry)

request_of(registry, agent_id, record, purpose) ==
    [caller_region |-> latest(registry, agent_id).region,
     data_region |-> record.region,
     purpose |-> purpose, record_id |-> record.record_id]

\* ToolCallRequest(...) raises ValueError out of invoke: nothing runs and
\* nothing is logged.
invoke_raises(registry, agent_id, record, purpose) ==
    /\ Registered(registry, agent_id)
    /\ ~ Constructible(request_of(registry, agent_id, record, purpose))

unregistered_decision(record, purpose) ==
    PolicyDecision(FALSE, "SOV-998-UNREGISTERED-AGENT",
                   [caller_region |-> "UNKNOWN", data_region |-> record.region,
                    purpose |-> purpose, record_id |-> record.record_id])

\* Fault: the caller's region is taken from the row it asks for.
decision_trusting_row(registry, agent_id, record, purpose) ==
    evaluate(DEFAULT_CLAUSES,
             [caller_region |-> record.region, data_region |-> record.region,
              purpose |-> purpose, record_id |-> record.record_id])

invoke_decision(registry, agent_id, record, purpose) ==
    IF Registered(registry, agent_id)
    THEN evaluate(DEFAULT_CLAUSES,
                  request_of(registry, agent_id, record, purpose))
    ELSE unregistered_decision(record, purpose)
=============================================================================
