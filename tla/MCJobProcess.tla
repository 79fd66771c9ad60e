---------------------------- MODULE MCJobProcess ----------------------------
(* One local process after the other, each with an environment in which     *)
(* either the credentials or the tracing part is anything at all.           *)
EXTENDS JobProcess

CONSTANTS p1, w1

MCREGIONS == {"EU", "US"}
MCALLOWED == {"support", "analytics", "summarize", "billing"}
MCRecordIds == DOMAIN build_record_store
MCAgentIds == {"eu-summarizer", "us-summarizer", "us-support"}
MCCapabilities == {"summarize", "support"}
MCVersions == {<<1, 0, 0>>}
MCRunOf == [r \in Runners |-> w1]

Sound == [enterprise |-> "unset", vertexai |-> "unset", project |-> FALSE,
          api_key |-> TRUE, backend |-> "local", trace_export |-> FALSE,
          exporter |-> "works", bucket |-> FALSE]

MCEnvironments ==
    {[Sound EXCEPT !.enterprise = c.enterprise, !.vertexai = c.vertexai,
                   !.project = c.project, !.api_key = c.api_key] :
        c \in CredentialEnv}
    \union
    {[Sound EXCEPT !.backend = t.backend, !.trace_export = t.trace_export,
                   !.exporter = t.exporter] : t \in TracingEnv}
=============================================================================
