----------------------------- MODULE JobProcess -----------------------------
(***************************************************************************)
(* main of job/main.py, from the start of a process to its end: tracing,   *)
(* backends, and the tick of JobTick, whose tools ask the model.  What a   *)
(* process can do depends on the environment it was started with, which    *)
(* may be incomplete.  A process may run main more than once; its tracer   *)
(* provider and its MemoryBackend outlive each of them.                    *)
(***************************************************************************)
EXTENDS JobMain, ModelTools, TracingSetup

CONSTANT Environments   \* the environments processes are started with

Environment ==
    [enterprise : ModeValues, vertexai : ModeValues, project : BOOLEAN,
     api_key : BOOLEAN, backend : {"gcp", "local"}, trace_export : BOOLEAN,
     exporter : {"missing", "broken", "works"},
     bucket : BOOLEAN]          \* SOVEREIGN_GCS_BUCKET

\* The processes that get as far as a tick use the one Backend.
ASSUME EnvironmentAssumption ==
    /\ Environments # {} /\ Environments \subseteq Environment
    /\ \A e \in Environments :
          e.backend = Backend \/ (e.backend = "gcp" /\ ~ e.bucket)

VARIABLES
    env,        \* the environment of each process
    stage,      \* how far main has come, or "off" without a process
    provider,   \* the tracer provider of each process
    exporters,  \* how many exporters a process has registered
    asked,      \* whether the current tool has sent its record to the model
    answered    \* history: the calls of a tick the model gave a text for

processVars == <<env, stage, provider, exporters, asked, answered>>

allVars == <<vars, processVars>>

NoEnv == CHOOSE e \in Environments : TRUE

ProcessInit ==
    /\ Init
    /\ env = [r \in Runners |-> NoEnv]
    /\ stage = [r \in Runners |-> "off"]
    /\ provider = [r \in Runners |-> "proxy"]
    /\ exporters = [r \in Runners |-> 0]
    /\ asked = [r \in Runners |-> FALSE]
    /\ answered = [r \in Runners |-> {}]

Reach(r, label) == stage' = [stage EXCEPT ![r] = label]

\* A process starts; something else may have set a provider before main runs.
Start(r) ==
    /\ stage[r] = "off"
    /\ \E e \in Environments, p \in {"proxy", "other"} :
          /\ env' = [env EXCEPT ![r] = e]
          /\ provider' = [provider EXCEPT ![r] = p]
    /\ Reach(r, "tracing")
    /\ UNCHANGED <<vars, exporters, asked, answered>>

\* main is called again in the same process.
MainAgain(r) ==
    /\ stage[r] = "done"
    /\ Reach(r, "tracing")
    /\ UNCHANGED <<vars, env, provider, exporters, asked, answered>>

\* Without a process there is nothing to remember.
Gone(r) ==
    /\ env' = [env EXCEPT ![r] = NoEnv]
    /\ Reach(r, "off")
    /\ provider' = [provider EXCEPT ![r] = "proxy"]
    /\ exporters' = [exporters EXCEPT ![r] = 0]
    /\ asked' = [asked EXCEPT ![r] = FALSE]
    /\ answered' = [answered EXCEPT ![r] = {}]

\* An exception nobody catches ends the process.
Raises(r) == Dies(r) /\ Gone(r) /\ UNCHANGED <<artifact, ran, faults>>

\* Fault: an exporter that cannot be built takes the job down.
ConfigureCloudTrace_raises(r) ==
    /\ stage[r] = "tracing"
    /\ IF gcp_mode_requested(env[r]) /\ env[r].exporter = "broken"
       THEN Raises(r)
       ELSE Reach(r, "backends")
            /\ UNCHANGED <<vars, env, provider, exporters, asked, answered>>

ConfigureCloudTrace(r) ==
    /\ stage[r] = "tracing"
    /\ Reach(r, "backends")
    /\ IF registers(env[r], provider[r])
       THEN /\ exporters' = [exporters EXCEPT ![r] = Count(@)]
            /\ provider' = [provider EXCEPT ![r] = "cloud"]
       ELSE UNCHANGED <<exporters, provider>>
    /\ UNCHANGED <<vars, env, asked, answered>>

BuildBackends(r) ==
    /\ stage[r] = "backends"
    /\ env[r].backend = "gcp" => env[r].bucket
    /\ Reach(r, "tick")
    /\ UNCHANGED <<vars, env, provider, exporters, asked, answered>>

\* os.environ["SOVEREIGN_GCS_BUCKET"] raises KeyError, before any claim.
NoBucket(r) ==
    /\ stage[r] = "backends"
    /\ env[r].backend = "gcp" /\ ~ env[r].bucket
    /\ Raises(r)

\* The steps of the tick that have nothing to do with the model; a refused
\* upload is the one among them that raises.
TickStep(r) ==
    /\ stage[r] = "tick"
    /\ pc[r] \notin {"tool", "skipped", "returned"}
    /\ Step(r)
    /\ IF pc'[r] = "idle" THEN Gone(r) ELSE UNCHANGED processVars

\* The tool of an allowed call passes the credential gate, and the record's
\* content leaves for the model.
AskModel(r) ==
    /\ pc[r] = "tool" /\ ~ asked[r]
    /\ require_credentials(env[r])
    /\ asked' = [asked EXCEPT ![r] = TRUE]
    /\ UNCHANGED <<vars, env, stage, provider, exporters, answered>>

\* MissingModelCredentials leaves the tool, the gateway, the tick and main.
NoCredentials(r) ==
    /\ pc[r] = "tool" /\ ~ asked[r]
    /\ ~ require_credentials(env[r])
    /\ Raises(r)

\* The model answers, and generate has something to return.
ToolAnswered(r) ==
    /\ asked[r]
    /\ \E answer \in Answers :
          /\ generate_returns(answer)
          /\ answered' = IF answer = "text"
                         THEN [answered EXCEPT ![r] = @ \union {NextCall(r)}]
                         ELSE answered
    /\ ToolReturns(r)
    /\ asked' = [asked EXCEPT ![r] = FALSE]
    /\ UNCHANGED <<env, stage, provider, exporters>>

\* The answer is empty, or the request fails.
ModelFails(r) == asked[r] /\ ToolRaises(r) /\ Gone(r)

\* main returns 0.
MainReturns(r) ==
    /\ Return(r)
    /\ Reach(r, "done")
    /\ answered' = [answered EXCEPT ![r] = {}]
    /\ UNCHANGED <<env, provider, exporters, asked>>

\* The process ends, and its claims with it.
ProcessExit(r) == stage[r] = "done" /\ Raises(r)

ProcessCrash(r) ==
    /\ stage[r] # "off"
    /\ faults < MaxFaults
    /\ faults' = faults + 1
    /\ Dies(r) /\ Gone(r)
    /\ UNCHANGED <<artifact, ran>>

\* What main does by itself.
MainStep(r) ==
    \/ ConfigureCloudTrace(r) \/ BuildBackends(r) \/ NoBucket(r)
    \/ TickStep(r) \/ AskModel(r) \/ NoCredentials(r) \/ ToolAnswered(r)
    \/ MainReturns(r)

ProcessNext ==
    \E r \in Runners : \/ MainStep(r)
                       \/ Start(r) \/ MainAgain(r) \/ ProcessExit(r)
                       \/ ModelFails(r) \/ ProcessCrash(r)

\* A process that was started keeps running, and a request to the model comes
\* back, with an answer or an error.
ProcessFairness == \A r \in Runners : WF_allVars(MainStep(r))

ProcessSpec == ProcessInit /\ [][ProcessNext]_allVars /\ ProcessFairness

-----------------------------------------------------------------------------
ProcessTypeOK ==
    /\ TypeOK
    /\ env \in [Runners -> Environments]
    /\ stage \in [Runners -> {"off", "tracing", "backends", "tick", "done"}]
    /\ provider \in [Runners -> Providers]
    /\ exporters \in [Runners -> 0..Cap]
    /\ asked \in [Runners -> BOOLEAN]
    /\ answered \in [Runners -> SUBSET DOMAIN Batch]

\* Every allow verdict in a tick's log, and so in the artifact it writes, is
\* of a call the model answered: an empty answer, a missing credential or a
\* failed request never turns into an entry (agent/tools.py, _generate:
\* refusing to record a summary that does not exist).
NoInventedSummary ==
    \A r \in Runners : \A i \in DOMAIN log[r] :
        log[r][i].decision.allowed => i \in answered[r]

\* The content of a record leaves the process only for an allowed call, and
\* only if the client has a credential for the mode it picks by itself from
\* the same environment (agent/tools.py, _require_credentials and _generate).
SentWithCredential ==
    \A r \in Runners :
        asked[r] => /\ NextCall(r) \in AllowedCalls
                    /\ ClientHasCredential(env[r])

\* A process registers one exporter at most, however often main runs in it,
\* and none next to a provider of somebody else (job/tracing_setup.py,
\* configure_cloud_trace).
OneExporter ==
    \A r \in Runners :
        exporters[r] = IF provider[r] = "cloud" THEN 1 ELSE 0

Usable(e) == /\ ClientHasCredential(e)
             /\ e.backend = "gcp" => e.bucket

\* When no more faults come, a process that is started with a bucket, where
\* it needs one, and a credential brings its tick to an end, whatever the
\* tracing part of its environment is like (job/tracing_setup.py: a missing
\* or broken exporter must never take down the job).
UsableProcessReturns ==
    \A r \in Runners :
        (stage[r] = "tracing" /\ Usable(env[r]) /\ faults = MaxFaults)
            ~> (stage[r] = "done")
=============================================================================
