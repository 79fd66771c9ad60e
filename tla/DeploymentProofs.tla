--------------------------- MODULE DeploymentProofs ---------------------------
(***************************************************************************)
(* The tick of JobTick where it is deployed: inside the processes of       *)
(* job/main.py, in whatever environments they are started with, and under  *)
(* the bucket roles of infra/deploy.sh.                                    *)
(***************************************************************************)
EXTENDS JobProcess, JobRoles, JobTickProofs

-----------------------------------------------------------------------------
(* What a process does, seen as a step of the tick.                        *)

\* A process that dies ends its tick.
LEMMA DyingEnds ==
    ASSUME TickInv, NEW r \in Runners, Dies(r), UNCHANGED <<artifact, ran, faults>>
    PROVE  Ends(r)
BY DEF Ends, TickInv, TypeOK

LEMMA ProcessNextIsAnyStep ==
    ASSUME TickInv, [ProcessNext]_allVars
    PROVE  [AnyStep(BucketOverwrite)]_vars
<1> SUFFICES ASSUME NEW r \in Runners,
                    \/ MainStep(r)
                    \/ Start(r) \/ MainAgain(r) \/ ProcessExit(r)
                    \/ ModelFails(r) \/ ProcessCrash(r)
             PROVE  StepAs(r, BucketOverwrite) \/ Ends(r) \/ UNCHANGED vars
  BY DEF ProcessNext, AnyStep, allVars
<1>1. CASE ConfigureCloudTrace(r) \/ BuildBackends(r) \/ AskModel(r)
  BY <1>1 DEF ConfigureCloudTrace, BuildBackends, AskModel
<1>2. CASE Start(r) \/ MainAgain(r)
  BY <1>2 DEF Start, MainAgain
<1>3. CASE NoBucket(r) \/ NoCredentials(r) \/ ProcessExit(r)
  BY <1>3, DyingEnds DEF NoBucket, NoCredentials, ProcessExit, Raises
<1>4. CASE TickStep(r)
  BY <1>4 DEF TickStep, Step
<1>5. CASE ToolAnswered(r)
  BY <1>5 DEF ToolAnswered, StepAs
<1>6. CASE MainReturns(r)
  BY <1>6 DEF MainReturns, StepAs
<1>7. CASE ModelFails(r) \/ ProcessCrash(r)
  BY <1>7, JobAssumption
  DEF ModelFails, ProcessCrash, ToolRaises, Ends, TickInv, TypeOK
<1> QED
  BY <1>1, <1>2, <1>3, <1>4, <1>5, <1>6, <1>7 DEF MainStep

\* What holds of the tick holds of it inside a process.
LEMMA TickInvariantInProcess == ProcessSpec => []TickInv
<1>1. ProcessInit => TickInv
  BY TickInvInit DEF ProcessInit
<1>2. TickInv /\ [ProcessNext]_allVars => TickInv'
  BY TickInvStep, ProcessNextIsAnyStep
<1> QED
  BY <1>1, <1>2, PTL DEF ProcessSpec

\* Whatever the environments, a process completes a run only with its whole
\* artifact, and reports only a run that is complete and stored: in the cloud
\* next to any other process, locally where no other process works on the same
\* run (job/main.py, main; job/tick.py).
THEOREM ProcessRunsAreStored ==
    ASSUME Backend = "gcp" \/ SoleRunners
    PROVE  ProcessSpec => [](CompleteHasArtifact /\ ReturnedIsDurable)
<1>1. CASE Backend = "gcp"
  <2>1. ProcessInit => CloudInv
    BY CloudInvInit DEF ProcessInit
  <2>2. CloudInv /\ [ProcessNext]_allVars => CloudInv'
    BY <1>1, CloudInvStep, ProcessNextIsAnyStep DEF CloudInv
  <2>3. CloudInv => CompleteHasArtifact /\ ReturnedIsDurable
    BY DEF CloudInv
  <2> QED
    BY <2>1, <2>2, <2>3, PTL DEF ProcessSpec
<1>2. CASE Backend = "local" /\ SoleRunners
  <2>1. ProcessInit => LocalInv
    BY <1>2, LocalInvInit DEF ProcessInit
  <2>2. LocalInv /\ [ProcessNext]_allVars => LocalInv'
    BY <1>2, LocalInvStep, ProcessNextIsAnyStep DEF LocalInv
  <2>3. LocalInv => CompleteHasArtifact /\ ReturnedIsDurable
    BY <1>2, LocalMeans
  <2> QED
    BY <2>1, <2>2, <2>3, PTL DEF ProcessSpec
<1> QED
  BY <1>1, <1>2, JobAssumption

-----------------------------------------------------------------------------
(* The bucket roles.                                                       *)

\* Under either role a step is one of the tick, as that role has it.
LEMMA RoleNextIsAnyStep ==
    ASSUME TickInv, [RoleNext]_roleVars
    PROVE  /\ role' = role
           /\ role = "objectAdmin" => [AnyStep(TRUE)]_vars
           /\ role # "objectAdmin" => [AnyStep(FALSE)]_vars
<1>1. CASE UNCHANGED roleVars
  BY <1>1 DEF roleVars
<1>2. ASSUME NEW r \in Runners,
             \/ StepAs(r, role = "objectAdmin") /\ UNCHANGED role
             \/ ToolRaises(r) /\ UNCHANGED role
             \/ Crash(r) /\ UNCHANGED role
      PROVE  /\ role' = role
             /\ role = "objectAdmin" => [AnyStep(TRUE)]_vars
             /\ role # "objectAdmin" => [AnyStep(FALSE)]_vars
  <2>1. ToolRaises(r) \/ Crash(r) => Ends(r)
    BY JobAssumption DEF ToolRaises, Crash, Ends, TickInv, TypeOK
  <2>2. CASE role = "objectAdmin"
    <3>1. StepAs(r, role = "objectAdmin") => StepAs(r, TRUE)
      BY <2>2 DEF StepAs, UploadArtifact, UploadRefused, CanWrite
    <3> QED
      BY <1>2, <2>1, <2>2, <3>1 DEF AnyStep
  <2>3. CASE role # "objectAdmin"
    <3>1. StepAs(r, role = "objectAdmin") => StepAs(r, FALSE)
      BY <2>3 DEF StepAs, UploadArtifact, UploadRefused, CanWrite
    <3> QED
      BY <1>2, <2>1, <2>3, <3>1 DEF AnyStep
  <2> QED
    BY <2>2, <2>3
<1> QED
  BY <1>1, <1>2 DEF RoleNext

LEMMA TickInvariantUnderRoles == RoleSpec => []TickInv
<1>1. RoleInit => TickInv
  BY TickInvInit DEF RoleInit
<1>2. TickInv /\ [RoleNext]_roleVars => TickInv'
  BY TickInvStep, RoleNextIsAnyStep
<1> QED
  BY <1>1, <1>2, PTL DEF RoleSpec

LEMMA CloudInvariantUnderRoles ==
    ASSUME Backend = "gcp" PROVE RoleSpec => []CloudInv
<1>1. RoleInit => CloudInv
  BY CloudInvInit DEF RoleInit
<1>2. CloudInv /\ [RoleNext]_roleVars => CloudInv'
  BY CloudInvStep, RoleNextIsAnyStep DEF CloudInv
<1> QED
  BY <1>1, <1>2, PTL DEF RoleSpec

\* Whichever role the deployment leaves the job with, a complete or returned
\* run is stored and its allowed calls ran, its record is final, its artifact
\* does not change what it says, only a crash leaves one without a mark, and
\* the tick keeps what a run promises (job/tick.py, run_job_tick;
\* infra/deploy.sh).
THEOREM RolesKeepPromise ==
    ASSUME Backend = "gcp"
    PROVE  RoleSpec => /\ [](CompleteHasArtifact /\ ReturnedIsDurable)
                       /\ []CompleteRanAllowed
                       /\ CompleteIsFinal
                       /\ RewritesAgree /\ StrandedOnlyByCrash
                       /\ PromiseKept
<1>1. CloudInv => /\ CompleteHasArtifact /\ ReturnedIsDurable
                  /\ CompleteRanAllowed
  BY DEF CloudInv, CompleteHasArtifact, ArtifactInv, CompleteRanAllowed
<1>2. CloudInv /\ [RoleNext]_roleVars =>
        [\A s \in Stores, w \in Runs :
            Complete(s, w) => runs'[s][w] = runs[s][w]]_vars
  BY StepIsFinal, RoleNextIsAnyStep DEF CloudInv
<1>3. CloudInv /\ [RoleNext]_roleVars =>
        [\A w \in Runs : artifact[w].state = "whole" =>
            artifact'[w].state = "whole" /\ Shown(w)' = Shown(w)]_vars
  BY StepRewrites, RoleNextIsAnyStep DEF CloudInv
<1>4. CloudInv /\ [RoleNext]_roleVars =>
        [\A w \in Runs : Stranded(w)' /\ ~ Stranded(w) =>
            \E r \in Runners : /\ RunOf[r] = w
                               /\ pc[r] = "mark" /\ pc'[r] = "idle"]_vars
  BY StepStrands, RoleNextIsAnyStep DEF CloudInv
<1>5. RoleInit => Promise!Init
  BY PromiseInit DEF RoleInit
<1>6. CloudInv /\ [RoleNext]_roleVars => [Promise!Next]_(Promise!vars)
  BY PromiseStep, RoleNextIsAnyStep DEF CloudInv
<1> QED
  BY <1>1, <1>2, <1>3, <1>4, <1>5, <1>6, CloudInvariantUnderRoles, PTL
  DEF RoleSpec, CompleteIsFinal, RewritesAgree, StrandedOnlyByCrash,
      PromiseKept, Promise!Spec

-----------------------------------------------------------------------------
(* Tracing, credentials and answers, whatever the environments.            *)

\* The environments, and what the tracing part of a process has done: it has
\* registered one exporter where it has set a provider, and none elsewhere.
TracingInv ==
    /\ env \in [Runners -> Environments]
    /\ stage \in [Runners -> {"off", "tracing", "backends", "tick", "done"}]
    /\ provider \in [Runners -> Providers]
    /\ exporters \in [Runners -> Nat]
    /\ \A r \in Runners : stage[r] = "off" => provider[r] = "proxy"
    /\ OneExporter

\* The tick of a process runs while main is in it, and a tool that has sent
\* its record has a credential for it.
AskingInv ==
    /\ asked \in [Runners -> BOOLEAN]
    /\ \A r \in Runners :
          /\ pc[r] # "idle" => stage[r] = "tick"
          /\ asked[r] => pc[r] = "tool" /\ ClientHasCredential(env[r])

AnswerInv ==
    /\ answered \in [Runners -> SUBSET DOMAIN Batch]
    /\ NoInventedSummary

ProcessInv == TracingInv /\ AskingInv /\ AnswerInv

\* Before the first process.
LEMMA ProcessInvInit ==
    ASSUME ProcessInit
    PROVE  ProcessInv
<1>1. NoEnv \in Environments
  BY EnvironmentAssumption DEF NoEnv
<1>2. TracingInv
  BY <1>1 DEF ProcessInit, TracingInv, Providers, OneExporter
<1>3. AskingInv
  BY DEF ProcessInit, Init, AskingInv
<1>4. AnswerInv
  BY DEF ProcessInit, Init, AnswerInv, NoInventedSummary
<1> QED
  BY <1>2, <1>3, <1>4 DEF ProcessInv

\* The gate of the tools and the client agree on whether the environment has
\* a credential for the mode the client picks.
LEMMA GateIsSound ==
    ASSUME NEW e \in Environment
    PROVE  require_credentials(e) <=> ClientHasCredential(e)
BY DEF Environment, ModeValues, require_credentials, vertex_mode_requested,
       ClientHasCredential, ClientUsesVertex

\* A process that is gone has nothing left to vouch for.
LEMMA GoneKeeps ==
    ASSUME TickInv, ProcessInv,
           NEW r \in Runners, Goto(r, "idle"), log' = [log EXCEPT ![r] = <<>>],
           Gone(r)
    PROVE  ProcessInv'
<1>1. NoEnv \in Environments
  BY EnvironmentAssumption DEF NoEnv
<1>2. TracingInv'
  BY <1>1 DEF Gone, Reach, ProcessInv, TracingInv, Providers, OneExporter
<1>3. /\ pc'[r] = "idle" /\ log'[r] = <<>>
      /\ \A q \in Runners \ {r} : pc'[q] = pc[q] /\ log'[q] = log[q]
  BY DEF Goto, TickInv, TypeOK
<1>4. AskingInv'
  BY <1>3 DEF Gone, Reach, ProcessInv, AskingInv, TracingInv
<1>5. AnswerInv'
  BY <1>3 DEF Gone, ProcessInv, AnswerInv, NoInventedSummary
<1> QED
  BY <1>2, <1>4, <1>5 DEF ProcessInv

\* Main goes on outside the tick, as far as tracing allows.
LEMMA MainMovesOn ==
    ASSUME TickInv, ProcessInv, NEW r \in Runners,
           NEW label \in {"tracing", "backends", "tick", "done"},
           pc'[r] = "idle", Reach(r, label),
           \A q \in Runners \ {r} : pc'[q] = pc[q],
           TracingInv', AnswerInv', ~ asked[r], UNCHANGED asked,
           \A q \in Runners \ {r} : env'[q] = env[q]
    PROVE  ProcessInv'
<1>1. \A q \in Runners \ {r} : stage'[q] = stage[q]
  BY DEF Reach, ProcessInv, TracingInv
<1>2. AskingInv'
  BY <1>1 DEF ProcessInv, AskingInv
<1> QED
  BY <1>2 DEF ProcessInv

\* A process that is not in a tool has asked nothing.
LEMMA AskedInTool ==
    ASSUME ProcessInv, NEW r \in Runners, stage[r] # "tick" \/ pc[r] # "tool"
    PROVE  ~ asked[r] /\ (stage[r] # "tick" => pc[r] = "idle")
BY DEF ProcessInv, AskingInv

\* Starting a process, and main being called again.
LEMMA StartingKeeps ==
    ASSUME TickInv, ProcessInv, NEW r \in Runners, Start(r) \/ MainAgain(r)
    PROVE  ProcessInv'
<1>1. /\ Reach(r, "tracing") /\ UNCHANGED <<pc, log, exporters, asked, answered>>
      /\ stage[r] \in {"off", "done"}
  BY DEF Start, MainAgain, vars
<1>2. ~ asked[r] /\ pc'[r] = "idle"
  BY <1>1, AskedInTool
<1>3. AnswerInv'
  BY <1>1 DEF ProcessInv, AnswerInv, NoInventedSummary
<1>4. TracingInv' /\ \A q \in Runners \ {r} : env'[q] = env[q]
  <2>1. CASE Start(r)
    <3>1. PICK e \in Environments, p \in {"proxy", "other"} :
             /\ env' = [env EXCEPT ![r] = e]
             /\ provider' = [provider EXCEPT ![r] = p]
      BY <2>1 DEF Start
    <3>2. exporters[r] = 0
      BY <2>1 DEF Start, ProcessInv, TracingInv, OneExporter
    <3> QED
      BY <1>1, <3>1, <3>2
      DEF Reach, ProcessInv, TracingInv, Providers, OneExporter
  <2>2. CASE MainAgain(r)
    BY <1>1, <2>2 DEF MainAgain, Reach, ProcessInv, TracingInv, OneExporter
  <2> QED
    BY <2>1, <2>2
<1> QED
  BY <1>1, <1>2, <1>3, <1>4, MainMovesOn

\* Tracing registers an exporter only where there is no provider yet.
LEMMA TracingKeeps ==
    ASSUME TickInv, ProcessInv, NEW r \in Runners,
           ConfigureCloudTrace(r) \/ BuildBackends(r)
    PROVE  ProcessInv'
<1>1. PICK label \in {"backends", "tick"} : Reach(r, label)
  BY DEF ConfigureCloudTrace, BuildBackends
<1>2. /\ UNCHANGED <<pc, log, env, asked, answered>>
      /\ stage[r] \in {"tracing", "backends"}
  BY DEF ConfigureCloudTrace, BuildBackends, vars
<1>3. ~ asked[r] /\ pc'[r] = "idle"
  BY <1>2, AskedInTool
<1>4. AnswerInv'
  BY <1>2 DEF ProcessInv, AnswerInv, NoInventedSummary
<1>5. TracingInv'
  <2>1. CASE UNCHANGED <<exporters, provider>>
    BY <1>1, <1>2, <2>1 DEF Reach, ProcessInv, TracingInv, OneExporter
  <2>2. CASE ~ UNCHANGED <<exporters, provider>>
    <3>1. /\ registers(env[r], provider[r])
          /\ exporters' = [exporters EXCEPT ![r] = Count(exporters[r])]
          /\ provider' = [provider EXCEPT ![r] = "cloud"]
      BY <2>2 DEF ConfigureCloudTrace, BuildBackends
    <3>2. exporters[r] = 0
      BY <3>1 DEF registers, ProcessInv, TracingInv, OneExporter
    <3>3. Count(exporters[r]) = 1
      BY <3>2, CapAssumption DEF Count
    <3>4. exporters' = [exporters EXCEPT ![r] = 1]
      BY <3>1, <3>3
    <3> QED
      BY <1>1, <1>2, <3>1, <3>4
      DEF Reach, ProcessInv, TracingInv, Providers, OneExporter
  <2> QED
    BY <2>1, <2>2
<1> QED
  BY <1>1, <1>2, <1>3, <1>4, <1>5, MainMovesOn

\* A tick that is over returns from main, its log and its answers gone.
LEMMA ReturningKeeps ==
    ASSUME TickInv, ProcessInv, NEW r \in Runners, MainReturns(r)
    PROVE  ProcessInv'
<1>1. /\ Reach(r, "done") /\ UNCHANGED <<env, provider, exporters, asked>>
      /\ pc[r] \in {"skipped", "returned"} /\ Goto(r, "idle")
      /\ log' = [log EXCEPT ![r] = <<>>]
      /\ answered' = [answered EXCEPT ![r] = {}]
  BY DEF MainReturns, Return
<1>2. /\ pc'[r] = "idle" /\ log'[r] = <<>>
      /\ \A q \in Runners \ {r} : pc'[q] = pc[q] /\ log'[q] = log[q]
  BY <1>1 DEF Goto, TickInv, TypeOK
<1>3. ~ asked[r]
  BY <1>1, AskedInTool
<1>4. AnswerInv'
  BY <1>1, <1>2 DEF ProcessInv, AnswerInv, NoInventedSummary
<1>5. TracingInv'
  BY <1>1 DEF Reach, ProcessInv, TracingInv, OneExporter
<1> QED
  BY <1>1, <1>2, <1>3, <1>4, <1>5, MainMovesOn

\* A step of the tick itself that logs an allowed call only if the model has
\* answered it, and leaves no record with the model.
LEMMA TickKeeps ==
    ASSUME TickInv, ProcessInv, NEW r \in Runners, stage[r] = "tick",
           NEW label, Goto(r, label), ~ asked'[r],
           asked' \in {asked, [asked EXCEPT ![r] = FALSE]},
           answered' \in [Runners -> SUBSET DOMAIN Batch],
           \A q \in Runners : answered[q] \subseteq answered'[q],
           \A q \in Runners \ {r} : log'[q] = log[q],
           \A i \in DOMAIN log'[r] :
              log'[r][i].decision.allowed => i \in answered'[r],
           UNCHANGED <<env, stage, provider, exporters>>
    PROVE  ProcessInv'
<1>1. \A q \in Runners \ {r} : pc'[q] = pc[q] /\ asked'[q] = asked[q]
  BY DEF Goto, TickInv, TypeOK, ProcessInv, AskingInv
<1>2. TracingInv'
  BY DEF ProcessInv, TracingInv, OneExporter
<1>3. AskingInv'
  BY <1>1 DEF ProcessInv, AskingInv
<1>4. AnswerInv'
  BY DEF ProcessInv, AnswerInv, NoInventedSummary
<1> QED
  BY <1>2, <1>3, <1>4 DEF ProcessInv

\* What the log looks like after the next decision.
LEMMA LoggedDomain ==
    ASSUME TickInv, NEW r \in Runners, LogDecision(r), NextCall(r) \in DOMAIN Batch
    PROVE  /\ \A q \in Runners \ {r} : log'[q] = log[q]
           /\ \A i \in DOMAIN log'[r] :
                 \/ i \in DOMAIN log[r] /\ log'[r][i] = log[r][i]
                 \/ i = NextCall(r) /\ log'[r][i].decision = Decision(i)
<1> DEFINE new == append_decision(log[r], Decision(NextCall(r)))
<1>1. log[r] \in Seq(Elements(log[r])) /\ DOMAIN log = Runners
  BY DEF TickInv, TypeOK
<1>2. log'[r] = new /\ \A q \in Runners \ {r} : log'[q] = log[q]
  BY <1>1 DEF LogDecision
<1>3. /\ new \in Seq(Elements(new))
      /\ Len(new) = Len(log[r]) + 1
      /\ \A i \in 1..Len(log[r]) : new[i] = log[r][i]
      /\ new[Len(log[r]) + 1] = next_entry(log[r], Decision(NextCall(r)))
  BY <1>1, AppendAdds
<1>4. next_entry(log[r], Decision(NextCall(r))).decision = Decision(NextCall(r))
  BY DEF next_entry, Hashed
<1> HIDE DEF new
<1>5. \A i \in DOMAIN new : i \in DOMAIN log[r] \/ i = NextCall(r)
  BY <1>1, <1>3 DEF NextCall
<1>6. DOMAIN log[r] = 1..Len(log[r])
  BY <1>1
<1> QED
  BY <1>2, <1>3, <1>4, <1>5, <1>6 DEF NextCall

\* The tick's own steps, among which only a refused upload ends the process.
LEMMA TickStepKeeps ==
    ASSUME TickInv, ProcessInv, NEW r \in Runners, TickStep(r)
    PROVE  ProcessInv'
<1>1. /\ stage[r] = "tick" /\ pc[r] \notin {"tool", "skipped", "returned"}
      /\ StepAs(r, BucketOverwrite)
      /\ pc'[r] = "idle" => Gone(r)
      /\ pc'[r] # "idle" => UNCHANGED processVars
  BY DEF TickStep, Step
<1>2. ~ asked[r] /\ pc \in [Runners -> Labels_pc]
  BY <1>1, AskedInTool DEF TickInv, TypeOK
<1>3. ASSUME NEW label \in Labels_pc \ {"idle"}, Goto(r, label), UNCHANGED log
      PROVE  ProcessInv'
  <2>1. UNCHANGED processVars
    BY <1>1, <1>2, <1>3 DEF Goto
  <2> QED
    BY <1>1, <1>2, <1>3, <2>1, TickKeeps
    DEF processVars, ProcessInv, AnswerInv, NoInventedSummary
<1>4. CASE \/ ClaimGranted(r) \/ ClaimRefused(r) \/ RunTool(r)
           \/ UploadArtifact(r, BucketOverwrite) \/ TruncateArtifact(r)
           \/ FillArtifact(r) \/ MarkComplete(r)
  BY <1>3, <1>4 DEF ClaimGranted, ClaimRefused, RunTool, UploadArtifact,
                    TruncateArtifact, FillArtifact, MarkComplete, Labels_pc
<1>5. CASE InvokeDenied(r)
  <2>1. /\ LogDecision(r) /\ NextCall(r) \in DOMAIN Batch
        /\ ~ Decision(NextCall(r)).allowed
        /\ pc[r] = "batch" /\ pc' = pc
    BY <1>5 DEF InvokeDenied, InBatch
  <2>2. UNCHANGED processVars /\ Goto(r, "batch")
    BY <1>1, <1>2, <2>1 DEF Goto
  <2>3. \A i \in DOMAIN log'[r] :
           log'[r][i].decision.allowed => i \in answered[r]
    BY <2>1, LoggedDomain DEF ProcessInv, AnswerInv, NoInventedSummary
  <2> QED
    BY <1>1, <1>2, <2>1, <2>2, <2>3, LoggedDomain, TickKeeps
    DEF processVars, ProcessInv, AnswerInv
<1>6. CASE UploadRefused(r, BucketOverwrite)
  BY <1>1, <1>2, <1>6, GoneKeeps DEF UploadRefused, Dies, Goto
<1>7. ~ ToolReturns(r) /\ ~ Return(r)
  BY <1>1 DEF ToolReturns, Return
<1> QED
  BY <1>1, <1>4, <1>5, <1>6, <1>7 DEF StepAs

\* The record leaves for the model behind the gate.
LEMMA AskingKeeps ==
    ASSUME TickInv, ProcessInv, NEW r \in Runners, AskModel(r)
    PROVE  ProcessInv'
<1>1. /\ pc[r] = "tool" /\ require_credentials(env[r])
      /\ asked' = [asked EXCEPT ![r] = TRUE]
      /\ UNCHANGED <<pc, log, env, stage, provider, exporters, answered>>
  BY DEF AskModel, vars
<1>2. ClientHasCredential(env[r])
  BY <1>1, GateIsSound, EnvironmentAssumption DEF ProcessInv, TracingInv
<1>3. TracingInv'
  BY <1>1 DEF ProcessInv, TracingInv, OneExporter
<1>4. AskingInv'
  BY <1>1, <1>2 DEF ProcessInv, AskingInv
<1>5. AnswerInv'
  BY <1>1 DEF ProcessInv, AnswerInv, NoInventedSummary
<1> QED
  BY <1>3, <1>4, <1>5 DEF ProcessInv

\* A call is logged as allowed on an answer that is a text.
LEMMA AnsweringKeeps ==
    ASSUME TickInv, ProcessInv, NEW r \in Runners, ToolAnswered(r)
    PROVE  ProcessInv'
<1>1. /\ asked[r] /\ ToolReturns(r)
      /\ asked' = [asked EXCEPT ![r] = FALSE]
      /\ UNCHANGED <<env, stage, provider, exporters>>
  BY DEF ToolAnswered
<1>2. answered' = [answered EXCEPT ![r] = answered[r] \union {NextCall(r)}]
  BY DEF ToolAnswered, Answers, generate_returns
<1>3. /\ pc[r] = "tool" /\ stage[r] = "tick" /\ asked \in [Runners -> BOOLEAN]
      /\ answered \in [Runners -> SUBSET DOMAIN Batch]
  BY <1>1 DEF ProcessInv, AskingInv, AnswerInv
<1>4. LogDecision(r) /\ Goto(r, "batch") /\ NextCall(r) \in DOMAIN Batch
  BY <1>1, <1>3 DEF ToolReturns, TickInv, ControlInv, AllowedCalls
<1>5. /\ answered' \in [Runners -> SUBSET DOMAIN Batch]
      /\ \A q \in Runners : answered[q] \subseteq answered'[q]
      /\ NextCall(r) \in answered'[r]
  BY <1>2, <1>3, <1>4
<1>6. \A i \in DOMAIN log'[r] :
         log'[r][i].decision.allowed => i \in answered'[r]
  BY <1>4, <1>5, LoggedDomain DEF ProcessInv, AnswerInv, NoInventedSummary
<1>7. ~ asked'[r]
  BY <1>1, <1>3
<1> QED
  BY <1>1, <1>3, <1>4, <1>5, <1>6, <1>7, LoggedDomain, TickKeeps

LEMMA ProcessInvStep ==
    ASSUME TickInv, ProcessInv, [ProcessNext]_allVars
    PROVE  ProcessInv'
<1>1. CASE UNCHANGED allVars
  BY <1>1 DEF allVars, vars, processVars, ProcessInv, TracingInv, AskingInv,
              AnswerInv, OneExporter, NoInventedSummary
<1>2. ASSUME NEW r \in Runners,
             \/ Raises(r) \/ ModelFails(r) \/ ProcessCrash(r)
      PROVE  ProcessInv'
  BY <1>2, GoneKeeps DEF Raises, ModelFails, ProcessCrash, ToolRaises, Dies
<1>3. ASSUME NEW r \in Runners, MainStep(r)
      PROVE  ProcessInv'
  <2>1. NoBucket(r) \/ NoCredentials(r) => Raises(r)
    BY DEF NoBucket, NoCredentials
  <2> QED
    BY <1>2, <1>3, <2>1, TracingKeeps, TickStepKeeps, AskingKeeps,
       AnsweringKeeps, ReturningKeeps DEF MainStep
<1>4. ASSUME NEW r \in Runners, Start(r) \/ MainAgain(r) \/ ProcessExit(r)
      PROVE  ProcessInv'
  BY <1>2, <1>4, StartingKeeps DEF ProcessExit
<1> QED
  BY <1>1, <1>2, <1>3, <1>4 DEF ProcessNext

LEMMA ProcessInvariant == ProcessSpec => [](TickInv /\ ProcessInv)
<1>1. ProcessInit => ProcessInv
  BY ProcessInvInit
<1>2. TickInv /\ ProcessInv /\ [ProcessNext]_allVars => ProcessInv'
  BY ProcessInvStep
<1> QED
  BY <1>1, <1>2, TickInvariantInProcess, PTL DEF ProcessSpec

\* The shape of the state of job/main.py, for any environments.
THEOREM ProcessTypeCorrect == ProcessSpec => []ProcessTypeOK
<1>1. ASSUME TickInv, ProcessInv PROVE ProcessTypeOK
  <2>1. TypeOK
    BY <1>1 DEF TickInv
  <2>2. exporters \in [Runners -> 0..Cap]
    <3>1. \A r \in Runners : exporters[r] \in {0, 1}
      BY <1>1 DEF ProcessInv, TracingInv, OneExporter
    <3>2. {0, 1} \subseteq 0..Cap
      BY CapAssumption
    <3> QED
      BY <1>1, <3>1, <3>2 DEF ProcessInv, TracingInv
  <2> QED
    BY <1>1, <2>1, <2>2
    DEF ProcessInv, TracingInv, AskingInv, AnswerInv, ProcessTypeOK
<1> QED
  BY <1>1, ProcessInvariant, PTL

\* No log of any tick holds an allow entry for a call the model did not
\* answer with a text (agent/tools.py, _generate; gateway/tool_gateway.py).
THEOREM NothingInvented == ProcessSpec => []NoInventedSummary
<1>1. ProcessInv => NoInventedSummary
  BY DEF ProcessInv, AnswerInv
<1> QED
  BY <1>1, ProcessInvariant, PTL

\* A record's content leaves a process only for an allowed call and only with
\* a credential for the mode the client picks (agent/tools.py,
\* _require_credentials and _generate).
THEOREM ContentNeedsCredential == ProcessSpec => []SentWithCredential
<1>1. TickInv /\ ProcessInv => SentWithCredential
  BY DEF ProcessInv, AskingInv, TickInv, ControlInv, SentWithCredential
<1> QED
  BY <1>1, ProcessInvariant, PTL

\* However often main runs in a process, it registers one exporter, and none
\* beside a provider it did not set (job/tracing_setup.py,
\* configure_cloud_trace).
THEOREM ExportersStaySingle == ProcessSpec => []OneExporter
<1>1. ProcessInv => OneExporter
  BY DEF ProcessInv, TracingInv
<1> QED
  BY <1>1, ProcessInvariant, PTL
=============================================================================
