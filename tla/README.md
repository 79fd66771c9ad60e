# A TLA+ verification of Sovereign

Sovereign puts one gateway between a fleet of agents and the tools they call.
An agent is registered with a residency region, a row carries a residency
label, and a small policy decides from those two labels and a purpose whether
the call may run. Verdicts go to a hash-chained log. A Cloud Run job sends a
batch of calls through the gateway and stores the log as the artifact of its
run, idempotently by run id.

This directory holds TLA+ modules that model that code, the TLC
configurations that check them on small instances, and TLAPS proofs of the
properties that matter most for every value of the constants. Paths below are
relative to the repository root.

## The system: components, state, operations

| Component | State | Operations | What makes it correct |
|---|---|---|---|
| Policy engine, `policy/engine.py` | none (a tuple of clauses) | `ToolCallRequest(...)`, `evaluate` | the first clause that fires decides; no clause means denied; no order or deletion of the shipped clauses lets a row cross regions |
| Agent registry, `registry/agent_registry.py` | `(agent_id, version)` to registration | `register`, `latest`, `discover`, `all_agent_ids` | a registered version keeps its region; `discover` names the agents the gateway would let through |
| Record store, `registry/record_store.py` | record id to row | `get` | a label comes from storage only |
| Tool gateway, `gateway/tool_gateway.py` | refers to registry, engine, log | `invoke`, `_finish` | a denied call never runs its tool; the allow entries of the log are the tool runs, in order |
| Decision log, `audit/decision_log.py` | entries, and optionally a file | `append_decision`, `verify`, `_save`, `_load` | an entry that was chained to cannot be altered unnoticed; the file is the memory |
| Fleet region tools, `agent/fleet.py` | `call_log` | one tool per sub-agent | what is reported as routed is in the log |
| Tool functions, `agent/tools.py` | none (the environment) | `summarize_record`, `support_lookup`, `_require_credentials`, `_generate` | no record leaves without a credential, no answer is invented |
| Tracing set-up, `job/tracing_setup.py` | the process's tracer provider | `configure_cloud_trace` | one exporter at most, and never the end of a job |
| Job entry point, `job/main.py` | the process's `MemoryBackend` | `main`, `build_backends`, `demo_batch` | with a usable environment a started process ends its tick |
| Job tick, `job/tick.py` | none of its own; claim store and artifacts are shared between processes | `run_job_tick` | a run that is complete has its whole, verified artifact, for good; every run completes |
| Idempotency backends, `agentspine/idempotency.py` | run id to record | `claim`, `mark_rejected`, `mark_complete` | each operation atomic, `complete` final, no claim uncounted |
| Shared tick, `agentspine/job.py`, `agentspine/validator.py` | none of its own | `run_tick` | a vetoed run has no artifact; a complete one has all of them |
| Artifact backends, `agentspine/artifacts.py` | files or objects | `write`, `read`, `exists`, `list_prefix` | a readable artifact is a whole one |
| Demos, `demo_local.py`, `api/index.py` | list of tool runs; a directory that may be shared | `main`, one run per web request | no assertion fails; the artifact is the batch of the tick |
| Deployment, `infra/deploy.sh` | roles, two jobs, two schedules | | decides how many processes share a run, retries, and whether an object may be replaced |

Calls go one way: main → tracing set-up, tick; job or region tool → gateway →
registry, engine, tool, log; tool → model; tick → claim store, gateway,
artifact store, claim store; run_tick → claim store, validator, artifact
function, claim store; demo → gateway, tick. What makes the code
hard is that a process may die between any two of the tick's steps, that a
claim is not a lock (two processes may hold one run), that a tool may raise
between the verdict and its log entry, that two stores are written one after
the other without a transaction over both, and that the order of clauses, of
versions and of checks carries the meaning, that a Firestore claim is a
transaction that may conflict, be run again and be given up, and that the
environment of a process may be incomplete.

The full list of hazards, each at its line and with the properties that cover
it, is in `PROJECT.json` under `hazards`.

## Modules

```
PolicyEngine --- PolicyWalk --- MCPolicyWalk
     |   \------ PolicyProofs,     \-- WalkProofs
     |
ToolGateway --- Fleet --- MCFleet
     |  (also       \---- FleetProofs
     |   AgentRegistry,
     |   DecisionLog --- DecisionLogFile --- LogFileProofs)
     |
     |------ JobTick --- JobMain --- MCJobTick --- MCJobCloud (also JobRoles)
     |       |  |  \        \------ JobProcess --- MCJobProcess
     |       |  |   \               (also ModelTools, TracingSetup)
     |       |  |    \-- JobTickProofs --- DeploymentProofs
     |       |  |                          (also JobRoles, JobProcess)
     |       |  \-- JobRoles
     |       | refines RunPromise
     |------ DemoLocal --- MCDemoLocal
     |               \---- DemoProofs
     |
  Idempotency --- FirestoreClaim --- RunTick --- MCRunTick
             \--- ClaimPromise          | \----- RunTickProofs
                      refined by -------/
```

* **PolicyEngine**: requests, clauses and `evaluate` as operators. A clause is
  data (an identifier and a function from requests to verdicts), so every
  clause list is in the model.
* **PolicyWalk**: `evaluate` as the loop the code runs, one predicate per step,
  with the request's own constructor check as its first step.
* **AgentRegistry**: the registry as a set of registrations. `latest` compares
  versions as text, character by character, as Python compares the strings.
* **DecisionLog**: hashing, linking, appending, `verify`. SHA-256 is a
  constructor and so is injective. One decision stands for all hashed fields
  of an entry except `seq` and `prev_hash`.
* **DecisionLogFile**: a log with a path. Each append first truncates the file
  and then writes it; a crash, a reload, and an alteration of memory or file
  (with or without a recomputed hash) may come anywhere. The alterations are
  those of `tests/test_decision_log.py` and `demo_local.py`.
* **ToolGateway**: what `invoke` decides. Running the tool and appending are
  left to its users, because a raising tool separates them.
* **Fleet**: one process with registry, rows, gateway, log and region tools,
  with calls in any order from tools and from the job. The process is
  single-threaded, so a call is one step, or one failed step if its tool
  raises.
* **Idempotency**: the claim store's operations on one record, each of them
  atomic.
* **ClaimPromise**: what a claim store promises its callers, as an abstract
  specification: claim is one step that answers what the record calls for, and
  a record changes only by a claim or by a mark of a caller whose claim was
  granted. `MemoryBackend`, which holds its lock across each operation, is
  this word for word.
* **FirestoreClaim**: `FirestoreBackend` with the transaction of `claim` taken
  apart. The document is read; later the write is committed unless somebody
  wrote the document in between; then the function is run again, and after
  `MaxAttempts` attempts the claim raises. Marks are plain updates. Firestore
  is external: a commit fails when what was read has changed, which is what
  its transactions mean; whether the server locks or checks only rules some
  interleavings out.
* **RunTick**: `run_tick` of `agentspine/job.py` over that store, by any
  number of processes that may crash: claim, validator, veto or artifacts,
  mark. The validator's verdict is a function of the run, as
  `agentspine/validator.py` asks; `artifact_fn` writes `Parts` artifacts, one
  step each.
* **JobTick**: `run_job_tick` by any number of processes. Its steps are the
  points between which a process can die or be overtaken: claim, each denied
  call, each tool call and its return, the write (two steps on a local disk,
  opening the file and writing the text), the mark, the return. In the cloud all processes share the claim store; in
  local mode each has one that dies with it. `BucketOverwrite` says whether
  the bucket's role may replace an object.
* **JobRoles**: the cloud job under either bucket role, the deployed
  `objectCreator` or one that may replace objects, chosen at the start.
* **JobMain**: the rows, the batch and the fleet of `job/main.py`.
* **ModelTools**: `agent/tools.py`: which mode the environment asks for,
  whether its credential is there, and what becomes of the model's answer; and
  beside it what the client library makes of the same environment.
* **TracingSetup**: when `configure_cloud_trace` registers an exporter.
* **JobProcess**: `main` of `job/main.py` from the start of a process to its
  end, the tick in its middle, in any environment of a given set. The tool of
  `JobTick` becomes the credential gate, the request and the answer. A process
  may run `main` again, with the provider and the claims of the first time.
* **DemoLocal**: `demo_local.py`, and the web process that runs it once per
  request: three calls with their assertions, a tick with a gateway of its
  own, the tick again, a tampered log, the artifact read back. Processes may
  share `DEMO_ARTIFACT_DIR` and may be killed. Their writes may overlap: after
  two opens, the second text lands on the first, and if it is the shorter one
  the file is the two together, which is no JSON. The entries carry
  `time.time()`, whose text varies in length, so `Overlaid` leaves open which
  is longer. The text is written at once, as it is far smaller than the file
  object's buffer.
* **RunPromise**: the abstract specification. Permitted calls are executed,
  then the artifact is published, then the run is done, and nothing is taken
  back. No processes, claims, attempts or crashes.
* **PolicyProofs, WalkProofs, FleetProofs, LogFileProofs, JobTickProofs,
  DeploymentProofs, DemoProofs, RunTickProofs**: the theorems.
  `DeploymentProofs` is about the tick where it runs: under either bucket role
  and inside the processes of `JobProcess`.

Operators whose comment starts with "Fault:" are not part of any
specification. Each is the body a definition below it would have after a
plausible mistake, and is there to show that a property notices the mistake.

### State and code

`JobTick`: `pc[r]` is the place of a process in `run_job_tick`; `log[r]` is
`gateway.decision_log.entries` of that process; `runs` is the Firestore
collection or the `MemoryBackend` dictionaries; `artifact[w]` is the object
`decisions/{run_id}.json`, with the number of times it was opened for writing;
a local file is "torn" once it is opened, and "mixed" if a text was laid over a
longer one. `ran` and
`faults` are history: what tools were called, and how many faults happened.
`Fleet`: `registry`, `entries` and `call_log` are the objects `main` builds;
`ran` is history. `DecisionLogFile`: `entries` and `file` are memory and disk;
`appended` and `alterations` are history. `RunTick`: `docs` is the Firestore
collection; `pc`, `snapshot`, `tries` and `progress` are locals of `run_tick`
and of the transaction function; `stale` is what Firestore knows of open
transactions; `grants` and `written` are history (`written` is also the bucket).
`JobProcess`: `stage` is the place of a process in `main`, `provider` the
global tracer provider, `exporters` and `answered` are history. `DemoLocal`:
`log` and `tick_log` are the two decision logs of `main`, `record` its
`MemoryBackend`, `tool_runs` the length of `_tool_runs`, `file` the artifact in
each directory; `sole` in it is history, the process that opened the file last
and beside which no other has written to it since.

## Runs

| Run | Expected | Question |
|---|---|---|
| `policy_walk` | pass | Does the loop compute the declared decision, on reordered and shortened clause lists too, and does none of them let a row cross regions? |
| `fleet` | pass | Do residency, log, tool runs and call log agree, with tools that raise and agents that move between regions? |
| `fleet_tool_raises` | violation | Is every verdict logged? Not when the tool raises. |
| `fleet_versions` | violation | Is `latest` the highest version? Not with 1.2.0 and 1.10.0. |
| `decision_log_file` | pass | Is an altered entry found, whatever happened before and after, and does a log survive restarts? |
| `job_cloud` | pass | Do three processes on one run keep its promise, with two faults anywhere, under either bucket role; does an artifact that is written again say the same; is a run stored and not complete only after a crash; and does the run complete where objects can be replaced, or where nothing fails? |
| `job_process` | pass | In 47 environments, complete or not: does the job ever log a summary nobody made, send a row without a credential, register two exporters, fail over tracing, or leave a torn file under a complete run? |
| `run_tick` | pass | Are Firestore claims atomic in spite of conflicts, retries and late marks; does a vetoed run stay empty, is a complete one whole, and does every run settle? |
| `demo` | pass | Does an assertion of the demo ever fail, in a warm process, a shared directory or after a kill, is an artifact that can be read the tick's batch and nothing else, and when does a demo raise? |
| `job_side_effects` | violation | Is a side effect performed once per run? Not with two processes. |
| `job_stuck` | violation | Can a crashed run always be resumed? Not with the deployed bucket role. |
| `job_rerun` | violation | Does a second local run write nothing? It writes the artifact again. |

The seven passing runs keep no property that a mistake in the code could not
break: for each there is a mutated definition in `PROJECT.json` that TLC finds
violating it.

### What the violations say

* **Unlogged verdict.** `ToolGateway.invoke` appends the allow decision after
  the tool has returned. If the tool raises (it calls a model over the
  network), the row has been handed over and the log has no entry, though
  `README.md` and the gateway's docstring say every verdict is logged.
* **Versions as text.** `max(..., key=lambda r: r.version)` compares strings.
* **A claim is not a lock.** `claim` answers True for a run another process is
  working on. Two processes then both run the allowed calls, though the
  docstring of `agentspine/idempotency.py` excludes a second side effect. The
  artifact and the record survive this (run `job_cloud`).
* **A run that is stuck.** `infra/deploy.sh` grants
  `roles/storage.objectCreator`, which may not replace objects. A process that
  dies after its upload and before its mark leaves an object that makes each
  later upload fail; the run stays `claimed`. That crash is the only way there
  (`StrandedOnlyByCrash` in `job_cloud`): not claims of other processes between
  upload and mark, and not an upload that is refused because a process beside
  it was faster, so a run in which nothing fails completes under this role too.
  With a role that may replace objects every run completes, faults or not
  (`OnlyFaultsBlockCreators` says both), the artifact may be written more than
  once, and each time it shows the same decisions (`RewritesAgree`).
* **Local claims.** They live in the process, so the second `make job` of
  `README.md` does not find the first one's.

### What the passing runs say that is not obvious

* **Rejected is not terminal, and that is harmless.** The docstring of
  `agentspine/idempotency.py` calls a rejection terminal, yet `claim` takes a
  rejected run back to `claimed`. Since the validator is deterministic the run
  is rejected again: `VetoLeavesNothing`, `StoredVerdictIsTrue` and
  `EveryRunSettles` hold. A validator whose verdict may change is outside of
  the protocol that `agentspine/validator.py` states, and of the model.
* **The demo's file.** `run_job_tick` stores every entry its gateway ever
  logged. The demo makes three calls before its tick, and its artifact is right
  only because the tick has a gateway of its own, and because the second tick
  of that gateway is refused. `FileIsTheBatch` fails when the gateway is shared.
* **The demo may raise.** Two demos that share `DEMO_ARTIFACT_DIR` write one
  file. One of them can read it while the other has just emptied it; and if
  both open it before either writes, and the later text is the shorter one, the
  file stays unreadable with nobody writing any more. `OnlySharersRaise` says
  that a demo raises only if another process wrote to the file after it opened
  it itself: no longer file of an earlier main, no file somebody was killed
  over, and no mixed file that was there before does it harm. `FileIsTheBatch`
  is therefore about files that can be read.
* **The gate and the client.** `_require_credentials` and `genai.Client` decide
  the mode separately from the same variables. `SentWithCredential` holds
  because their precedence is the same.

### Bounds, and why they suffice

* Clause lists: every order of the shipped clauses, and every list with some
  of them left out; three regions of which two are declared.
* `fleet`: two calls that reach a verdict, after or between up to three
  registrations. One call shows each outcome; two are needed for order between
  log, call log and runs, and for a registration between calls. Versions take
  the values that separate text order from number order.
* `decision_log_file`: four entries and two alterations. The shortest case in
  which an alteration could hide another needs an entry before and after both.
* `job_cloud` and the violations of the job: the batch and fleet of
  `job/main.py`; up to three processes on one
  run, as two jobs, their retries and the schedule can produce; two faults.
  Two processes show every pairwise race, and the third one arrives after
  either. `Cap` is where the history counters saturate; all properties only
  tell zero, one and more apart. Runs do not influence each other, since a
  step of a process touches the record and the object of its own run only; the
  proofs are for any number of runs.
* `job_process`: one process after the other, since local processes share no
  claims; two faults. The environments are all combinations of the four
  credential settings over a sound tracing part (36), and all combinations of
  the tracing settings over a sound credential (12), with one in both. A gcp process without a bucket is
  among them; one with a bucket is what `job_cloud` is about.
* `run_tick`: two processes on each of two runs, one per verdict of the
  validator; two artifacts, the fewest with a half-written set; two attempts,
  the fewest with both a retry and an abandoned transaction; one crash.
* `demo`: two processes and four runs of `main` between them, so that a warm
  second run meets another process in the same directory; one kill.
* Deadlock is checked in the job runs, in `run_tick` and in `demo`, whose last
  state steps to itself. It is not in `policy_walk`, `fleet`
  and `decision_log_file`, which stop after the last decision, the last
  bounded call, and at a torn file.

### Fairness

`FairSpec` asks weak fairness of each process's own steps: Cloud Run keeps a
started process running, and the Scheduler starts the next tick every two
minutes for good (`infra/deploy.sh`, `schedule_job`). It asks nothing of
crashes and raising tools, and `MaxFaults` bounds them: a tool that fails for
ever keeps a run from completing, and no property claims otherwise. That the
Scheduler does start ticks is taken from the script's intent: the account its
schedules name is not one the script creates (`PROJECT.json`, hazards).

`RoleSpec` is the same under either role. `RunTick` asks weak fairness of each
process's steps, those of an open transaction included; conflicts need no
fairness, as a retry reads afresh and `AbandonClaim` ends the last one.
`JobProcess` asks that a started process keeps running and that a request to
the model comes back, with an answer or an error; it does not ask that
processes are started. `UsableProcessReturns` is about a process that starts
after the last fault.

## Proofs

`PolicyProofs`, for every set of regions, labels and purposes:

* `FailsClosed`: for any clause list, an allowed request was allowed by a
  clause, and no clause before it had an opinion.
* `ResidencyRules`: wherever the residency clause stands, if no clause ahead of
  it allows, no request crosses regions.
* `DefaultPolicy`: the shipped list allows exactly the requests whose purpose
  is in the vocabulary and whose regions agree.

`WalkProofs`, for every set of clause lists: `WalkIsEvaluate`, that the loop
with its early returns decides as `evaluate` is defined to; `NothingCrosses`,
for lists whose clauses each allow only when the regions agree (as the shipped
ones do); `ResidencyOnlyNames`, under the same condition, that deleting the
residency clause from a list changes no answer; `PurposeComesFirst`, for lists
made of the shipped clauses. `ResidencyOnlyNames` splits on the regions: where
they differ nothing allows, with or without the clause; where they agree it has
no opinion, and `SilentClauseCanGo` maps the clause that decides one list to
the one that decides the other. The invariant is that no clause the loop has passed fires, and that a request under
evaluation was constructed.

The theorems of `PolicyProofs` rest on `EvaluateCases`, which describes the `CHOOSE` in `evaluate`
through the least firing position, and that on `FirstExists`, the least
element of a non-empty set of positions.

`FleetProofs`, for any number of calls, rows, agents and registrations:

* `RecordsStayHome`: every tool run had its row in the region of the
  registration it ran under, and a purpose of the vocabulary.
* `RoutedMeansLogged`: the call log embeds into the decision log in order. The
  property says that such an embedding exists; the proof extends it by one
  point when a call and its entry are added, and leaves it alone when only the
  log grows.

* `TypeCorrect` and `DiscoverIsEnforced` (`DiscoverRoutesToAllowed`) rest on
  `LatestIsOneOf`: what `latest` returns is a registration of that agent, which
  is where `VersionAssumption` is needed. For a row of a declared region, the
  agents discovered there are those whose latest registration has that region,
  and by `DefaultPolicy` those are the ones a permitted purpose is allowed
  through.
* `LogTellsTheRuns` (`AllowsAreRuns`): the matching of allow entries with runs
  that returned is extended by one pair when a call is allowed, and kept when
  one is denied or its tool raises.

`LogFileProofs`, for any number of entries, crashes and alterations:
`CleanLogsVerify`, `FilesHoldTheLog`, `AlterationsShow`. `FileInv` says that
memory and file hold what was appended, up to decisions and hashes: the number
of entries, their positions and what each names as its predecessor are never
altered. `CleanInv` says that without an alteration they are equal to it. The
theorems assume `NoSequences`: the two markers for a file that is missing or
torn are no sequences of entries. `LastHashFixesTheLog` is about `verify` alone:
two logs that verify, with as many entries and the same last hash, are equal, by
going down from the last entry along the links. It is what somebody could tell
who kept the last hash elsewhere, which the code does not do.

`JobTickProofs`, for any processes, runs, batch, fleet and number of faults.
Its step lemmas are about `AnyStep(overwrite)`: a step of some process, as
`overwrite` lets it write, or its end. `Next` is one, and so is every step of
`JobRoles` and the tick's part of every step of `JobProcess`, so that
`DeploymentProofs` uses the same lemmas:

* on either backend, `TypeCorrect`;
* with `Backend = "gcp"` and either value of `BucketOverwrite`:
  `CompleteRunsAreStored`, `ReturnedRunsAreStored`, `CompleteRunsRanAllowed`,
  `CompletionIsFinal`, `RewritesSayTheSame`, `OnlyCrashesStrand`, and
  `TickKeepsPromise`, that the tick implements `RunPromise`;
* with `Backend = "local"` and `SoleRunners`, no two processes on one run:
  `LocalRunsAreStored`, the three properties of complete runs. Without
  `SoleRunners` the first of them is false: a second process empties the file
  under the first one's complete run.

None of the properties is inductive alone. That a complete run has its
artifact depends on a process at `mark` having uploaded; that the upload was a
whole verified log of the batch, on every log being a linked prefix of the
batch's decisions; that every allowed call ran, on a process having counted
each call it logged as allowed. So:

* `TickInv`: the types; every log is a `BatchPrefix` (`LogInv`); a process
  past the batch has a full log, and one inside a tool has an allowed call
  already counted (`ControlInv`); logged and allowed implies counted
  (`RanInv`).
* `CloudInv`: `TickInv`; whatever lies in the bucket is the log of a batch that
  ran (`ArtifactInv`); a process at `mark` has its artifact (`MarkInv`);
  `CompleteHasArtifact` and `ReturnedIsDurable`.
* `LocalInv`: `TickInv`; a process that has opened the file finds it empty when
  it fills it, one about to mark has filled it with its log, one at work has not completed its run, and a run that is complete in a
  process's store is that process's own, and stored. The file is written in two
  steps, so in the local mode `ArtifactInv` is false: a file may be empty.

`LogInv` rests on `PrefixGrows`: appending the next decision keeps the chain
intact, by the entry's own hash and its link to the last one. `CompletionIsFinal`
rests on `MarkKeeps`: a late mark writes the same location and verdict as the
first, because every process that can mark has the same full batch log up to
its hashes. `RewritesSayTheSame` needs `ArtifactInv` before and after the step:
two whole logs of the batch show the same decisions. `OnlyCrashesStrand` goes
over the ways to become stranded: a completion is final, an upload leaves its
process at the mark, and by `LeavingMark` a process leaves the mark by marking
or by dying. The refinement maps a tool run to `Execute`, an upload to `Publish`,
a mark to `Finish`, and every other step to a stutter. All conjuncts of these
invariants were checked with TLC first.

`DeploymentProofs`, about the same tick where it is deployed:

* Under either bucket role of `JobRoles`: `RolesKeepPromise` (with
  `Backend = "gcp"`, everything of the previous list under the role chosen at
  the start).
* In the processes of `JobProcess`, with any set of environments for the
  backend (`EnvironmentAssumption`), any number of calls of `main` in a
  process, and either backend: `ProcessTypeCorrect`, `NothingInvented`,
  `ContentNeedsCredential`, `ExportersStaySingle`; and `ProcessRunsAreStored`,
  in the cloud, or locally under `SoleRunners`.

A step of `JobProcess` either leaves the tick alone, or is a tick step, or ends
the process, so `TickInv`, `CloudInv` and `LocalInv` carry over. `ProcessInv`
adds what only the process knows: `TracingInv`, that a process which is not
there has no provider, and `OneExporter`, which is inductive beside that;
`AskingInv`, that the tick runs only while `main` is in it, and that a tool which
has sent its row is inside a call and has a credential; `AnswerInv`, which is
`NoInventedSummary`. That the gate of the tools is right about the client is
`GateIsSound`, for every environment: if `require_credentials` passes, the mode
the client picks has its credential.

`DemoProofs`, for any number of processes, runs of `main` and kills:
`DemoTypeCorrect`, `AssertionsHold`, `ArtifactIsOneBatch`, `RaisingIsSharing`.
`DemoInv` has two parts beside the types:

* `Progress`: where a process is says what it holds. The log of the acts and
  the log of the tick are each the hashed and linked log of the first calls
  (`CallsLogged`), the tick's log is complete once the file is opened, and the
  second tick of a main finds the record complete. Therefore the second tick is
  refused, as act 5 asserts.
* `Files`: a whole file holds the log of a batch, whoever wrote to it
  (`FileTypes`); a file that nobody else has written to since a main opened it
  is empty until that main fills it and whole from then on; and in a directory
  of its own nobody else has (`OwnFile`).

The assertions of acts 2 to 4 rest on `VerdictsAsExpected`, which follows from
`DefaultPolicy` and from the one registration each agent has; those of act 6 on
`BatchVerifies` and `FlipIsSeen`: a flipped verdict changes the payload, and so
the hash, of its entry, and putting the entry back gives the same log again.
`DemoInv` was checked with TLC on the instance of the run `demo` first.

`RunTickProofs`, for any processes, runs, numbers of artifacts, attempts and
crashes: each safety property of `run_tick`, and `ClaimIsAtomic`, that it
implements `ClaimPromise`. `Inv` adds three parts to the types:

* `TxnInv`: what an open transaction has read is still there unless it is
  stale, and if it read `complete` the run is complete, stale or not. The first
  is why a commit is right, the second why a refusal needs no commit.
* `RecordInv`: each record fits its run (`Sound`): the count is the number of
  grants, a vetoed run has nothing, a complete one everything.
* `ControlInv`: a process that rejects is on a vetoed run, one that writes is
  on a passing one, one that was refused is on a complete one, and the artifacts
  a process has counted are there.

The refinement maps a commit to `Grant`, a refusal to `Refuse`, an update to
`Mark`, the end of a tick and a crash to `Forget`, and reads, retries and
abandoned transactions to a stutter.

The assumptions are those named in the modules (`PolicyAssumption`,
`WalkAssumption`, `VersionAssumption`, `FleetAssumption`, `FileAssumption`, `CapAssumption`,
`ClaimAssumption`, `TickAssumption`, `JobAssumption`, `EnvironmentAssumption`,
`DemoAssumption`); TLC evaluates them in every run of the module that declares
them. Five have content. `EnvironmentAssumption` says that a process either runs
on the backend the model is instantiated with or is a gcp process without a
bucket, which ends before its tick. `VersionAssumption` says that any set of
version texts has a last one in text order, which is what `max` in `latest`
returns. `JobAssumption` says that no call of the batch has an undeclared
region, which would raise `ValueError` out of the tick; the batch of `job/main.py` satisfies it.
`TickAssumption` makes the validator a function of the run. `DemoAssumption`
says that the regions, the purpose and the rows of the demo's calls are declared
ones, as they are in `registry/agent_registry.py` and `policy/engine.py`, and
that no process is called "shared" or "nobody".

Only model-checked is liveness, since fairness and ENABLED are out of the
prover's reach: `OnlyFaultsBlockCreators`, `EveryRunSettles`,
`UsableProcessReturns`. The five expected violations are counterexamples, which
TLC finds. Every other property of a passing run is stated by a theorem. What a
theorem assumes beyond the run is said above: the condition on the clauses in `WalkProofs`, which TLC's
lists satisfy because they are made of the shipped clauses; the backend in
`JobTickProofs`; `SoleRunners` on the local backend, which the instance of
`job_process` satisfies with its one process.

## Left out, and why

* Timestamps, reasons, `caller_id`, spans, service accounts and row contents:
  nothing that is decided depends on them, or they follow from what is kept.
* The chain has no anchor: someone who replaces the end of a log and recomputes
  all its hashes, or cuts it off, is not noticed by `verify`. `AlterationIsFound`
  is about entries that a later entry was chained to, and `LastHashFixesTheLog`
  says what an anchor would add.
* Inside Firestore: when a commit conflicts is taken from what its transactions
  promise. Inside the client libraries: credentials that are found and refused
  are a request that fails.
* Spans, formatted output, HTML and prompts: nothing is decided by them.
  `demo.py` makes the three calls of acts 2 to 4 and prints them.
* `compute_run_id`: the models start from run ids. `window_end` is no part of
  one, so two ticks with the same start and another end share a run; no caller
  of this program passes an end.
* `get`, `exists`, `list_prefix` of the stores, `RecordStore.add`, and
  `AgentRegistry.get` with a version: they change nothing that is read later, or
  have no caller.
* A web process never releases its temporary directories and list of tool runs
  (`api/index.py`), so the number its summary calls total sub-agent tool
  invocations grows from request to request. Whether the runtime serves two
  requests in one process at once, which would mix their output, is not decided
  by this code.
* Provisioning (`infra/`), beyond the roles, retries and schedules the job
  meets.

## Plan

The order was: policy and gateway first, as they carry the product's claim;
then the log and its file; the job's tick, its abstract promise and the proofs
of both; then the shared tick with the claim taken apart; the process around
the tick; the demo; and the proofs of loop, fleet, log file and `run_tick`. All
of that is done.

What could follow, in this order:

1. A cloud environment with a bucket in `JobProcess`, next to a second process,
   if the state space allows it.
2. A validator whose verdict changes between attempts, as a run that shows what
   then becomes of a rejected run.
