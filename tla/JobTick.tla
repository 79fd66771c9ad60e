------------------------------- MODULE JobTick -------------------------------
(***************************************************************************)
(* job/tick.py run by the processes that job/main.py starts: claim the     *)
(* run, send the batch through the gateway, write the decision log as the  *)
(* run's artifact, mark the run complete.  Several processes may work on   *)
(* the same run, any of them may die at any point, and the Scheduler keeps *)
(* starting ticks.  Each tick has a fresh registry and decision log; the   *)
(* claim store and the artifacts are what the processes share.             *)
(***************************************************************************)
EXTENDS ToolGateway, Idempotency

CONSTANTS
    Runners,            \* the processes that run ticks
    Runs,               \* run ids
    RunOf,              \* the run of a process, from its environment
    Registry,           \* the bootstrapped registry
    Batch,              \* the calls of a tick, in order
    Backend,            \* SOVEREIGN_BACKEND
    BucketOverwrite,    \* whether the bucket role may replace an object
    MaxFaults           \* bound: crashes and raising tools in a behaviour

BatchCall == [agent_id : AgentIds, record : DataRecord, purpose : Purposes]

ASSUME JobAssumption ==
    /\ RunOf \in [Runners -> Runs]
    /\ Batch \in Seq(BatchCall)
    /\ Registry \subseteq SubAgentRegistration(Labels)
    /\ \A i \in DOMAIN Batch :
          ~ invoke_raises(Registry, Batch[i].agent_id,
                          Batch[i].record, Batch[i].purpose)
    /\ Backend \in {"gcp", "local"}
    /\ BucketOverwrite \in BOOLEAN
    /\ MaxFaults \in Nat

\* The one Firestore database, or the MemoryBackend of each local process.
Stores == IF Backend = "gcp" THEN {"firestore"} ELSE Runners
StoreOf(r) == IF Backend = "gcp" THEN "firestore" ELSE r

\* The verdict of the gateway on each call of the batch: the registry does
\* not change during a tick.
Decisions == [i \in DOMAIN Batch |->
                  invoke_decision(Registry, Batch[i].agent_id,
                                  Batch[i].record, Batch[i].purpose)]

Decision(i) == Decisions[i]

AllowedCalls == {i \in DOMAIN Batch : Decision(i).allowed}

VARIABLES
    pc,         \* where each process is
    log,        \* the decision log of each process's tick
    runs,       \* the claim stores: store -> run -> record
    artifact,   \* what lies at decisions/{run_id}.json
    ran,        \* history: how often each call's tool was run, per run
    faults      \* crashes and tool exceptions so far

vars == <<pc, log, runs, artifact, ran, faults>>

Absent == [state |-> "absent", entries |-> <<>>, generation |-> 0]

Init == /\ pc = [r \in Runners |-> "idle"]
        /\ log = [r \in Runners |-> <<>>]
        /\ runs = [s \in Stores |-> [w \in Runs |-> NoRun]]
        /\ artifact = [w \in Runs |-> Absent]
        /\ ran = [w \in Runs |-> [i \in DOMAIN Batch |-> 0]]
        /\ faults = 0

Record(r) == runs[StoreOf(r)][RunOf[r]]

Goto(r, label) == pc' = [pc EXCEPT ![r] = label]

SetRecord(r, record) ==
    runs' = [runs EXCEPT ![StoreOf(r)][RunOf[r]] = record]

\* The process is gone: with it go its log and, in local mode, its claims.
Dies(r) ==
    /\ Goto(r, "idle")
    /\ log' = [log EXCEPT ![r] = <<>>]
    /\ runs' = IF Backend = "gcp" THEN runs
               ELSE [runs EXCEPT ![r] = [w \in Runs |-> NoRun]]

-----------------------------------------------------------------------------
\* claim returns True: a new run, or one that is claimed and not complete.
ClaimGranted(r) ==
    /\ pc[r] = "idle"
    /\ may_proceed(Record(r))
    /\ SetRecord(r, claimed(Record(r)))
    /\ Goto(r, "batch")
    /\ UNCHANGED <<log, artifact, ran, faults>>

\* claim returns False: the tick ends as skipped_complete.
ClaimRefused(r) ==
    /\ pc[r] = "idle"
    /\ ~ may_proceed(Record(r))
    /\ Goto(r, "skipped")
    /\ UNCHANGED <<log, runs, artifact, ran, faults>>

NextCall(r) == Len(log[r]) + 1

InBatch(r) == pc[r] = "batch" /\ NextCall(r) \in DOMAIN Batch

LogDecision(r) ==
    log' = [log EXCEPT ![r] = append_decision(@, Decision(NextCall(r)))]

\* Fault: an allowed call may be logged without its tool.
InvokeDenied_any(r) ==
    /\ InBatch(r)
    /\ LogDecision(r)
    /\ UNCHANGED <<pc, runs, artifact, ran, faults>>

InvokeDenied(r) ==
    /\ InBatch(r)
    /\ ~ Decision(NextCall(r)).allowed
    /\ LogDecision(r)
    /\ UNCHANGED <<pc, runs, artifact, ran, faults>>

\* Fault: the tool is called before the verdict is looked at.
RunTool_undecided(r) ==
    /\ InBatch(r)
    /\ ran' = [ran EXCEPT ![RunOf[r]][NextCall(r)] = Count(@)]
    /\ Goto(r, "tool")
    /\ UNCHANGED <<log, runs, artifact, faults>>

\* The verdict is allow and tool_fn(record) is called, before anything is
\* logged.
RunTool(r) ==
    /\ InBatch(r)
    /\ Decision(NextCall(r)).allowed
    /\ ran' = [ran EXCEPT ![RunOf[r]][NextCall(r)] = Count(@)]
    /\ Goto(r, "tool")
    /\ UNCHANGED <<log, runs, artifact, faults>>

ToolReturns(r) ==
    /\ pc[r] = "tool"
    /\ LogDecision(r)
    /\ Goto(r, "batch")
    /\ UNCHANGED <<runs, artifact, ran, faults>>

\* The exception leaves invoke, run_job_tick and main.
ToolRaises(r) ==
    /\ pc[r] = "tool"
    /\ faults < MaxFaults
    /\ faults' = faults + 1
    /\ Dies(r)
    /\ UNCHANGED <<artifact, ran>>

-----------------------------------------------------------------------------
\* Fault: the artifact is written inside the loop over the calls.
AtWrite_looped(r) == pc[r] = "batch" /\ log[r] # <<>>

AtWrite(r) == pc[r] = "batch" /\ NextCall(r) \notin DOMAIN Batch

Written(state, entries, previous) ==
    [state |-> state, entries |-> entries,
     generation |-> Count(previous.generation)]

CanWrite(w, overwrite) == overwrite \/ artifact[w].state = "absent"

\* GcsBackend.write: the object appears at once, replacing an earlier one.
UploadArtifact(r, overwrite) ==
    /\ Backend = "gcp"
    /\ AtWrite(r)
    /\ CanWrite(RunOf[r], overwrite)
    /\ artifact' = [artifact EXCEPT ![RunOf[r]] = Written("whole", log[r], @)]
    /\ Goto(r, "mark")
    /\ UNCHANGED <<log, runs, ran, faults>>

\* The role may create objects and not replace them: the upload raises.
UploadRefused(r, overwrite) ==
    /\ Backend = "gcp"
    /\ AtWrite(r)
    /\ ~ CanWrite(RunOf[r], overwrite)
    /\ Dies(r)
    /\ UNCHANGED <<artifact, ran, faults>>

\* Fault: the file is opened and its content never written.
TruncateArtifact_only(r) ==
    /\ Backend = "local"
    /\ AtWrite(r)
    /\ artifact' = [artifact EXCEPT ![RunOf[r]] = Written("torn", <<>>, @)]
    /\ Goto(r, "mark")
    /\ UNCHANGED <<log, runs, ran, faults>>

\* LocalBackend.write opens the file for writing, which empties it, ...
TruncateArtifact(r) ==
    /\ Backend = "local"
    /\ AtWrite(r)
    /\ artifact' = [artifact EXCEPT ![RunOf[r]] = Written("torn", <<>>, @)]
    /\ Goto(r, "fill")
    /\ UNCHANGED <<log, runs, ran, faults>>

\* What the file may be once a log is written at its beginning: if another
\* process has filled it since it was emptied, with a text that is longer, the
\* tail of that text stays, and the two together are no JSON.
Laid(previous) == IF previous.state = "torn" THEN {"whole"}
                                             ELSE {"whole", "mixed"}

\* ... and then writes the content.
FillArtifact(r) ==
    /\ pc[r] = "fill"
    /\ \E state \in Laid(artifact[RunOf[r]]) :
          artifact' = [artifact EXCEPT ![RunOf[r]] =
                          [state |-> state, entries |-> log[r],
                           generation |-> @.generation]]
    /\ Goto(r, "mark")
    /\ UNCHANGED <<log, runs, ran, faults>>

Uri(w) == <<"decisions", w>>

BatchVerdict(entries) ==
    [passed |-> verify(entries).valid, entries |-> Len(entries)]

\* Fault: the run may be marked before its artifact is written.
MarkComplete_early(r) ==
    /\ pc[r] = "mark" \/ AtWrite(r)
    /\ CanMark(Record(r))
    /\ SetRecord(r, mark_complete(Record(r), Uri(RunOf[r]),
                                  BatchVerdict(log[r])))
    /\ Goto(r, "returned")
    /\ UNCHANGED <<log, artifact, ran, faults>>

\* Fault: a mark is dropped if another process has claimed the run since.
MarkComplete_sole(r) ==
    /\ pc[r] = "mark"
    /\ CanMark(Record(r))
    /\ IF Record(r).attempts = 1
       THEN SetRecord(r, mark_complete(Record(r), Uri(RunOf[r]),
                                       BatchVerdict(log[r])))
       ELSE UNCHANGED runs
    /\ Goto(r, "returned")
    /\ UNCHANGED <<log, artifact, ran, faults>>

MarkComplete(r) ==
    /\ pc[r] = "mark"
    /\ CanMark(Record(r))
    /\ SetRecord(r, mark_complete(Record(r), Uri(RunOf[r]),
                                  BatchVerdict(log[r])))
    /\ Goto(r, "returned")
    /\ UNCHANGED <<log, artifact, ran, faults>>

\* run_job_tick returns.  A later tick of the process has a log of its own.
Return(r) ==
    /\ pc[r] \in {"skipped", "returned"}
    /\ Goto(r, "idle")
    /\ log' = [log EXCEPT ![r] = <<>>]
    /\ UNCHANGED <<runs, artifact, ran, faults>>

\* A local process ends between ticks, and its MemoryBackend with it.
Exit(r) ==
    /\ Backend = "local"
    /\ pc[r] = "idle"
    /\ Record(r) # NoRun
    /\ Dies(r)
    /\ UNCHANGED <<artifact, ran, faults>>

Crash(r) ==
    /\ pc[r] # "idle"
    /\ faults < MaxFaults
    /\ faults' = faults + 1
    /\ Dies(r)
    /\ UNCHANGED <<artifact, ran>>

\* What a process does by itself when nothing fails, under a bucket role
\* that may or may not replace objects.
StepAs(r, overwrite) ==
    \/ ClaimGranted(r) \/ ClaimRefused(r)
    \/ InvokeDenied(r) \/ RunTool(r) \/ ToolReturns(r)
    \/ UploadArtifact(r, overwrite) \/ UploadRefused(r, overwrite)
    \/ TruncateArtifact(r) \/ FillArtifact(r)
    \/ MarkComplete(r) \/ Return(r)

Step(r) == StepAs(r, BucketOverwrite)

Next == \E r \in Runners : Step(r) \/ ToolRaises(r) \/ Exit(r) \/ Crash(r)

\* Cloud Run keeps a started process running, and the Scheduler starts the
\* next tick every two minutes for good (infra/deploy.sh).
Fairness == \A r \in Runners : WF_vars(Step(r))

Spec == Init /\ [][Next]_vars

FairSpec == Spec /\ Fairness

-----------------------------------------------------------------------------
Labels_pc == {"idle", "batch", "tool", "fill", "mark", "skipped", "returned"}

Elements(s) == {s[i] : i \in DOMAIN s}

RunRecord ==
    [status : Statuses, attempts : 0..Cap,
     validator_verdict : {NoVerdict} \union [passed : BOOLEAN, entries : Nat],
     artifact_uri : {NoUri} \union {Uri(w) : w \in Runs}]

\* The shape of the state.  Entries hold hashes of hashes, and have no type
\* but the one their log gives them.
TypeOK ==
    /\ pc \in [Runners -> Labels_pc]
    /\ DOMAIN log = Runners
    /\ \A r \in Runners : log[r] \in Seq(Elements(log[r]))
    /\ runs \in [Stores -> [Runs -> RunRecord]]
    /\ DOMAIN artifact = Runs
    /\ \A w \in Runs : /\ artifact[w].state \in {"absent", "torn", "whole", "mixed"}
                       /\ artifact[w].generation \in 0..Cap
    /\ ran \in [Runs -> [DOMAIN Batch -> 0..Cap]]
    /\ faults \in 0..MaxFaults

Complete(s, w) == runs[s][w].status = "complete"

IsBatchLog(entries) ==
    /\ Len(entries) = Len(Batch)
    /\ \A i \in DOMAIN Batch : entries[i].decision = Decision(i)
    /\ verify(entries).valid

\* A run that is marked complete has its artifact: one whole, verified log of
\* the whole batch, in order, with the verdict stored for it saying so.  It
\* stays true while other processes claim, crash, and write the same object
\* (job/tick.py, run_job_tick; agentspine/artifacts.py, write).
CompleteHasArtifact ==
    \A s \in Stores, w \in Runs :
        Complete(s, w) =>
            /\ artifact[w].state = "whole"
            /\ IsBatchLog(artifact[w].entries)
            /\ runs[s][w].artifact_uri = Uri(w)
            /\ runs[s][w].validator_verdict = [passed |-> TRUE,
                                               entries |-> Len(Batch)]

\* A tick reports complete or skipped_complete only for a run whose artifact
\* is stored, though the process that stored it may be another one
\* (job/tick.py, JobTickResult).
ReturnedIsDurable ==
    \A r \in Runners :
        pc[r] \in {"skipped", "returned"} =>
            Complete(StoreOf(r), RunOf[r]) /\ artifact[RunOf[r]].state = "whole"

\* When a run is complete, every call its artifact shows as allowed did run:
\* an attempt that resumes after a crash skips no call (job/tick.py).
CompleteRanAllowed ==
    \A s \in Stores, w \in Runs :
        Complete(s, w) => \A i \in AllowedCalls : ran[w][i] > 0

\* Terminal means terminal: once a run is complete no later step changes its
\* record, though processes that claimed it earlier are still at work and
\* will mark it again (agentspine/idempotency.py, claim and mark_complete).
CompleteIsFinal ==
    [][\A s \in Stores, w \in Runs :
          Complete(s, w) => runs'[s][w] = runs[s][w]]_vars

\* What a reader of the artifact learns: the decisions, in order.
Shown(w) == [i \in 1..Len(artifact[w].entries) |->
                artifact[w].entries[i].decision]

\* An artifact that is stored is there for good and never changes what it
\* says: a tick that resumes after a crash between the write and the mark, or
\* one that works beside another, replaces it by a log of the same decisions
\* (job/tick.py, run_job_tick, which writes again at each attempt).
RewritesAgree ==
    [][\A w \in Runs : artifact[w].state = "whole" =>
          artifact'[w].state = "whole" /\ Shown(w)' = Shown(w)]_vars

\* The artifact is stored, and nobody is about to mark the run complete.
Stranded(w) == /\ artifact[w].state = "whole"
               /\ \A s \in Stores : ~ Complete(s, w)
               /\ \A r \in Runners : ~ (RunOf[r] = w /\ pc[r] = "mark")

\* A run is left with an artifact and no mark only by a process that dies
\* between the two: not by claims of others in between, not by a tool that
\* raises, not by an upload that is refused because the artifact is there
\* (job/tick.py, run_job_tick; infra/deploy.sh, roles/storage.objectCreator).
StrandedOnlyByCrash ==
    [][\A w \in Runs : Stranded(w)' /\ ~ Stranded(w) =>
          \E r \in Runners : /\ RunOf[r] = w
                             /\ pc[r] = "mark" /\ pc'[r] = "idle"]_vars

Promise == INSTANCE RunPromise WITH
    Permitted <- AllowedCalls,
    executed <- [w \in Runs |-> {i \in DOMAIN Batch : ran[w][i] > 0}],
    published <- {w \in Runs : artifact[w].state = "whole"},
    done <- {w \in Runs : \E s \in Stores : Complete(s, w)}

\* In the cloud the tick implements what a run promises: with any number of
\* processes on a run, and crashes between any two steps, no step executes a
\* denied call, publishes an artifact before every allowed call of the batch
\* ran, records a run as complete before that, or takes any of it back
\* (job/tick.py, run_job_tick).
PromiseKept == Promise!Spec

\* Despite crashes, raising tools and processes working side by side, every
\* run some process is started for is complete in the end (job/tick.py;
\* agentspine/idempotency.py: a crash mid-run can resume).
EveryRunCompletes ==
    \A r \in Runners : <>Complete(StoreOf(r), RunOf[r])

\* The artifact of a run is written at most once, by whatever process of
\* whatever attempt (job/tick.py, run_job_tick, "writes the decision log
\* artifact at most once"; README.md, "writes no new artifact").
WrittenAtMostOnce == \A w \in Runs : artifact[w].generation <= 1

\* No tick performs its side effect twice: a call's tool is run once per run
\* (agentspine/idempotency.py, module docstring).
SideEffectOnce == \A w \in Runs, i \in DOMAIN Batch : ran[w][i] <= 1
=============================================================================
