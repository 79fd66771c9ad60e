------------------------------- MODULE RunTick -------------------------------
(***************************************************************************)
(* run_tick of agentspine/job.py, by any number of processes: claim the    *)
(* run, ask the validator, and either record its veto or have artifact_fn  *)
(* write the run's artifacts and mark the run complete.  A process may     *)
(* crash at any point; the next one that is started resumes its run.       *)
(***************************************************************************)
EXTENDS FirestoreClaim

CONSTANTS
    Passes,     \* run -> verdict of the validator on its context
    Parts,      \* how many artifacts artifact_fn writes
    MaxFaults   \* bound: crashes in a behaviour

Verdict(passed) == [passed |-> passed]

Verdicts == {Verdict(b) : b \in BOOLEAN}

\* artifact_fn returns a list, and its first member is stored.
Uri(w) == <<w, 1>>

Uris == {Uri(w) : w \in Runs}

\* A validator is deterministic, and the context is the same for every tick
\* of a run (validator.py).
ASSUME TickAssumption == /\ Passes \in [Runs -> BOOLEAN]
                         /\ Parts \in Nat \ {0}
                         /\ MaxFaults \in Nat
                         /\ NoVerdict \notin Verdicts
                         /\ NoUri \notin Uris

VARIABLES
    progress,   \* how many artifacts each process's artifact_fn has written
    written,    \* run -> its artifacts that exist
    faults      \* crashes so far

vars == <<pc, docs, snapshot, stale, tries, grants, progress, written, faults>>

Init == /\ ClaimInit
        /\ pc = [p \in Ticks |-> "idle"]
        /\ progress = [p \in Ticks |-> 0]
        /\ written = [w \in Runs |-> {}]
        /\ faults = 0

ClaimStep(p) == Claim(p) /\ UNCHANGED <<progress, written, faults>>

\* Fault: the veto is looked at after the artifacts are written.
Validate_ignored(p) ==
    /\ pc[p] = "validate"
    /\ Goto(p, "artifact")
    /\ UNCHANGED <<claimVars, progress, written, faults>>

Validate(p) ==
    /\ pc[p] = "validate"
    /\ Goto(p, IF Passes[RunOf[p]] THEN "artifact" ELSE "reject")
    /\ UNCHANGED <<claimVars, progress, written, faults>>

MarkRejected(p) ==
    /\ pc[p] = "reject"
    /\ UpdateDoc(p, mark_rejected(Doc(p), Verdict(FALSE)))
    /\ Goto(p, "rejected")
    /\ UNCHANGED <<progress, written, faults>>

\* artifact_fn writes its next artifact, over an earlier one if there is one.
WriteArtifact(p) ==
    /\ pc[p] = "artifact"
    /\ progress[p] < Parts
    /\ progress' = [progress EXCEPT ![p] = @ + 1]
    /\ written' = [written EXCEPT ![RunOf[p]] = @ \union {progress[p] + 1}]
    /\ UNCHANGED <<pc, claimVars, faults>>

\* Fault: the run is marked when the artifact it names is there.
MarkComplete_first(p) ==
    /\ pc[p] = "artifact"
    /\ progress[p] > 0
    /\ UpdateDoc(p, mark_complete(Doc(p), Uri(RunOf[p]), Verdict(TRUE)))
    /\ Goto(p, "complete")
    /\ progress' = [progress EXCEPT ![p] = 0]
    /\ UNCHANGED <<written, faults>>

\* artifact_fn has returned.
MarkComplete(p) ==
    /\ pc[p] = "artifact"
    /\ progress[p] = Parts
    /\ UpdateDoc(p, mark_complete(Doc(p), Uri(RunOf[p]), Verdict(TRUE)))
    /\ Goto(p, "complete")
    /\ progress' = [progress EXCEPT ![p] = 0]
    /\ UNCHANGED <<written, faults>>

\* run_tick returns, and its process ends.
Return(p) ==
    /\ pc[p] \in {"skipped", "rejected", "complete"}
    /\ Goto(p, "idle")
    /\ UNCHANGED <<claimVars, progress, written, faults>>

\* Among the crashes are a validator and an artifact_fn that raise.
Crash(p) ==
    /\ pc[p] # "idle"
    /\ faults < MaxFaults
    /\ faults' = faults + 1
    /\ Goto(p, "idle")
    /\ stale' = stale \ {p}
    /\ EndTxn(p)
    /\ progress' = [progress EXCEPT ![p] = 0]
    /\ UNCHANGED <<docs, grants, written>>

Step(p) == \/ ClaimStep(p) \/ Validate(p) \/ MarkRejected(p)
           \/ WriteArtifact(p) \/ MarkComplete(p) \/ Return(p)

Next == \E p \in Ticks : Step(p) \/ Crash(p)

\* A process keeps running, and the next tick is always started.
Fairness == \A p \in Ticks : WF_vars(Step(p))

Spec == Init /\ [][Next]_vars

FairSpec == Spec /\ Fairness

-----------------------------------------------------------------------------
TickLabels == {"idle", "txn", "validate", "reject", "artifact",
               "skipped", "rejected", "complete"}

RunRecord == [status : Statuses, attempts : 0..Cap,
              validator_verdict : {NoVerdict} \union Verdicts,
              artifact_uri : {NoUri} \union Uris]

\* The shape of the state; only an open transaction has a stale snapshot.
TypeOK ==
    /\ pc \in [Ticks -> TickLabels]
    /\ docs \in [Runs -> RunRecord]
    /\ snapshot \in [Ticks -> Statuses]
    /\ stale \in SUBSET {p \in Ticks : pc[p] = "txn"}
    /\ tries \in [Ticks -> 0..MaxAttempts]
    /\ grants \in [Runs -> 0..Cap]
    /\ progress \in [Ticks -> 0..Parts]
    /\ written \in [Runs -> SUBSET (1..Parts)]
    /\ faults \in 0..MaxFaults

Complete(w) == docs[w].status = "complete"

\* A run the validator vetoes never has an artifact, a location, or the
\* status complete, in whatever attempt of whatever process: not even while a
\* rejected run is claimed again, which claim allows (agentspine/job.py: zero
\* artifacts for a failing validator, always).
VetoLeavesNothing ==
    \A w \in Runs : ~ Passes[w] =>
        /\ written[w] = {}
        /\ docs[w].artifact_uri = NoUri
        /\ ~ Complete(w)

\* A complete run has every one of its artifacts, and its record says where
\* and that the validator passed it, though several processes wrote them and
\* some of those crashed half way (agentspine/job.py, run_tick).
CompleteIsWhole ==
    \A w \in Runs : Complete(w) =>
        /\ written[w] = 1..Parts
        /\ docs[w].artifact_uri = Uri(w)
        /\ docs[w].validator_verdict = Verdict(TRUE)

\* What a record says of its validator is what the validator says: a record
\* that was claimed again may still carry the verdict of an earlier attempt,
\* and it is the right one (agentspine/idempotency.py, mark_rejected).
StoredVerdictIsTrue ==
    \A w \in Runs :
        /\ docs[w].validator_verdict \in {NoVerdict, Verdict(Passes[w])}
        /\ docs[w].status \in {"rejected", "complete"} =>
               docs[w].validator_verdict # NoVerdict

\* No granted claim is lost from the count of attempts, though two processes
\* may find the run unclaimed at the same time (agentspine/idempotency.py,
\* FirestoreBackend.claim).
EveryClaimCounted == \A w \in Runs : docs[w].attempts = grants[w]

\* What a tick reports is so: skipped and complete of a run that is complete,
\* rejected of one the validator vetoes, although the read the answer rests
\* on may be old (agentspine/job.py, TickResult).
ReportsAreTrue ==
    \A p \in Ticks :
        /\ pc[p] \in {"skipped", "complete"} => Complete(RunOf[p])
        /\ pc[p] = "rejected" => ~ Passes[RunOf[p]]

\* No step changes the record of a complete run: neither a transaction that
\* read it before it was complete nor a late mark of another process
\* (agentspine/idempotency.py: complete is terminal).
CompleteIsFinal ==
    [][\A w \in Runs : Complete(w) => docs'[w] = docs[w]]_vars

\* What claim has told a process, as long as it matters.
AnswerAt(label) ==
    IF label = "skipped" THEN "refused"
    ELSE IF label \in {"validate", "reject", "artifact"} THEN "granted"
         ELSE "none"

Answer == [p \in Ticks |-> AnswerAt(pc[p])]

Promise == INSTANCE ClaimPromise WITH Callers <- Ticks, answer <- Answer

\* The transactions make claim one step: whatever other claims, marks and
\* retries come between its reads and its commit, it answers and writes as if
\* the record had been locked (agentspine/idempotency.py: implementations
\* must make claim atomic).
ClaimsAreAtomic == Promise!Spec

\* Despite crashes, conflicts and abandoned transactions every run comes to
\* what its validator decides: complete for good, or rejected again and
\* again (agentspine/job.py: resumable).
EveryRunSettles ==
    \A w \in Runs : IF Passes[w] THEN <>[]Complete(w)
                     ELSE []<>(docs[w].status = "rejected")
=============================================================================
