----------------------------- MODULE Idempotency -----------------------------
(***************************************************************************)
(* agentspine/idempotency.py: what the operations of a claim store do to   *)
(* one run's record.  Each of them is atomic: MemoryBackend holds its lock *)
(* across it, FirestoreBackend runs the claim in a transaction and writes  *)
(* the rest as one update of one document.                                 *)
(***************************************************************************)
EXTENDS Naturals

CONSTANTS
    NoUri,      \* artifact_uri=None
    NoVerdict,  \* validator_verdict=None
    Cap         \* bound: attempts and history counters saturate here

ASSUME CapAssumption == Cap \in Nat \ {0}

\* Count(n) is n + 1 up to the bound.
Count(n) == IF n < Cap THEN n + 1 ELSE Cap

Statuses == {"absent", "claimed", "rejected", "complete"}

\* The run_id, subject and window of a record are its key.
NoRun == [status |-> "absent", attempts |-> 0,
          validator_verdict |-> NoVerdict, artifact_uri |-> NoUri]

\* Fault: a completed run may be claimed again.
may_proceed_always(record) == TRUE

\* Fault: a claimed run is taken to be in other hands and skipped.
may_proceed_new(record) == record.status = "absent"

\* What claim returns.
may_proceed(record) == record.status # "complete"

\* What claim stores when it returns True: attempts is 1 on a new record.
claimed(record) ==
    [record EXCEPT !.status = "claimed", !.attempts = Count(@)]

CanMark(record) == record.status # "absent"     \* otherwise KeyError

\* Fault: a status the claim does not know is stored.
mark_complete_misspelt(record, uri, verdict) ==
    [record EXCEPT !.status = "completed", !.artifact_uri = uri,
                   !.validator_verdict = verdict]

mark_complete(record, uri, verdict) ==
    [record EXCEPT !.status = "complete", !.artifact_uri = uri,
                   !.validator_verdict = verdict]

\* Fault: the veto's verdict is not stored with it.
mark_rejected_bare(record, verdict) == [record EXCEPT !.status = "rejected"]

\* Whatever the status is: a veto is stored over it.
mark_rejected(record, verdict) ==
    [record EXCEPT !.status = "rejected", !.validator_verdict = verdict]
=============================================================================
