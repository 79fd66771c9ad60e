--------------------------- MODULE FirestoreClaim ---------------------------
(***************************************************************************)
(* FirestoreBackend of agentspine/idempotency.py, with the transaction of  *)
(* claim taken apart: the document is read, and later the write is         *)
(* committed, unless somebody wrote the document in between; then the      *)
(* client library runs the function again, and gives up after a number of  *)
(* attempts.  Marks are updates outside of any transaction.  Firestore     *)
(* itself is external: that a commit fails exactly when the document that  *)
(* was read has changed is what a transaction there means; whether the     *)
(* server locks or checks only rules some interleavings out.               *)
(***************************************************************************)
EXTENDS Idempotency

CONSTANTS
    Ticks,          \* the processes that run ticks
    Runs,           \* run ids
    RunOf,          \* the run of a process: compute_run_id of its arguments
    MaxAttempts     \* how often the client library tries a transaction

ASSUME ClaimAssumption == /\ RunOf \in [Ticks -> Runs]
                          /\ MaxAttempts \in Nat \ {0}

VARIABLES
    pc,         \* where each process is
    docs,       \* the collection: run id -> record
    snapshot,   \* the status each process's transaction has read
    stale,      \* the processes whose snapshot somebody has overwritten
    tries,      \* attempts of each process's transaction
    grants      \* history: run -> claims that returned True

claimVars == <<docs, snapshot, stale, tries, grants>>

ClaimInit == /\ docs = [w \in Runs |-> NoRun]
             /\ snapshot = [p \in Ticks |-> "absent"]
             /\ stale = {}
             /\ tries = [p \in Ticks |-> 0]
             /\ grants = [w \in Runs |-> 0]

Goto(p, label) == pc' = [pc EXCEPT ![p] = label]

Doc(p) == docs[RunOf[p]]

\* A write of p's document makes the other open transactions on it stale.
Overtaken(p) == {q \in Ticks \ {p} : pc[q] = "txn" /\ RunOf[q] = RunOf[p]}

SetDoc(p, record) ==
    /\ docs' = [docs EXCEPT ![RunOf[p]] = record]
    /\ stale' = (stale \union Overtaken(p)) \ {p}

\* The function of the transaction looks at nothing but the status.
Read(p) == /\ snapshot' = [snapshot EXCEPT ![p] = Doc(p).status]
           /\ stale' = stale \ {p}

\* claim begins: a transaction that reads the document.
BeginClaim(p) ==
    /\ pc[p] = "idle"
    /\ Read(p)
    /\ tries' = [tries EXCEPT ![p] = 1]
    /\ Goto(p, "txn")
    /\ UNCHANGED <<docs, grants>>

\* The transaction is over, and what it has read is gone.
EndTxn(p) == /\ snapshot' = [snapshot EXCEPT ![p] = "absent"]
             /\ tries' = [tries EXCEPT ![p] = 0]

\* A new document is set as a whole; an old one is updated, its counter by
\* the server.
Stored(read, record) ==
    IF read = "absent" THEN claimed(NoRun) ELSE claimed(record)

\* Fault: the document is read outside of the transaction, so that a commit
\* does not notice that it has changed.
CommitClaim_unguarded(p) ==
    /\ pc[p] = "txn"
    /\ may_proceed([NoRun EXCEPT !.status = snapshot[p]])
    /\ SetDoc(p, Stored(snapshot[p], Doc(p)))
    /\ grants' = [grants EXCEPT ![RunOf[p]] = Count(@)]
    /\ Goto(p, "validate")
    /\ EndTxn(p)

\* claim returns True.
CommitClaim(p) ==
    /\ pc[p] = "txn"
    /\ p \notin stale
    /\ may_proceed([NoRun EXCEPT !.status = snapshot[p]])
    /\ SetDoc(p, Stored(snapshot[p], Doc(p)))
    /\ grants' = [grants EXCEPT ![RunOf[p]] = Count(@)]
    /\ Goto(p, "validate")
    /\ EndTxn(p)

\* claim returns False: nothing is written, so nothing can conflict.
RefuseClaim(p) ==
    /\ pc[p] = "txn"
    /\ ~ may_proceed([NoRun EXCEPT !.status = snapshot[p]])
    /\ Goto(p, "skipped")
    /\ stale' = stale \ {p}
    /\ EndTxn(p)
    /\ UNCHANGED <<docs, grants>>

\* The commit is refused and the function is run again.
RetryClaim(p) ==
    /\ pc[p] = "txn"
    /\ p \in stale
    /\ tries[p] < MaxAttempts
    /\ Read(p)
    /\ tries' = [tries EXCEPT ![p] = @ + 1]
    /\ UNCHANGED <<pc, docs, grants>>

\* The last attempt failed: ValueError leaves claim, and the tick.
AbandonClaim(p) ==
    /\ pc[p] = "txn"
    /\ p \in stale
    /\ tries[p] = MaxAttempts
    /\ Goto(p, "idle")
    /\ stale' = stale \ {p}
    /\ EndTxn(p)
    /\ UNCHANGED <<docs, grants>>

Claim(p) == \/ BeginClaim(p) \/ CommitClaim(p) \/ RefuseClaim(p)
            \/ RetryClaim(p) \/ AbandonClaim(p)

\* mark_rejected and mark_complete: one update of one document, which must
\* exist, whatever is in it.
UpdateDoc(p, record) ==
    /\ CanMark(Doc(p))
    /\ SetDoc(p, record)
    /\ UNCHANGED <<snapshot, tries, grants>>
=============================================================================
