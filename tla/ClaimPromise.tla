---------------------------- MODULE ClaimPromise ----------------------------
(***************************************************************************)
(* What an IdempotencyBackend promises its callers: claim is one step, its *)
(* answer is the one the record at that step calls for, and a record only  *)
(* changes by a claim or a mark of somebody whose claim was granted        *)
(* (agentspine/idempotency.py, IdempotencyBackend).  MemoryBackend, which  *)
(* holds its lock across each operation, is this.                          *)
(***************************************************************************)
EXTENDS Idempotency

CONSTANTS Callers, Runs, RunOf, Uris, Verdicts

VARIABLES docs,     \* run -> record
          answer    \* caller -> what claim last returned, while it matters

vars == <<docs, answer>>

Init == /\ docs = [w \in Runs |-> NoRun]
        /\ answer = [p \in Callers |-> "none"]

Grant(p) == /\ answer[p] = "none"
            /\ may_proceed(docs[RunOf[p]])
            /\ docs' = [docs EXCEPT ![RunOf[p]] = claimed(@)]
            /\ answer' = [answer EXCEPT ![p] = "granted"]

Refuse(p) == /\ answer[p] = "none"
             /\ ~ may_proceed(docs[RunOf[p]])
             /\ answer' = [answer EXCEPT ![p] = "refused"]
             /\ UNCHANGED docs

Mark(p) == /\ answer[p] = "granted"
           /\ \/ \E uri \in Uris, verdict \in Verdicts :
                    docs' = [docs EXCEPT ![RunOf[p]] =
                                 mark_complete(@, uri, verdict)]
              \/ \E verdict \in Verdicts :
                    docs' = [docs EXCEPT ![RunOf[p]] =
                                 mark_rejected(@, verdict)]
           /\ answer' = [answer EXCEPT ![p] = "none"]

\* A caller that crashes, or is done, has no answer any more.
Forget(p) == /\ answer' = [answer EXCEPT ![p] = "none"]
             /\ UNCHANGED docs

Next == \E p \in Callers : Grant(p) \/ Refuse(p) \/ Mark(p) \/ Forget(p)

Spec == Init /\ [][Next]_vars
=============================================================================
