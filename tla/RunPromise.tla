----------------------------- MODULE RunPromise -----------------------------
(***************************************************************************)
(* What a run promises to whoever reads its record and its artifact: only  *)
(* permitted calls are ever executed, the artifact appears once all of     *)
(* them were, the run is done once the artifact is there, and nothing of   *)
(* that is taken back.  Processes, crashes, attempts and claims are not    *)
(* part of the promise (job/tick.py, module docstring).                    *)
(***************************************************************************)
CONSTANTS Runs,         \* the runs
          Permitted     \* the calls of the batch the policy allows

VARIABLES executed,     \* run -> the calls that were executed for it
          published,    \* the runs whose artifact is readable
          done          \* the runs recorded as complete

vars == <<executed, published, done>>

Init == /\ executed = [w \in Runs |-> {}]
        /\ published = {}
        /\ done = {}

Execute(w, i) == /\ i \in Permitted
                 /\ executed' = [executed EXCEPT ![w] = @ \union {i}]
                 /\ UNCHANGED <<published, done>>

Publish(w) == /\ Permitted \subseteq executed[w]
              /\ published' = published \union {w}
              /\ UNCHANGED <<executed, done>>

Finish(w) == /\ w \in published
             /\ done' = done \union {w}
             /\ UNCHANGED <<executed, published>>

Next == \E w \in Runs : \/ \E i \in Permitted : Execute(w, i)
                        \/ Publish(w)
                        \/ Finish(w)

Spec == Init /\ [][Next]_vars
=============================================================================
