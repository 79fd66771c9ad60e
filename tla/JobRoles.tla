------------------------------- MODULE JobRoles -------------------------------
(***************************************************************************)
(* The cloud job under the bucket roles infra/deploy.sh can leave it with: *)
(* one that may replace objects, or the deployed one, which may only       *)
(* create them.  The role is chosen at the start.                          *)
(***************************************************************************)
EXTENDS JobTick

VARIABLE role

roleVars == <<vars, role>>

RoleInit == Init /\ role \in {"objectAdmin", "objectCreator"}

RoleNext ==
    \E r \in Runners :
        \/ StepAs(r, role = "objectAdmin") /\ UNCHANGED role
        \/ ToolRaises(r) /\ UNCHANGED role
        \/ Crash(r) /\ UNCHANGED role

\* The fairness of JobTick, whatever the role.
RoleSpec ==
    /\ RoleInit
    /\ [][RoleNext]_roleVars
    /\ \A r \in Runners : WF_vars(StepAs(r, role = "objectAdmin"))

\* Every run some process is started for is complete in the end, with any
\* number of processes side by side: if objects may be replaced, despite
\* crashes and raising tools, and if they may not, as long as nothing fails,
\* since an upload is then refused only beside a process that will mark the
\* run (job/tick.py, run_job_tick; agentspine/idempotency.py: a crash mid-run
\* can resume; infra/deploy.sh).
OnlyFaultsBlockCreators ==
    \A r \in Runners : <>(\/ Complete(StoreOf(r), RunOf[r])
                          \/ role = "objectCreator" /\ faults > 0)
=============================================================================
