------------------------------ MODULE MCJobTick ------------------------------
(* The batch and fleet of job/main.py, and up to three processes on one    *)
(* run, as infra/deploy.sh configures them.                                *)
EXTENDS JobMain

CONSTANTS p1, p2, p3, w1

MCREGIONS == {"EU", "US"}
MCALLOWED == {"support", "analytics", "summarize", "billing"}
MCRecordIds == DOMAIN build_record_store
MCAgentIds == {"eu-summarizer", "us-summarizer", "us-support"}
MCCapabilities == {"summarize", "support"}
MCVersions == {<<1, 0, 0>>}

TwoRunners == {p1, p2}
ThreeRunners == {p1, p2, p3}
OneRunner == {p1}
SharedRun == [r \in Runners |-> w1]
=============================================================================
