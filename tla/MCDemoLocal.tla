----------------------------- MODULE MCDemoLocal -----------------------------
(* Two demo processes, four runs of main between them, one of them killed.  *)
EXTENDS DemoLocal

CONSTANTS d1, d2

MCREGIONS == {"EU", "US"}
MCALLOWED == {"support", "analytics", "summarize", "billing"}
MCRecordIds == {"eu_customer_1001", "eu_customer_4471"}
MCAgentIds == {"eu-summarizer", "us-summarizer", "us-support"}
MCCapabilities == {"summarize", "support"}
MCVersions == {<<1, 0, 0>>}
=============================================================================
