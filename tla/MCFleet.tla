------------------------------ MODULE MCFleet ------------------------------
(* The bootstrapped fleet, rows of both regions and of an undeclared one,  *)
(* an agent nobody registered, and registrations that move an agent to     *)
(* another region, repeat a version, or declare an undeclared region.      *)
EXTENDS Fleet

MCREGIONS == {"EU", "US"}
MCLabels == {"EU", "US", "APAC"}
MCALLOWED == {"summarize", "support"}
MCPurposes == {"summarize", "support", "exfiltrate"}
MCRows == [eu1 |-> "EU", us1 |-> "US", ap1 |-> "APAC"]
MCRecordIds == {"eu1", "us1", "ap1"}
MCAgentIds == {"eu-summarizer", "us-summarizer", "us-support", "ap-support"}
MCCapabilities == {"summarize", "support"}
MCVersions == {<<1, 0, 0>>, <<1, 2, 0>>, <<1, 9, 0>>, <<1, 10, 0>>}

Registration(agent_id, region, version) ==
    [agent_id |-> agent_id, region |-> region,
     capability |-> "summarize", version |-> version]

MCNewRegistrations ==
    {Registration("eu-summarizer", "US", <<1, 2, 0>>),
     Registration("us-summarizer", "EU", <<1, 0, 0>>),
     Registration("ap-support", "APAC", <<1, 0, 0>>)}

MCVersionRegistrations ==
    {Registration("eu-summarizer", "US", v) : v \in MCVersions}
=============================================================================
