------------------------------- MODULE JobMain -------------------------------
(***************************************************************************)
(* job/main.py: the rows and the batch of the deployed job, and the fleet  *)
(* it registers.  The second EU row is the one whose content carries an    *)
(* injected instruction; its label is what the policy sees.                *)
(***************************************************************************)
EXTENDS JobTick

build_record_store ==
    [eu_customer_1001 |-> "EU", eu_customer_4471 |-> "EU",
     us_customer_2002 |-> "US"]

Row(record_id) ==
    [record_id |-> record_id, region |-> build_record_store[record_id]]

Call(agent_id, record_id, purpose) ==
    [agent_id |-> agent_id, record |-> Row(record_id), purpose |-> purpose]

demo_batch ==
    <<Call("eu-summarizer", "eu_customer_1001", "summarize"),
      Call("us-summarizer", "eu_customer_1001", "summarize"),
      Call("us-summarizer", "eu_customer_4471", "summarize"),
      Call("us-support", "us_customer_2002", "support")>>
=============================================================================
