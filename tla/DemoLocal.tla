------------------------------ MODULE DemoLocal ------------------------------
(***************************************************************************)
(* demo_local.py, run from the command line or, again and again in one     *)
(* process, by the web page of api/index.py.  Each run of main makes three *)
(* calls through one gateway, sends the same calls through a tick with a   *)
(* gateway of its own, repeats the tick, alters the tick's log and reads   *)
(* the artifact back; wherever it asserts something, a false condition     *)
(* ends it.  Processes may share the artifact directory DEMO_ARTIFACT_DIR, *)
(* and any of them may be killed.                                          *)
(***************************************************************************)
EXTENDS ToolGateway, Idempotency

CONSTANTS
    Demos,      \* the processes
    MaxMains,   \* bound: runs of main in a behaviour
    MaxKills    \* bound: processes killed in a behaviour

\* The calls below use regions, a purpose and rows the program declares.
ASSUME DemoAssumption ==
    /\ MaxMains \in Nat \ {0}
    /\ MaxKills \in Nat
    /\ "shared" \notin Demos /\ "nobody" \notin Demos
    /\ {"EU", "US"} \subseteq REGIONS
    /\ "summarize" \in ALLOWED_PURPOSES
    /\ {"eu_customer_1001", "eu_customer_4471"} \subseteq RecordIds

Call(agent_id, record_id) ==
    [agent_id |-> agent_id, purpose |-> "summarize",
     record |-> [record_id |-> record_id, region |-> "EU"]]

\* Acts 2 to 4, and the batch of act 5.
calls == <<Call("eu-summarizer", "eu_customer_1001"),
           Call("us-summarizer", "eu_customer_1001"),
           Call("us-summarizer", "eu_customer_4471")>>

\* What acts 2 to 4 assert of each verdict.
Expected == <<TRUE, FALSE, FALSE>>

Decisions == [i \in DOMAIN calls |->
                 invoke_decision(bootstrap_default_registry, calls[i].agent_id,
                                 calls[i].record, calls[i].purpose)]

Decision(i) == Decisions[i]

VARIABLES
    pc,         \* where each process is
    root,       \* its artifact directory: the shared one, or a fresh one
    tool_runs,  \* the module's list of tool runs, as their number
    log,        \* decision_log of the acts
    tick_log,   \* the decision log of the tick's gateway
    next,       \* the calls the running tick has made
    status,     \* what the ticks of this main returned, in order
    record,     \* what the MemoryBackend of this main holds for the run
    file,       \* decisions/{run_id}.json in each directory, and as history
                \* the process that opened it, while no other wrote to it
    mains,      \* runs of main so far
    kills       \* processes killed so far

mainVars == <<log, tick_log, next, status, record>>

vars == <<pc, root, tool_runs, mainVars, file, mains, kills>>

Roots == Demos \union {"shared"}

NoFile == [state |-> "absent", entries |-> <<>>, sole |-> "nobody"]

Init == /\ pc = [d \in Demos |-> "off"]
        /\ root = [d \in Demos |-> d]
        /\ tool_runs = [d \in Demos |-> 0]
        /\ log = [d \in Demos |-> <<>>]
        /\ tick_log = [d \in Demos |-> <<>>]
        /\ next = [d \in Demos |-> 0]
        /\ status = [d \in Demos |-> <<>>]
        /\ record = [d \in Demos |-> NoRun]
        /\ file = [f \in Roots |-> NoFile]
        /\ mains = 0
        /\ kills = 0

Goto(d, label) == pc' = [pc EXCEPT ![d] = label]

\* assert_demo: the demo goes on, or an AssertionError ends it.
AssertDemo(d, condition, label) == Goto(d, IF condition THEN label ELSE "failed")

NewMain(d) ==
    /\ mains < MaxMains
    /\ mains' = mains + 1
    /\ Goto(d, "acts")
    /\ log' = [log EXCEPT ![d] = <<>>]
    /\ tick_log' = [tick_log EXCEPT ![d] = <<>>]
    /\ next' = [next EXCEPT ![d] = 0]
    /\ status' = [status EXCEPT ![d] = <<>>]
    /\ record' = [record EXCEPT ![d] = NoRun]

\* A process starts, with DEMO_ARTIFACT_DIR or without; a directory of its
\* own is a new one for each main.
Start(d) ==
    /\ pc[d] = "off"
    /\ NewMain(d)
    /\ tool_runs' = [tool_runs EXCEPT ![d] = 0]
    /\ \E f \in {d, "shared"} : root' = [root EXCEPT ![d] = f]
    /\ file' = [file EXCEPT ![d] = NoFile]
    /\ UNCHANGED kills

\* The next request of a warm process.
Request(d) ==
    /\ pc[d] \in {"ok", "raised", "failed"}
    /\ NewMain(d)
    /\ file' = [file EXCEPT ![d] = NoFile]
    /\ UNCHANGED <<root, tool_runs, kills>>

RunsOf(i) == IF Decision(i).allowed THEN 1 ELSE 0

\* Acts 2 to 4: one call each, with what is asserted of it.
Act(d) ==
    LET i == Len(log[d]) + 1
    IN  /\ pc[d] = "acts"
        /\ log' = [log EXCEPT ![d] = append_decision(@, Decision(i))]
        /\ tool_runs' = [tool_runs EXCEPT ![d] = @ + RunsOf(i)]
        /\ AssertDemo(d, /\ Decision(i).allowed = Expected[i]
                         /\ (tool_runs'[d] > tool_runs[d]) = Expected[i],
                      IF i = Len(calls) THEN "claim" ELSE "acts")
        /\ UNCHANGED <<root, tick_log, next, status, record, file,
                       mains, kills>>

\* The first tick, and the second one in the same gateway, claim the run.
Claim(d) ==
    /\ pc[d] = "claim"
    /\ may_proceed(record[d])
    /\ record' = [record EXCEPT ![d] = claimed(@)]
    /\ next' = [next EXCEPT ![d] = 0]
    /\ Goto(d, "tick")
    /\ UNCHANGED <<root, tool_runs, log, tick_log, status, file, mains, kills>>

ClaimRefused(d) ==
    /\ pc[d] = "claim"
    /\ ~ may_proceed(record[d])
    /\ status' = [status EXCEPT ![d] = Append(@, "skipped_complete")]
    /\ Goto(d, "returned")
    /\ UNCHANGED <<root, tool_runs, log, tick_log, next, record, file,
                   mains, kills>>

TickCall(d) ==
    LET i == next[d] + 1
    IN  /\ pc[d] = "tick"
        /\ i \in DOMAIN calls
        /\ next' = [next EXCEPT ![d] = i]
        /\ tick_log' = [tick_log EXCEPT ![d] = append_decision(@, Decision(i))]
        /\ tool_runs' = [tool_runs EXCEPT ![d] = @ + RunsOf(i)]
        /\ UNCHANGED <<pc, root, log, status, record, file, mains, kills>>

\* Fault: the file is opened for writing without being emptied.
OpenFile_keeps(d) ==
    /\ pc[d] = "tick"
    /\ next[d] = Len(calls)
    /\ file' = [file EXCEPT
                   ![root[d]].state = IF @ = "absent" THEN "torn" ELSE @,
                   ![root[d]].sole = d]
    /\ Goto(d, "fill")
    /\ UNCHANGED <<root, tool_runs, mainVars, mains, kills>>

\* LocalBackend.write opens the file, which empties it, ...
OpenFile(d) ==
    /\ pc[d] = "tick"
    /\ next[d] = Len(calls)
    /\ file' = [file EXCEPT ![root[d]] =
                   [state |-> "torn", entries |-> <<>>, sole |-> d]]
    /\ Goto(d, "fill")
    /\ UNCHANGED <<root, tool_runs, mainVars, mains, kills>>

\* What the file may be once d has written a text at its beginning.  If
\* another process has filled it since d opened it, that text may have been
\* the longer one, as timestamps vary in length: its tail stays, and the two
\* together are no JSON.
Overlaid(previous, d, entries) ==
    {[state |-> text,
      entries |-> IF text = "whole" THEN entries ELSE <<>>,
      sole |-> IF previous.sole = d THEN d ELSE "nobody"] :
        text \in IF previous.state = "torn" THEN {"whole"}
                                           ELSE {"whole", "mixed"}}

\* Fault: the tick is given the gateway of the acts, and stores its log.
FillFile_shared(d) ==
    /\ pc[d] = "fill"
    /\ \E content \in Overlaid(file[root[d]], d, log[d] \o tick_log[d]) :
          file' = [file EXCEPT ![root[d]] = content]
    /\ Goto(d, "mark")
    /\ UNCHANGED <<root, tool_runs, mainVars, mains, kills>>

\* ... and writes every entry of the tick's gateway, from the beginning on.
FillFile(d) ==
    /\ pc[d] = "fill"
    /\ \E content \in Overlaid(file[root[d]], d, tick_log[d]) :
          file' = [file EXCEPT ![root[d]] = content]
    /\ Goto(d, "mark")
    /\ UNCHANGED <<root, tool_runs, mainVars, mains, kills>>

Uri(d) == <<"decisions", root[d]>>

Mark(d) ==
    /\ pc[d] = "mark"
    /\ record' = [record EXCEPT ![d] =
                     mark_complete(@, Uri(d), verify(tick_log[d]).valid)]
    /\ status' = [status EXCEPT ![d] = Append(@, "complete")]
    /\ Goto(d, "returned")
    /\ UNCHANGED <<root, tool_runs, log, tick_log, next, file, mains, kills>>

\* Act 5 calls the tick again, and then asserts of the two what it promised.
\* The number of files is the same: there is one name for all.
TickReturned(d) ==
    /\ pc[d] = "returned"
    /\ IF Len(status[d]) = 1
       THEN Goto(d, "claim")
       ELSE AssertDemo(d, /\ status[d] = <<"complete", "skipped_complete">>
                          /\ {Decision(i).allowed : i \in DOMAIN calls} = BOOLEAN,
                       "tamper")
    /\ UNCHANGED <<root, tool_runs, mainVars, file, mains, kills>>

Flipped(entries) == [entries EXCEPT ![2].decision.allowed = TRUE]

\* Act 6: verify, flip the second verdict, verify, restore, verify.
Tamper(d) ==
    /\ pc[d] = "tamper"
    /\ AssertDemo(d, /\ verify(tick_log[d]).valid
                     /\ ~ verify(Flipped(tick_log[d])).valid
                     /\ verify([Flipped(tick_log[d]) EXCEPT
                                   ![2] = tick_log[d][2]]).valid,
                  "summary")
    /\ UNCHANGED <<root, tool_runs, mainVars, file, mains, kills>>

\* The summary reads the artifact back: json.loads raises on one that is torn
\* or mixed.
Summary(d) ==
    /\ pc[d] = "summary"
    /\ Goto(d, IF file[root[d]].state = "whole" THEN "ok" ELSE "raised")
    /\ UNCHANGED <<root, tool_runs, mainVars, file, mains, kills>>

\* The process is killed.
Kill(d) ==
    /\ pc[d] # "off"
    /\ kills < MaxKills
    /\ kills' = kills + 1
    /\ Goto(d, "off")
    /\ UNCHANGED <<root, tool_runs, mainVars, file, mains>>

DemoStep(d) == \/ Act(d) \/ Claim(d) \/ ClaimRefused(d) \/ TickCall(d)
               \/ OpenFile(d) \/ FillFile(d) \/ Mark(d) \/ TickReturned(d)
               \/ Tamper(d) \/ Summary(d)

Done == mains = MaxMains /\ \A d \in Demos : pc[d] \in {"off", "ok", "raised"}

Next == \/ \E d \in Demos : DemoStep(d) \/ Start(d) \/ Request(d) \/ Kill(d)
        \/ Done /\ UNCHANGED vars

Spec == Init /\ [][Next]_vars

-----------------------------------------------------------------------------
DemoLabels == {"off", "acts", "claim", "tick", "fill", "mark", "returned",
               "tamper", "summary", "ok", "raised", "failed"}

TypeOK ==
    /\ pc \in [Demos -> DemoLabels]
    /\ root \in [Demos -> Roots]
    /\ tool_runs \in [Demos -> Nat]
    /\ next \in [Demos -> 0..Len(calls)]
    /\ \A d \in Demos : /\ Len(log[d]) \in 0..Len(calls)
                        /\ Len(tick_log[d]) \in 0..Len(calls)
                        /\ Len(status[d]) \in 0..2
                        /\ record[d].status \in Statuses
    /\ \A f \in Roots : /\ file[f].state \in {"absent", "torn", "whole", "mixed"}
                       /\ file[f].sole \in Demos \union {"nobody"}
    /\ mains \in 0..MaxMains
    /\ kills \in 0..MaxKills

\* No assertion of the demo ever fails: not in the second request of a warm
\* process, whose list of tool runs is not empty, not over a file another
\* process was killed in, and not next to a demo that writes the same file
\* (demo_local.py, main; agentspine/transcript.py, assert_demo).
NoAssertionFails == \A d \in Demos : pc[d] # "failed"

\* An artifact that can be read back holds the tick's calls and nothing else:
\* neither the calls the acts made before it, nor those of an earlier main or
\* of another process in the same directory (job/tick.py, run_job_tick, which
\* stores every entry its gateway ever logged).  That it can be read back is
\* not promised where two processes write one file at the same time.
FileIsTheBatch ==
    \A f \in Roots : file[f].state = "whole" =>
        /\ [i \in DOMAIN file[f].entries |-> file[f].entries[i].decision]
               = Decisions
        /\ verify(file[f].entries).valid

\* A demo raises only if it shares its directory and another process wrote to
\* the file after it opened it itself.  What it finds there does no harm:
\* neither the longer file of an earlier main, nor an empty one somebody was
\* killed over, nor a mixed one (demo_local.py, main; agentspine/artifacts.py,
\* LocalBackend.write).
OnlySharersRaise ==
    [][\A d \in Demos : pc[d] # "raised" /\ pc'[d] = "raised" =>
          root[d] = "shared" /\ file["shared"].sole # d]_vars
=============================================================================
