----------------------------- MODULE DemoProofs -----------------------------
(***************************************************************************)
(* The demo for every number of processes, runs of main and kills: its     *)
(* assertions hold, a log that can be read back is that of one batch, and   *)
(* only a process whose file another one wrote to finds it unreadable.     *)
(***************************************************************************)
EXTENDS DemoLocal, PolicyProofs, SequenceTheorems

-----------------------------------------------------------------------------
(* The inductive invariant.                                                *)

Elements(s) == {s[i] : i \in DOMAIN s}

\* A log with the decisions of the first calls, hashed and linked.
CallsLogged(entries) ==
    /\ entries \in Seq(Elements(entries))
    /\ Len(entries) \in 0..Len(calls)
    /\ \A i \in 1..Len(entries) :
          entries[i] = Hashed(i - 1, Decision(i), expected_prev(entries, i))

\* The log of the whole batch.
BatchLogged(entries) == CallsLogged(entries) /\ Len(entries) = Len(calls)

DemoTypes ==
    /\ pc \in [Demos -> DemoLabels]
    /\ root \in [Demos -> Roots]
    /\ tool_runs \in [Demos -> Nat]
    /\ next \in [Demos -> 0..Len(calls)]
    /\ DOMAIN log = Demos
    /\ DOMAIN tick_log = Demos
    /\ DOMAIN status = Demos
    /\ DOMAIN record = Demos
    /\ DOMAIN file = Roots
    /\ mains \in 0..MaxMains
    /\ kills \in 0..MaxKills

\* The first tick of this main has returned.
Ticked(d) == status[d] # <<>>

\* What the MemoryBackend of a main may hold for its run.
DemoRecord == [status : Statuses, attempts : 0..Cap,
               validator_verdict : BOOLEAN \union {NoVerdict},
               artifact_uri : {<<"decisions", f>> : f \in Roots} \union {NoUri}]

\* Where a process is says what its logs, its record and its ticks are.
Progress(d) ==
    /\ pc[d] # "failed"
    /\ root[d] \in {d, "shared"}
    /\ CallsLogged(log[d])
    /\ CallsLogged(tick_log[d])
    /\ record[d] \in DemoRecord
    /\ status[d] \in {<<>>, <<"complete">>, <<"complete", "skipped_complete">>}
    /\ pc[d] = "acts" => /\ Len(log[d]) < Len(calls)
                         /\ tick_log[d] = <<>> /\ ~ Ticked(d)
                         /\ record[d].status = "absent"
    /\ pc[d] = "claim" =>
          \/ ~ Ticked(d) /\ record[d].status = "absent" /\ tick_log[d] = <<>>
          \/ status[d] = <<"complete">> /\ record[d].status = "complete"
    /\ pc[d] = "tick" => Len(tick_log[d]) = next[d]
    /\ pc[d] \in {"tick", "fill", "mark"} => ~ Ticked(d)
    /\ pc[d] \in {"fill", "mark", "returned", "tamper", "summary"} =>
          BatchLogged(tick_log[d])
    /\ pc[d] = "claim" /\ Ticked(d) => BatchLogged(tick_log[d])
    /\ pc[d] = "returned" =>
          \/ status[d] = <<"complete">> /\ record[d].status = "complete"
          \/ status[d] = <<"complete", "skipped_complete">>

\* This main has written the artifact.
Written(d) == \/ pc[d] \in {"mark", "returned", "tamper", "summary"}
              \/ pc[d] = "claim" /\ Ticked(d)

\* The file of a process that nobody else has written to since it opened it:
\* still empty, and then its own.  In a directory of its own nobody else does.
OwnFile(d) ==
    /\ file[root[d]].sole = d =>
          /\ pc[d] = "fill" => file[root[d]].state = "torn"
          /\ Written(d) => file[root[d]].state = "whole"
    /\ root[d] = d /\ (pc[d] = "fill" \/ Written(d)) => file[d].sole = d

\* What is in a file, whoever wrote it.
FileTypes ==
    \A f \in Roots :
        /\ file[f].state \in {"absent", "torn", "whole", "mixed"}
        /\ file[f].sole \in Demos \union {"nobody"}
        /\ file[f].state = "whole" => BatchLogged(file[f].entries)

Files == FileTypes /\ \A d \in Demos : OwnFile(d)

DemoInv == DemoTypes /\ (\A d \in Demos : Progress(d)) /\ Files

-----------------------------------------------------------------------------
(* The three calls.                                                        *)

LEMMA CallCount == Len(calls) = 3 /\ DOMAIN calls = 1..3
BY DEF calls

\* Each agent of the demo is registered once, so that is its latest version.
LEMMA SummarizerRegions ==
    /\ Registered(bootstrap_default_registry, "eu-summarizer")
    /\ Registered(bootstrap_default_registry, "us-summarizer")
    /\ latest(bootstrap_default_registry, "eu-summarizer").region = "EU"
    /\ latest(bootstrap_default_registry, "us-summarizer").region = "US"
<1> DEFINE B == bootstrap_default_registry
           eu == Bootstrapped("eu-summarizer", "EU", "summarize")
           us == Bootstrapped("us-summarizer", "US", "summarize")
           support == Bootstrapped("us-support", "US", "support")
<1>1. /\ B = {eu, us, support}
      /\ eu.agent_id = "eu-summarizer" /\ eu.region = "EU"
      /\ us.agent_id = "us-summarizer" /\ us.region = "US"
      /\ support.agent_id = "us-support"
  BY DEF bootstrap_default_registry, Bootstrapped
<1> HIDE DEF B, eu, us, support
<1>2. Candidates(B, "eu-summarizer") = {eu} /\ Candidates(B, "us-summarizer") = {us}
  BY <1>1 DEF Candidates
<1>3. ASSUME NEW r, NEW a, Candidates(B, a) = {r}
      PROVE  latest(B, a) = r
  <2>1. Candidates(B, a) \ {r} = {}
    BY <1>3
  <2> QED
    BY <1>3, <2>1 DEF latest
<1>4. eu.agent_id \in all_agent_ids(B) /\ us.agent_id \in all_agent_ids(B)
  BY <1>1 DEF all_agent_ids
<1> QED
  BY <1>1, <1>2, <1>3, <1>4 DEF Registered, B

\* The verdicts of the calls are those the demo expects.
LEMMA VerdictsAsExpected ==
    ASSUME NEW i \in 1..3
    PROVE  /\ Decision(i).allowed = Expected[i]
           /\ \E clause_id, req : Decision(i) = PolicyDecision(Expected[i], clause_id, req)
<1> DEFINE B == bootstrap_default_registry
           req == request_of(B, calls[i].agent_id, calls[i].record,
                             calls[i].purpose)
<1>1. i = 1 \/ i = 2 \/ i = 3
  OBVIOUS
<1>2. /\ calls[i].agent_id \in {"eu-summarizer", "us-summarizer"}
      /\ calls[i].agent_id = "eu-summarizer" <=> i = 1
      /\ calls[i].purpose = "summarize"
      /\ calls[i].record.region = "EU"
      /\ calls[i].record.record_id \in RecordIds
  BY <1>1, DemoAssumption DEF calls, Call
<1>3. /\ Registered(B, calls[i].agent_id)
      /\ latest(B, calls[i].agent_id).region = IF i = 1 THEN "EU" ELSE "US"
  BY <1>2, SummarizerRegions
<1>4. /\ req = [caller_region |-> IF i = 1 THEN "EU" ELSE "US",
                data_region |-> "EU", purpose |-> "summarize",
                record_id |-> calls[i].record.record_id]
  BY <1>2, <1>3 DEF request_of
<1>5. req \in ToolCallRequest
  <2>1. "EU" \in Labels /\ "US" \in Labels /\ "summarize" \in Purposes
    BY PolicyAssumption, DemoAssumption
  <2>2. req \in RawRequest
    BY <1>2, <1>4, <2>1 DEF RawRequest
  <2>3. Constructible(req)
    BY <1>4, DemoAssumption DEF Constructible
  <2> QED
    BY <2>2, <2>3 DEF ToolCallRequest
<1>6. Decision(i) = evaluate(DEFAULT_CLAUSES, req)
  BY <1>3, CallCount DEF Decision, Decisions, invoke_decision
<1>7. Expected[i] = (i = 1)
  <2>1. Expected[1] = TRUE /\ Expected[2] = FALSE /\ Expected[3] = FALSE
    BY DEF Expected
  <2> QED
    BY <1>1, <2>1
<1> HIDE DEF req
<1>8. evaluate(DEFAULT_CLAUSES, req).allowed <=> Expected[i]
  <2>1. "summarize" \in ALLOWED_PURPOSES
    BY DemoAssumption
  <2>2. /\ req.purpose = "summarize" /\ req.data_region = "EU"
        /\ req.caller_region = IF i = 1 THEN "EU" ELSE "US"
    BY <1>4
  <2>3. evaluate(DEFAULT_CLAUSES, req).allowed
           <=> req.caller_region = req.data_region
    BY <1>5, <2>1, <2>2, DefaultPolicy
  <2> QED
    BY <1>7, <2>2, <2>3
<1>9. ASSUME NEW answer, NEW clause_id,
             Decision(i) = PolicyDecision(answer, clause_id, req),
             answer \in BOOLEAN
      PROVE  /\ Decision(i).allowed = Expected[i]
             /\ \E c, r : Decision(i) = PolicyDecision(Expected[i], c, r)
  <2>1. Decision(i).allowed = answer
    BY <1>9 DEF PolicyDecision
  <2>2. answer = Expected[i]
    BY <1>6, <1>7, <1>8, <1>9, <2>1
  <2> QED
    BY <1>9, <2>1, <2>2
<1>10. CASE Decision(i) = DefaultDeny(req)
  BY <1>9, <1>10 DEF DefaultDeny
<1>11. ASSUME NEW clause, Decision(i) = ClauseDecision(clause, req)
       PROVE  /\ Decision(i).allowed = Expected[i]
              /\ \E c, r : Decision(i) = PolicyDecision(Expected[i], c, r)
  <2>1. Decision(i) = PolicyDecision(clause.predicate[req] = "allow",
                                     clause.id, req)
    BY <1>11 DEF ClauseDecision
  <2>2. (clause.predicate[req] = "allow") \in BOOLEAN
    OBVIOUS
  <2> QED
    BY <1>9, <2>1, <2>2
<1> QED
  BY <1>5, <1>6, <1>10, <1>11, EvaluateCases, DefaultClausesType

-----------------------------------------------------------------------------
(* The logs.                                                               *)

LEMMA NothingLogged == CallsLogged(<<>>)
BY CallCount DEF CallsLogged, Elements

\* Logging the next call adds its entry and leaves those before it alone.
LEMMA LogGrows ==
    ASSUME NEW entries, CallsLogged(entries), Len(entries) < Len(calls)
    PROVE  LET n == Len(entries) + 1
               new == append_decision(entries, Decision(n))
           IN  /\ n \in 1..3
               /\ CallsLogged(new) /\ Len(new) = n
<1> DEFINE m == Len(entries)
           entry == next_entry(entries, Decision(m + 1))
           new == append_decision(entries, Decision(m + 1))
           S == Elements(entries) \union {entry}
<1>1. entries \in Seq(S) /\ entry \in S /\ m \in 0..2
  <2>1. m \in 0..2
    BY CallCount DEF CallsLogged
  <2>2. entries \in Seq(Elements(entries))
    BY DEF CallsLogged
  <2>3. entries \in Seq(S)
    BY <2>2
  <2> QED
    BY <2>1, <2>3
<1>2. new = Append(entries, entry)
  BY DEF append_decision
<1> HIDE DEF entry, new, S
<1>3. /\ new \in Seq(S)
      /\ Len(new) = m + 1
      /\ \A i \in 1..m : new[i] = entries[i]
      /\ new[m + 1] = entry
  BY <1>1, <1>2, AppendProperties
<1>4. new \in Seq(Elements(new))
  <2>1. DOMAIN new = 1..Len(new) /\ Len(new) \in Nat
    BY <1>3
  <2>2. \A i \in 1..Len(new) : new[i] \in Elements(new)
    BY <2>1 DEF Elements
  <2>3. new = [i \in 1..Len(new) |-> new[i]]
    BY <1>3
  <2> QED
    BY <2>1, <2>2, <2>3, IsASeq
<1>5. ASSUME NEW i \in 1..m
      PROVE  new[i] = Hashed(i - 1, Decision(i), expected_prev(new, i))
  <2>1. new[i] = entries[i] /\ (i # 1 => new[i - 1] = entries[i - 1])
    BY <1>1, <1>3
  <2>2. expected_prev(new, i) = expected_prev(entries, i)
    BY <2>1 DEF expected_prev
  <2> QED
    BY <2>1, <2>2 DEF CallsLogged
<1>6. last_hash(entries) = expected_prev(new, m + 1)
  <2>1. CASE m = 0
    <3>1. entries = <<>>
      BY <1>1, <2>1
    <3> QED
      BY <2>1, <3>1 DEF last_hash, expected_prev
  <2>2. CASE m # 0
    <3>1. entries # <<>> /\ m + 1 # 1 /\ (m + 1) - 1 = m /\ m \in 1..m
      BY <1>1, <2>2
    <3> QED
      BY <1>3, <3>1 DEF last_hash, expected_prev
  <2> QED
    BY <2>1, <2>2
<1>7. new[m + 1] = Hashed((m + 1) - 1, Decision(m + 1), expected_prev(new, m + 1))
  BY <1>1, <1>3, <1>6 DEF entry, next_entry
<1>8. \A i \in 1..(m + 1) : i \in 1..m \/ i = m + 1
  BY <1>1
<1>9. CallsLogged(new)
  BY <1>1, <1>3, <1>4, <1>5, <1>7, <1>8, CallCount DEF CallsLogged
<1> QED
  BY <1>1, <1>3, <1>9 DEF new

\* The log of the batch verifies, and holds the decisions of the calls.
LEMMA BatchVerifies ==
    ASSUME NEW entries, BatchLogged(entries)
    PROVE  /\ DOMAIN entries = 1..3
           /\ verify(entries).valid
           /\ [i \in DOMAIN entries |-> entries[i].decision] = Decisions
<1>1. DOMAIN entries = 1..3
  BY CallCount DEF BatchLogged, CallsLogged
<1>2. ASSUME NEW i \in 1..3
      PROVE  Intact(entries, i) /\ entries[i].decision = Decisions[i]
  <2> DEFINE e == Hashed(i - 1, Decision(i), expected_prev(entries, i))
  <2>1. entries[i] = e
    BY <1>2, CallCount DEF BatchLogged, CallsLogged
  <2>2. /\ e.decision = Decision(i) /\ e.prev_hash = expected_prev(entries, i)
        /\ ContentIntact(e)
    BY DEF Hashed, ContentIntact, compute_hash, canonical_payload
  <2> QED
    BY <2>1, <2>2 DEF Intact, Decision
<1>3. Broken(entries) = {}
  BY <1>1, <1>2 DEF Broken
<1>4. verify(entries).valid = TRUE
  BY <1>3 DEF verify
<1>5. Decisions = [i \in 1..3 |-> Decisions[i]]
  BY CallCount DEF Decisions
<1> QED
  BY <1>1, <1>2, <1>4, <1>5

\* A flipped verdict breaks its entry, and putting the entry back mends it.
LEMMA FlipIsSeen ==
    ASSUME NEW entries, BatchLogged(entries)
    PROVE  /\ ~ verify(Flipped(entries)).valid
           /\ [Flipped(entries) EXCEPT ![2] = entries[2]] = entries
<1> DEFINE flipped == Flipped(entries)
           e == entries[2]
           f == flipped[2]
<1>1. entries \in Seq(Elements(entries)) /\ DOMAIN entries = 1..3
  BY BatchVerifies DEF BatchLogged, CallsLogged
<1>2. e = Hashed(1, Decision(2), expected_prev(entries, 2))
  <2>1. 2 \in 1..Len(entries) /\ 2 - 1 = 1
    BY CallCount DEF BatchLogged
  <2> QED
    BY <2>1 DEF BatchLogged, CallsLogged
<1>3. PICK c, r : Decision(2) = PolicyDecision(FALSE, c, r)
  <2>1. 2 \in 1..3 /\ Expected[2] = FALSE
    BY DEF Expected
  <2> QED
    BY <2>1, VerdictsAsExpected
<1>4. f = [e EXCEPT !.decision = [e.decision EXCEPT !.allowed = TRUE]]
  BY <1>1 DEF Flipped
<1>5. /\ f.seq = e.seq /\ f.prev_hash = e.prev_hash
      /\ f.entry_hash = e.entry_hash
      /\ f.decision = [e.decision EXCEPT !.allowed = TRUE]
  BY <1>2, <1>4 DEF Hashed
<1>6. e.decision.allowed = FALSE /\ f.decision.allowed = TRUE
  BY <1>2, <1>3, <1>5 DEF Hashed, PolicyDecision
<1>7. canonical_payload(e) # canonical_payload(f)
  <2>1. canonical_payload(e).decision # canonical_payload(f).decision
    BY <1>6 DEF canonical_payload
  <2> QED
    BY <2>1
<1>8. e.entry_hash = compute_hash(e)
  BY <1>2 DEF Hashed, compute_hash, canonical_payload
<1>9. compute_hash(e) # compute_hash(f)
  BY <1>7 DEF compute_hash, sha256
<1>10. 2 \in Broken(flipped)
  <2>1. 2 \in DOMAIN flipped
    BY <1>1 DEF Flipped
  <2>2. ~ ContentIntact(f)
    BY <1>5, <1>8, <1>9 DEF ContentIntact
  <2> QED
    BY <2>1, <2>2 DEF Broken, Intact
<1>11. ~ verify(flipped).valid
  BY <1>10 DEF verify
<1>12. [flipped EXCEPT ![2] = e] = entries
  <2> DEFINE g == [e EXCEPT !.decision = [e.decision EXCEPT !.allowed = TRUE]]
  <2>1. flipped = [entries EXCEPT ![2] = g]
    BY DEF Flipped
  <2> HIDE DEF flipped, g
  <2>2. entries = [i \in 1..3 |-> entries[i]]
    BY <1>1
  <2>3. [flipped EXCEPT ![2] = e] = [i \in 1..3 |-> entries[i]]
    BY <1>1, <2>1
  <2> QED
    BY <2>2, <2>3
<1> QED
  BY <1>11, <1>12

-----------------------------------------------------------------------------
(* Every step keeps the invariant.                                         *)

\* What the store writes is a record.
LEMMA RecordTypes ==
    /\ NoRun \in DemoRecord /\ NoRun.status = "absent"
    /\ \A r \in DemoRecord : claimed(r) \in DemoRecord
    /\ \A r \in DemoRecord, f \in Roots, verdict \in BOOLEAN :
          LET marked == mark_complete(r, <<"decisions", f>>, verdict)
          IN  marked \in DemoRecord /\ marked.status = "complete"
<1>1. NoRun \in DemoRecord /\ NoRun.status = "absent"
  BY CapAssumption DEF NoRun, DemoRecord, Statuses
<1>2. ASSUME NEW n \in 0..Cap PROVE Count(n) \in 0..Cap
  BY CapAssumption DEF Count
<1>3. ASSUME NEW r \in DemoRecord PROVE claimed(r) \in DemoRecord
  <2>1. Count(r.attempts) \in 0..Cap
    BY <1>2 DEF DemoRecord
  <2> QED
    BY <2>1 DEF claimed, DemoRecord, Statuses
<1>4. ASSUME NEW r \in DemoRecord, NEW f \in Roots, NEW verdict \in BOOLEAN
      PROVE  LET marked == mark_complete(r, <<"decisions", f>>, verdict)
             IN  marked \in DemoRecord /\ marked.status = "complete"
  <2> DEFINE uri == <<"decisions", f>>
  <2>1. uri \in {<<"decisions", g>> : g \in Roots}
    OBVIOUS
  <2> HIDE DEF uri
  <2>2. mark_complete(r, uri, verdict) \in DemoRecord
    BY <2>1 DEF mark_complete, DemoRecord, Statuses
  <2>3. mark_complete(r, uri, verdict).status = "complete"
    BY DEF mark_complete, DemoRecord
  <2> QED
    BY <2>2, <2>3 DEF uri
<1> QED
  BY <1>1, <1>3, <1>4

LEMMA DemoInvInit == ASSUME Init PROVE DemoInv
<1>1. DemoTypes
  BY DemoAssumption, CallCount DEF Init, DemoTypes, DemoLabels, Roots
<1>2. ASSUME NEW d \in Demos PROVE Progress(d)
  BY <1>2, NothingLogged, RecordTypes DEF Init, Progress, Ticked
<1>3. Files
  <2>1. \A f \in Roots : file[f].state = "absent" /\ file[f].sole = "nobody"
    BY DEF Init, NoFile
  <2>2. FileTypes
    BY <2>1 DEF FileTypes
  <2>3. ASSUME NEW d \in Demos PROVE OwnFile(d)
    BY <2>3 DEF Init, OwnFile, Written, Ticked
  <2> QED
    BY <2>2, <2>3 DEF Files
<1> QED
  BY <1>1, <1>2, <1>3 DEF DemoInv

\* What a step of another process leaves alone.
Still(q) ==
    /\ pc'[q] = pc[q] /\ root'[q] = root[q] /\ next'[q] = next[q]
    /\ log'[q] = log[q] /\ tick_log'[q] = tick_log[q]
    /\ status'[q] = status[q] /\ record'[q] = record[q]

StepOf(d) == DemoStep(d) \/ Start(d) \/ Request(d) \/ Kill(d)

LEMMA StillKeeps ==
    ASSUME NEW q, Progress(q), Still(q)
    PROVE  Progress(q)'
BY DEF Progress, Still, Ticked

LEMMA OthersStill ==
    ASSUME DemoTypes, NEW d \in Demos, StepOf(d), NEW q \in Demos \ {d}
    PROVE  Still(q)
<1>1. CASE Act(d)
  BY <1>1 DEF Act, AssertDemo, Goto, DemoTypes, Still
<1>2. CASE Claim(d)
  BY <1>2 DEF Claim, Goto, DemoTypes, Still
<1>3. CASE ClaimRefused(d)
  BY <1>3 DEF ClaimRefused, Goto, DemoTypes, Still
<1>4. CASE TickCall(d)
  BY <1>4 DEF TickCall, DemoTypes, Still
<1>5. CASE OpenFile(d)
  BY <1>5 DEF OpenFile, Goto, DemoTypes, mainVars, Still
<1>6. CASE FillFile(d)
  BY <1>6 DEF FillFile, Goto, DemoTypes, mainVars, Still
<1>7. CASE Mark(d)
  BY <1>7 DEF Mark, Goto, DemoTypes, Still
<1>8. CASE TickReturned(d)
  BY <1>8 DEF TickReturned, AssertDemo, Goto, DemoTypes, mainVars, Still
<1>9. CASE Tamper(d)
  BY <1>9 DEF Tamper, AssertDemo, Goto, DemoTypes, mainVars, Still
<1>10. CASE Summary(d)
  BY <1>10 DEF Summary, Goto, DemoTypes, mainVars, Still
<1>11. CASE Start(d)
  BY <1>11 DEF Start, NewMain, Goto, DemoTypes, Still
<1>12. CASE Request(d)
  BY <1>12 DEF Request, NewMain, Goto, DemoTypes, Still
<1>13. CASE Kill(d)
  BY <1>13 DEF Kill, Goto, DemoTypes, mainVars, Still
<1> QED
  BY <1>1, <1>2, <1>3, <1>4, <1>5, <1>6, <1>7, <1>8, <1>9, <1>10, <1>11,
     <1>12, <1>13 DEF StepOf, DemoStep

LEMMA TypesKept ==
    ASSUME DemoTypes, NEW d \in Demos, StepOf(d)
    PROVE  DemoTypes'
<1>1. \A i : RunsOf(i) \in Nat
  BY DEF RunsOf
<1>2. /\ Len(calls) = 3 /\ DOMAIN calls = 1..3
      /\ MaxMains \in Nat /\ MaxKills \in Nat
  BY CallCount, DemoAssumption
<1>3. d \in Roots /\ "shared" \in Roots
  BY DEF Roots
<1>4. CASE Act(d)
  BY <1>1, <1>4 DEF Act, AssertDemo, Goto, DemoTypes, DemoLabels
<1>5. CASE Claim(d)
  BY <1>2, <1>5 DEF Claim, Goto, DemoTypes, DemoLabels
<1>6. CASE ClaimRefused(d)
  BY <1>6 DEF ClaimRefused, Goto, DemoTypes, DemoLabels
<1>7. CASE TickCall(d)
  BY <1>1, <1>2, <1>7 DEF TickCall, DemoTypes
<1>8. CASE OpenFile(d)
  BY <1>8 DEF OpenFile, Goto, DemoTypes, DemoLabels, mainVars
<1>9. CASE FillFile(d)
  BY <1>9 DEF FillFile, Goto, DemoTypes, DemoLabels, mainVars
<1>10. CASE Mark(d)
  BY <1>10 DEF Mark, Goto, DemoTypes, DemoLabels
<1>11. CASE TickReturned(d)
  BY <1>11 DEF TickReturned, AssertDemo, Goto, DemoTypes, DemoLabels, mainVars
<1>12. CASE Tamper(d)
  BY <1>12 DEF Tamper, AssertDemo, Goto, DemoTypes, DemoLabels, mainVars
<1>13. CASE Summary(d)
  BY <1>13 DEF Summary, Goto, DemoTypes, DemoLabels, mainVars
<1>14. ASSUME NewMain(d)
       PROVE  /\ mains' \in 0..MaxMains
              /\ pc' \in [Demos -> DemoLabels]
              /\ next' \in [Demos -> 0..Len(calls)]
              /\ DOMAIN log' = Demos /\ DOMAIN tick_log' = Demos
              /\ DOMAIN status' = Demos /\ DOMAIN record' = Demos
  BY <1>2, <1>14 DEF NewMain, Goto, DemoTypes, DemoLabels
<1>15. CASE Start(d)
  <2>1. NewMain(d) /\ UNCHANGED kills
    BY <1>15 DEF Start
  <2>2. /\ tool_runs' \in [Demos -> Nat]
        /\ root' \in [Demos -> Roots]
        /\ DOMAIN file' = Roots
    BY <1>3, <1>15 DEF Start, DemoTypes
  <2> QED
    BY <1>14, <2>1, <2>2 DEF DemoTypes
<1>16. CASE Request(d)
  <2>1. NewMain(d) /\ UNCHANGED <<root, tool_runs, kills>>
    BY <1>16 DEF Request
  <2>2. DOMAIN file' = Roots
    BY <1>16 DEF Request, DemoTypes
  <2> QED
    BY <1>14, <2>1, <2>2 DEF DemoTypes
<1>17. CASE Kill(d)
  BY <1>2, <1>17 DEF Kill, Goto, DemoTypes, DemoLabels, mainVars
<1> QED
  BY <1>4, <1>5, <1>6, <1>7, <1>8, <1>9, <1>10, <1>11, <1>12, <1>13, <1>15,
     <1>16, <1>17 DEF StepOf, DemoStep

\* The three statuses a main can have collected differ.
LEMMA StatusLengths ==
    LET one == <<"complete">>
        two == <<"complete", "skipped_complete">>
    IN  /\ Len(<<>>) = 0 /\ Len(one) = 1 /\ Len(two) = 2
        /\ Append(<<>>, "complete") = one
        /\ Append(one, "skipped_complete") = two
        /\ <<>> # one /\ one # two /\ <<>> # two
<1> DEFINE one == <<"complete">>
           two == <<"complete", "skipped_complete">>
           T == {"complete", "skipped_complete"}
<1>1. Len(<<>>) = 0 /\ Len(one) = 1 /\ Len(two) = 2
  OBVIOUS
<1>2. <<>> \in Seq(T) /\ one \in Seq(T) /\ two \in Seq(T)
  OBVIOUS
<1>3. /\ one[1] = "complete" /\ two[1] = "complete"
      /\ two[2] = "skipped_complete"
  OBVIOUS
<1> HIDE DEF one, two
<1>4. Append(<<>>, "complete") = one
  <2> DEFINE new == Append(<<>>, "complete")
  <2>1. new \in Seq(T) /\ Len(new) = 1 /\ new[1] = "complete"
    BY <1>1, <1>2, AppendProperties
  <2> HIDE DEF new
  <2>2. \A i \in 1..Len(new) : new[i] = one[i]
    BY <1>3, <2>1
  <2> QED
    BY <1>1, <1>2, <2>1, <2>2, SeqEqual DEF new
<1>5. Append(one, "skipped_complete") = two
  <2> DEFINE new == Append(one, "skipped_complete")
  <2>1. /\ new \in Seq(T) /\ Len(new) = 2
        /\ new[1] = one[1] /\ new[2] = "skipped_complete"
    <3>1. /\ new \in Seq(T) /\ Len(new) = Len(one) + 1
          /\ \A i \in 1..Len(one) : new[i] = one[i]
          /\ new[Len(one) + 1] = "skipped_complete"
      BY <1>2, AppendProperties
    <3> HIDE DEF new
    <3>2. 1 \in 1..Len(one) /\ Len(one) + 1 = 2
      BY <1>1
    <3> QED
      BY <3>1, <3>2
  <2> HIDE DEF new
  <2>2. \A i \in 1..Len(new) : i = 1 \/ i = 2
    BY <2>1
  <2> QED
    BY <1>1, <1>2, <1>3, <2>1, <2>2, SeqEqual DEF new
<1>6. <<>> # one /\ one # two /\ <<>> # two
  BY <1>1
<1> QED
  BY <1>1, <1>4, <1>5, <1>6 DEF one, two

\* A new main has logged nothing, claimed nothing and returned nothing.
LEMMA NewMainProgress ==
    ASSUME DemoTypes, NEW d \in Demos, NewMain(d), root'[d] \in {d, "shared"}
    PROVE  Progress(d)' /\ pc'[d] = "acts"
<1>1. /\ pc'[d] = "acts" /\ log'[d] = <<>> /\ tick_log'[d] = <<>>
      /\ status'[d] = <<>> /\ record'[d] = NoRun
  BY DEF NewMain, Goto, DemoTypes
<1>2. Len(<<>>) < Len(calls)
  BY CallCount
<1> QED
  BY <1>1, <1>2, NothingLogged, RecordTypes DEF Progress, Ticked

\* The acts' assertions hold: the verdict is the expected one, and the list of
\* tool runs, however long it was, has grown exactly if it was to.
LEMMA ActProgress ==
    ASSUME DemoTypes, NEW d \in Demos, Progress(d), Act(d)
    PROVE  Progress(d)' /\ pc'[d] \in {"acts", "claim"}
<1> DEFINE i == Len(log[d]) + 1
<1>1. /\ pc[d] = "acts" /\ CallsLogged(log[d]) /\ Len(log[d]) < Len(calls)
      /\ tick_log[d] = <<>> /\ ~ Ticked(d) /\ record[d].status = "absent"
      /\ root[d] \in {d, "shared"}
      /\ status[d] = <<>>
  BY DEF Act, Progress, Ticked
<1>2. /\ i \in 1..3
      /\ CallsLogged(append_decision(log[d], Decision(i)))
      /\ Len(append_decision(log[d], Decision(i))) = i
  BY <1>1, LogGrows
<1>3. /\ log'[d] = append_decision(log[d], Decision(i))
      /\ tool_runs'[d] = tool_runs[d] + RunsOf(i)
      /\ UNCHANGED <<root, tick_log, next, status, record>>
      /\ AssertDemo(d, /\ Decision(i).allowed = Expected[i]
                       /\ (tool_runs'[d] > tool_runs[d]) = Expected[i],
                    IF i = Len(calls) THEN "claim" ELSE "acts")
  BY DEF Act, DemoTypes
<1>4. Decision(i).allowed = Expected[i] /\ Expected[i] \in BOOLEAN
  <2>1. Expected[1] = TRUE /\ Expected[2] = FALSE /\ Expected[3] = FALSE
    BY DEF Expected
  <2>2. i = 1 \/ i = 2 \/ i = 3
    BY <1>2
  <2> QED
    BY <1>2, <2>1, <2>2, VerdictsAsExpected
<1>5. (tool_runs'[d] > tool_runs[d]) = Expected[i]
  <2>1. tool_runs[d] \in Nat
    BY DEF DemoTypes
  <2>2. CASE Expected[i] = TRUE
    <3>1. RunsOf(i) = 1
      BY <1>4, <2>2 DEF RunsOf
    <3>2. (tool_runs'[d] > tool_runs[d]) = TRUE
      BY <1>3, <2>1, <3>1
    <3> QED
      BY <2>2, <3>2
  <2>3. CASE Expected[i] = FALSE
    <3>1. RunsOf(i) = 0
      BY <1>4, <2>3 DEF RunsOf
    <3>2. (tool_runs'[d] > tool_runs[d]) = FALSE
      BY <1>3, <2>1, <3>1
    <3> QED
      BY <2>3, <3>2
  <2> QED
    BY <1>4, <2>2, <2>3
<1>6. pc'[d] = IF i = Len(calls) THEN "claim" ELSE "acts"
  BY <1>3, <1>4, <1>5 DEF AssertDemo, Goto, DemoTypes
<1> HIDE DEF i
<1>7. i # Len(calls) => i < Len(calls)
  BY <1>2, CallCount
<1> QED
  BY <1>1, <1>2, <1>3, <1>6, <1>7, NothingLogged DEF Progress, Ticked, Statuses

\* The calls of the tick are logged one by one.
LEMMA TickCallProgress ==
    ASSUME DemoTypes, NEW d \in Demos, Progress(d), TickCall(d)
    PROVE  Progress(d)' /\ pc'[d] = "tick"
<1> DEFINE i == next[d] + 1
<1>1. /\ pc[d] = "tick" /\ i \in 1..3
      /\ CallsLogged(tick_log[d]) /\ Len(tick_log[d]) = next[d]
  BY CallCount DEF TickCall, Progress
<1>2. Len(tick_log[d]) < Len(calls)
  BY <1>1, CallCount DEF DemoTypes
<1>3. /\ CallsLogged(append_decision(tick_log[d], Decision(i)))
      /\ Len(append_decision(tick_log[d], Decision(i))) = i
  BY <1>1, <1>2, LogGrows
<1>4. /\ tick_log'[d] = append_decision(tick_log[d], Decision(i))
      /\ next'[d] = i
      /\ UNCHANGED <<pc, root, log, status, record>>
  BY DEF TickCall, DemoTypes
<1> HIDE DEF i
<1> QED
  BY <1>1, <1>3, <1>4 DEF Progress, Ticked

\* The log the tick stores is that of the batch.
LEMMA TickDone ==
    ASSUME DemoTypes, NEW d \in Demos, Progress(d), pc[d] = "tick",
           next[d] = Len(calls)
    PROVE  BatchLogged(tick_log[d])
BY DEF Progress, BatchLogged

\* What act 5 asserts: of the calls some are allowed and some are not.
LEMMA BothVerdicts == {Decision(i).allowed : i \in DOMAIN calls} = BOOLEAN
<1>1. \A i \in 1..3 : Decision(i).allowed = Expected[i]
  BY VerdictsAsExpected
<1>2. Expected[1] = TRUE /\ Expected[2] = FALSE /\ Expected[3] = FALSE
  BY DEF Expected
<1>3. 1 \in 1..3 /\ 2 \in 1..3 /\ \A i \in 1..3 : i = 1 \/ i = 2 \/ i = 3
  OBVIOUS
<1>4. \A i \in 1..3 : Decision(i).allowed \in BOOLEAN
  BY <1>1, <1>2, <1>3
<1>5. Decision(1).allowed = TRUE /\ Decision(2).allowed = FALSE
  BY <1>1, <1>2, <1>3
<1> QED
  BY <1>3, <1>4, <1>5, CallCount

\* Where the process goes next is where the assertions it has just made send
\* it, and what it holds is what that place asks for.
LEMMA ActorProgress ==
    ASSUME DemoTypes, NEW d \in Demos, Progress(d), StepOf(d)
    PROVE  Progress(d)'
<1>1. CASE Act(d)
  BY <1>1, ActProgress
<1>2. CASE Claim(d)
  <2>1. /\ pc[d] = "claim" /\ record[d].status # "complete"
        /\ record'[d] = claimed(record[d])
        /\ next'[d] = 0 /\ pc'[d] = "tick"
        /\ UNCHANGED <<root, log, tick_log, status>>
    BY <1>2 DEF Claim, may_proceed, Goto, DemoTypes
  <2>2. ~ Ticked(d) /\ tick_log[d] = <<>> /\ Len(<<>>) = 0
    BY <2>1 DEF Progress, Ticked
  <2>3. record'[d] \in DemoRecord
    BY <2>1, RecordTypes DEF Progress
  <2> QED
    BY <2>1, <2>2, <2>3 DEF Progress, Ticked
<1>3. CASE ClaimRefused(d)
  <2>1. /\ pc[d] = "claim" /\ record[d].status = "complete"
        /\ status'[d] = Append(status[d], "skipped_complete")
        /\ pc'[d] = "returned"
        /\ UNCHANGED <<root, log, tick_log, next, record>>
    BY <1>3 DEF ClaimRefused, may_proceed, Goto, DemoTypes
  <2>2. status[d] = <<"complete">> /\ BatchLogged(tick_log[d])
    BY <2>1, StatusLengths DEF Progress, Ticked
  <2>3. status'[d] = <<"complete", "skipped_complete">>
    BY <2>1, <2>2, StatusLengths
  <2> QED
    BY <2>1, <2>2, <2>3, StatusLengths DEF Progress, Ticked
<1>4. CASE TickCall(d)
  BY <1>4, TickCallProgress
<1>5. CASE OpenFile(d)
  <2>1. /\ pc[d] = "tick" /\ pc'[d] = "fill"
        /\ UNCHANGED <<root, log, tick_log, next, status, record>>
    BY <1>5 DEF OpenFile, Goto, DemoTypes, mainVars
  <2>2. BatchLogged(tick_log[d])
    BY <1>5, TickDone DEF OpenFile
  <2> QED
    BY <2>1, <2>2 DEF Progress, Ticked
<1>6. CASE FillFile(d)
  <2>1. /\ pc[d] = "fill" /\ pc'[d] = "mark"
        /\ UNCHANGED <<root, log, tick_log, next, status, record>>
    BY <1>6 DEF FillFile, Goto, DemoTypes, mainVars
  <2> QED
    BY <2>1 DEF Progress, Ticked
<1>7. CASE Mark(d)
  <2>1. /\ pc[d] = "mark" /\ pc'[d] = "returned"
        /\ record'[d] = mark_complete(record[d], Uri(d),
                                      verify(tick_log[d]).valid)
        /\ status'[d] = Append(status[d], "complete")
        /\ UNCHANGED <<root, log, tick_log, next>>
    BY <1>7 DEF Mark, Goto, DemoTypes
  <2>2. status[d] = <<>> /\ BatchLogged(tick_log[d])
    BY <2>1 DEF Progress, Ticked
  <2>3. status'[d] = <<"complete">>
    BY <2>1, <2>2, StatusLengths
  <2>4. record'[d] \in DemoRecord /\ record'[d].status = "complete"
    <3>1. record[d] \in DemoRecord /\ root[d] \in Roots
      BY DEF Progress, DemoTypes
    <3>2. verify(tick_log[d]).valid \in BOOLEAN
      BY DEF verify
    <3> QED
      BY <2>1, <3>1, <3>2, RecordTypes DEF Uri
  <2> QED
    BY <2>1, <2>2, <2>3, <2>4, StatusLengths DEF Progress, Ticked
<1>8. CASE TickReturned(d)
  <2>1. /\ pc[d] = "returned"
        /\ UNCHANGED <<root, log, tick_log, next, status, record>>
    BY <1>8 DEF TickReturned, mainVars
  <2>2. CASE status[d] = <<"complete">>
    <3>1. pc'[d] = "claim" /\ record[d].status = "complete"
      BY <1>8, <2>1, <2>2, StatusLengths
         DEF TickReturned, Goto, DemoTypes, Progress
    <3> QED
      BY <2>1, <2>2, <3>1, StatusLengths DEF Progress, Ticked
  <2>3. CASE status[d] = <<"complete", "skipped_complete">>
    <3>1. pc'[d] = "tamper"
      <4>1. Len(status[d]) # 1
        BY <2>3, StatusLengths
      <4>2. AssertDemo(d, /\ status[d] = <<"complete", "skipped_complete">>
                          /\ {Decision(i).allowed : i \in DOMAIN calls} = BOOLEAN,
                       "tamper")
        BY <1>8, <4>1 DEF TickReturned
      <4> QED
        BY <2>3, <4>2, BothVerdicts DEF AssertDemo, Goto, DemoTypes
    <3> QED
      BY <2>1, <2>3, <3>1, StatusLengths DEF Progress, Ticked
  <2> QED
    BY <2>1, <2>2, <2>3 DEF Progress
<1>9. CASE Tamper(d)
  <2>1. /\ pc[d] = "tamper"
        /\ UNCHANGED <<root, log, tick_log, next, status, record>>
    BY <1>9 DEF Tamper, mainVars
  <2>2. BatchLogged(tick_log[d])
    BY <2>1 DEF Progress
  <2>3. /\ verify(tick_log[d]).valid
        /\ ~ verify(Flipped(tick_log[d])).valid
        /\ verify([Flipped(tick_log[d]) EXCEPT ![2] = tick_log[d][2]]).valid
    BY <2>2, BatchVerifies, FlipIsSeen
  <2>4. pc'[d] = "summary"
    BY <1>9, <2>3 DEF Tamper, AssertDemo, Goto, DemoTypes
  <2> QED
    BY <2>1, <2>4 DEF Progress, Ticked
<1>10. CASE Summary(d)
  <2>1. /\ pc'[d] \in {"ok", "raised"}
        /\ UNCHANGED <<root, log, tick_log, next, status, record>>
    BY <1>10 DEF Summary, Goto, DemoTypes, mainVars
  <2> QED
    BY <2>1 DEF Progress, Ticked
<1>11. CASE Start(d)
  <2>1. NewMain(d) /\ root'[d] \in {d, "shared"}
    BY <1>11 DEF Start, DemoTypes
  <2> QED
    BY <2>1, NewMainProgress
<1>12. CASE Request(d)
  <2>1. NewMain(d) /\ root'[d] \in {d, "shared"}
    BY <1>12 DEF Request, Progress
  <2> QED
    BY <2>1, NewMainProgress
<1>13. CASE Kill(d)
  <2>1. /\ pc'[d] = "off"
        /\ UNCHANGED <<root, log, tick_log, next, status, record>>
    BY <1>13 DEF Kill, Goto, DemoTypes, mainVars
  <2> QED
    BY <2>1 DEF Progress, Ticked
<1> QED
  BY <1>1, <1>2, <1>3, <1>4, <1>5, <1>6, <1>7, <1>8, <1>9, <1>10, <1>11,
     <1>12, <1>13 DEF StepOf, DemoStep

\* A step that writes no file keeps the account of them, if it brings no
\* process to where it has opened or written one.
LEMMA FilesUntouched ==
    ASSUME Files, UNCHANGED <<file, root>>,
           \A q \in Demos : /\ pc'[q] = "fill" => pc[q] = "fill"
                            /\ Written(q)' => Written(q)
    PROVE  Files'
<1>1. FileTypes'
  BY DEF Files, FileTypes
<1>2. ASSUME NEW q \in Demos PROVE OwnFile(q)'
  BY <1>2 DEF Files, OwnFile
<1> QED
  BY <1>1, <1>2 DEF Files

\* Another process's account of its file stands if the file does.
LEMMA OthersFile ==
    ASSUME NEW q \in Demos, OwnFile(q), Still(q),
           root[q] \in {q, "shared"}, file'[root[q]] = file[root[q]]
    PROVE  OwnFile(q)'
BY DEF OwnFile, Written, Ticked, Still

\* A new main has opened nothing yet, and in a directory of its own there is
\* nothing yet either.
LEMMA NewMainFiles ==
    ASSUME Files, DemoTypes, NEW d \in Demos, NewMain(d),
           \A q \in Demos \ {d} : Still(q) /\ Progress(q),
           file' = [file EXCEPT ![d] = NoFile]
    PROVE  Files'
<1>1. pc'[d] = "acts" /\ d # "shared" /\ d \in Roots
  BY DemoAssumption DEF NewMain, Goto, DemoTypes, Roots
<1>2. /\ file'[d] = NoFile
      /\ \A f \in Roots \ {d} : file'[f] = file[f]
  BY <1>1 DEF DemoTypes
<1>3. FileTypes'
  <2>1. \A f \in Roots : f = d \/ f \in Roots \ {d}
    OBVIOUS
  <2>2. NoFile.state = "absent" /\ NoFile.sole = "nobody"
    BY DEF NoFile
  <2> QED
    BY <1>2, <2>1, <2>2 DEF Files, FileTypes
<1>4. OwnFile(d)'
  <2>1. ~ Written(d)' /\ pc'[d] # "fill"
    BY <1>1 DEF Written
  <2> QED
    BY <2>1 DEF OwnFile
<1>5. ASSUME NEW q \in Demos \ {d} PROVE OwnFile(q)'
  <2>1. root[q] \in {q, "shared"} /\ root[q] \in Roots \ {d}
    BY <1>1 DEF Progress, Roots
  <2> QED
    BY <1>2, <2>1, OthersFile DEF Files
<1> QED
  BY <1>3, <1>4, <1>5 DEF Files

\* What a write leaves: the log of the batch, or a mixed text if another
\* process filled the file first.
LEMMA WhatIsLaid ==
    ASSUME NEW previous, NEW d, NEW entries,
           NEW content \in Overlaid(previous, d, entries)
    PROVE  /\ content.state \in {"whole", "mixed"}
           /\ content.state = "whole" => content.entries = entries
           /\ previous.state = "torn" => content.state = "whole"
           /\ content.sole = IF previous.sole = d THEN d ELSE "nobody"
<1>1. PICK text \in IF previous.state = "torn" THEN {"whole"}
                                               ELSE {"whole", "mixed"} :
        content = [state |-> text,
                   entries |-> IF text = "whole" THEN entries ELSE <<>>,
                   sole |-> IF previous.sole = d THEN d ELSE "nobody"]
  BY DEF Overlaid
<1> QED
  BY <1>1

\* Opening and filling concern one file, and take it from who had it.
LEMMA WriterFiles ==
    ASSUME Files, DemoTypes, NEW d \in Demos, Progress(d),
           OpenFile(d) \/ FillFile(d),
           \A q \in Demos \ {d} : Still(q) /\ Progress(q)
    PROVE  Files'
<1> DEFINE f == root[d]
           new == file'[root[d]]
<1>1. f \in Roots /\ f \in {d, "shared"} /\ d # "shared" /\ d # "nobody"
  BY DemoAssumption DEF Progress, DemoTypes, Roots
<1>2. UNCHANGED root /\ \A g \in Roots \ {f} : file'[g] = file[g]
  BY <1>1 DEF OpenFile, FillFile, DemoTypes
<1>3. \/ /\ pc'[d] = "fill" /\ new.state = "torn" /\ new.sole = d
         /\ ~ Written(d)'
      \/ /\ pc'[d] = "mark" /\ new.state \in {"whole", "mixed"}
         /\ new.sole = IF file[f].sole = d THEN d ELSE "nobody"
         /\ new.state = "whole" => BatchLogged(new.entries)
         /\ file[f].sole = d => new.state = "whole"
         /\ pc[d] = "fill"
  <2>1. CASE OpenFile(d)
    <3>1. new = [state |-> "torn", entries |-> <<>>, sole |-> d]
      BY <1>1, <2>1 DEF OpenFile, DemoTypes
    <3>2. pc'[d] = "fill"
      BY <2>1 DEF OpenFile, Goto, DemoTypes
    <3> QED
      BY <3>1, <3>2 DEF Written
  <2>2. CASE FillFile(d)
    <3>1. BatchLogged(tick_log[d]) /\ pc[d] = "fill" /\ pc'[d] = "mark"
      BY <2>2 DEF FillFile, Progress, Goto, DemoTypes
    <3>2. new \in Overlaid(file[f], d, tick_log[d])
      BY <1>1, <2>2 DEF FillFile, DemoTypes
    <3>3. file[f].sole = d => file[f].state = "torn"
      BY <3>1 DEF Files, OwnFile
    <3> HIDE DEF new, f
    <3> QED
      BY <3>1, <3>2, <3>3, WhatIsLaid
  <2> QED
    BY <2>1, <2>2
<1>4. FileTypes'
  <2>1. \A g \in Roots : g = f \/ g \in Roots \ {f}
    OBVIOUS
  <2>2. /\ new.state \in {"absent", "torn", "whole", "mixed"}
        /\ new.sole \in Demos \union {"nobody"}
        /\ new.state = "whole" => BatchLogged(new.entries)
    BY <1>3
  <2> QED
    BY <1>2, <2>1, <2>2 DEF Files, FileTypes
<1>5. OwnFile(d)'
  <2>1. root'[d] = f /\ file'[root'[d]] = new
    BY <1>2
  <2>2. new.sole = d => /\ pc'[d] = "fill" => new.state = "torn"
                        /\ Written(d)' => new.state = "whole"
    BY <1>1, <1>3
  <2>3. f = d => new.sole = d
    <3>1. f = d /\ pc[d] = "fill" => file[f].sole = d
      BY DEF Files, OwnFile
    <3> QED
      BY <1>3, <3>1
  <2> HIDE DEF new
  <2> QED
    BY <2>1, <2>2, <2>3 DEF OwnFile
<1>6. ASSUME NEW q \in Demos \ {d} PROVE OwnFile(q)'
  <2>1. OwnFile(q) /\ Still(q) /\ root[q] \in {q, "shared"} /\ root[q] \in Roots
    BY DEF Files, Progress, Roots
  <2>2. CASE root[q] # f
    BY <1>2, <2>1, <2>2, OthersFile
  <2>3. CASE root[q] = f
    <3>1. root'[q] = f /\ f # q
      BY <1>1, <1>2, <2>1, <2>3, DemoAssumption
    <3>2. new.sole # q
      BY <1>1, <1>3, DemoAssumption
    <3> QED
      BY <3>1, <3>2 DEF OwnFile
  <2> QED
    BY <2>2, <2>3
<1> QED
  BY <1>4, <1>5, <1>6 DEF Files

LEMMA FilesKept ==
    ASSUME DemoInv, NEW d \in Demos, StepOf(d)
    PROVE  Files'
<1>1. Files /\ DemoTypes /\ DemoTypes' /\ Progress(d)
  BY TypesKept DEF DemoInv
<1>2. \A q \in Demos \ {d} : Still(q) /\ Progress(q)
  BY <1>1, OthersStill DEF DemoInv
<1>3. \A q \in Demos \ {d} : /\ Written(q)' <=> Written(q)
                             /\ pc'[q] = pc[q]
  BY <1>2 DEF Written, Still, Ticked
<1>4. ASSUME UNCHANGED <<file, root>>,
             Written(d)' => Written(d), pc'[d] # "fill"
      PROVE  Files'
  <2>1. \A q \in Demos : /\ pc'[q] = "fill" => pc[q] = "fill"
                         /\ Written(q)' => Written(q)
    BY <1>3, <1>4
  <2> QED
    BY <1>1, <1>4, <2>1, FilesUntouched
<1>5. CASE Act(d)
  <2>1. pc'[d] \in {"acts", "claim"} /\ pc[d] = "acts" /\ ~ Ticked(d)
    BY <1>1, <1>5, ActProgress DEF Act, Progress
  <2>2. UNCHANGED <<file, root, status>>
    BY <1>5 DEF Act
  <2> QED
    BY <1>4, <2>1, <2>2 DEF Written, Ticked
<1>6. CASE Claim(d)
  <2>1. /\ pc'[d] = "tick" /\ pc[d] = "claim"
        /\ UNCHANGED <<file, root>>
    BY <1>1, <1>6 DEF Claim, Goto, DemoTypes
  <2> QED
    BY <1>4, <2>1 DEF Written
<1>7. CASE ClaimRefused(d)
  <2>1. /\ pc[d] = "claim" /\ record[d].status = "complete"
        /\ pc'[d] = "returned" /\ UNCHANGED <<file, root>>
    BY <1>1, <1>7 DEF ClaimRefused, may_proceed, Goto, DemoTypes
  <2>2. Ticked(d)
    BY <1>1, <2>1, StatusLengths DEF Progress, Ticked
  <2> QED
    BY <1>4, <2>1, <2>2 DEF Written
<1>8. CASE TickCall(d)
  <2>1. pc[d] = "tick" /\ UNCHANGED <<pc, file, root>>
    BY <1>8 DEF TickCall
  <2> QED
    BY <1>4, <2>1 DEF Written
<1>9. CASE OpenFile(d) \/ FillFile(d)
  BY <1>1, <1>2, <1>9, WriterFiles
<1>10. CASE Mark(d)
  <2>1. /\ pc[d] = "mark" /\ pc'[d] = "returned"
        /\ UNCHANGED <<file, root>>
    BY <1>1, <1>10 DEF Mark, Goto, DemoTypes
  <2> QED
    BY <1>4, <2>1 DEF Written
<1>11. CASE TickReturned(d)
  <2>1. /\ pc[d] = "returned" /\ pc'[d] # "fill"
        /\ UNCHANGED <<file, root>>
    BY <1>1, <1>11 DEF TickReturned, AssertDemo, Goto, DemoTypes
  <2> QED
    BY <1>4, <2>1 DEF Written
<1>12. CASE Tamper(d)
  <2>1. /\ pc[d] = "tamper" /\ pc'[d] # "fill"
        /\ UNCHANGED <<file, root>>
    BY <1>1, <1>12 DEF Tamper, AssertDemo, Goto, DemoTypes
  <2> QED
    BY <1>4, <2>1 DEF Written
<1>13. CASE Summary(d)
  <2>1. /\ pc[d] = "summary" /\ pc'[d] # "fill"
        /\ UNCHANGED <<file, root>>
    BY <1>1, <1>13 DEF Summary, Goto, DemoTypes
  <2> QED
    BY <1>4, <2>1 DEF Written
<1>14. CASE Start(d)
  <2>1. NewMain(d) /\ file' = [file EXCEPT ![d] = NoFile]
    BY <1>14 DEF Start
  <2> QED
    BY <1>1, <1>2, <2>1, NewMainFiles
<1>15. CASE Request(d)
  <2>1. NewMain(d) /\ file' = [file EXCEPT ![d] = NoFile]
    BY <1>15 DEF Request
  <2> QED
    BY <1>1, <1>2, <2>1, NewMainFiles
<1>16. CASE Kill(d)
  <2>1. pc'[d] = "off" /\ UNCHANGED <<file, root>>
    BY <1>1, <1>16 DEF Kill, Goto, DemoTypes
  <2> QED
    BY <1>4, <2>1 DEF Written
<1> QED
  BY <1>5, <1>6, <1>7, <1>8, <1>9, <1>10, <1>11, <1>12, <1>13, <1>14,
     <1>15, <1>16 DEF StepOf, DemoStep

LEMMA DemoInvStep ==
    ASSUME DemoInv, [Next]_vars
    PROVE  DemoInv'
<1>1. CASE UNCHANGED vars
  <2>1. DemoTypes'
    BY <1>1 DEF vars, mainVars, DemoInv, DemoTypes
  <2>2. \A d \in Demos : Progress(d)'
    BY <1>1 DEF vars, mainVars, DemoInv, Progress, Ticked
  <2>3. Files'
    BY <1>1 DEF vars, mainVars, DemoInv, Files, FileTypes, OwnFile, Written,
                     Ticked
  <2> QED
    BY <2>1, <2>2, <2>3 DEF DemoInv
<1>2. ASSUME NEW d \in Demos, StepOf(d)
      PROVE  DemoInv'
  <2>1. DemoTypes /\ DemoTypes'
    BY <1>2, TypesKept DEF DemoInv
  <2>2. ASSUME NEW q \in Demos \ {d} PROVE Progress(q)'
    BY <1>2, <2>1, OthersStill, StillKeeps DEF DemoInv
  <2>3. Progress(d)'
    BY <1>2, <2>1, ActorProgress DEF DemoInv
  <2>4. Files'
    BY <1>2, FilesKept
  <2> QED
    BY <2>1, <2>2, <2>3, <2>4 DEF DemoInv
<1> QED
  BY <1>1, <1>2 DEF Next, StepOf

LEMMA DemoInvariant == Spec => []DemoInv
BY DemoInvInit, DemoInvStep, PTL DEF Spec

-----------------------------------------------------------------------------
(* What it shows.                                                          *)

\* However many demos share a directory and are killed in it, logs, records
\* and counters stay what they are declared to be.
THEOREM DemoTypeCorrect == Spec => []TypeOK
<1>1. ASSUME DemoInv, NEW d \in Demos
      PROVE  /\ Len(log[d]) \in 0..Len(calls)
             /\ Len(tick_log[d]) \in 0..Len(calls)
             /\ Len(status[d]) \in 0..2
             /\ record[d].status \in Statuses
  <2>1. Progress(d)
    BY <1>1 DEF DemoInv
  <2>2. Len(status[d]) \in 0..2
    BY <2>1, StatusLengths DEF Progress
  <2> QED
    BY <2>1, <2>2 DEF Progress, CallsLogged, DemoRecord
<1>2. DemoInv => TypeOK
  BY <1>1 DEF DemoInv, DemoTypes, Files, FileTypes, TypeOK
<1> QED
  BY <1>2, DemoInvariant, PTL

\* No assertion of the demo can fail, in whatever request of however old a
\* process, next to however many others (demo_local.py, main;
\* agentspine/transcript.py, assert_demo).
THEOREM AssertionsHold == Spec => []NoAssertionFails
<1>1. DemoInv => NoAssertionFails
  BY DEF DemoInv, Progress, NoAssertionFails
<1> QED
  BY <1>1, DemoInvariant, PTL

\* An artifact that can be read back, whoever wrote to it, is the log of one
\* batch: every call once, in order, and the chain verifies (job/tick.py,
\* run_job_tick).
THEOREM ArtifactIsOneBatch == Spec => []FileIsTheBatch
<1>1. DemoInv => FileIsTheBatch
  BY BatchVerifies DEF DemoInv, Files, FileTypes, FileIsTheBatch
<1> QED
  BY <1>1, DemoInvariant, PTL

\* A demo raises only over a shared file that another process wrote to after
\* it had opened it; whatever earlier mains, kills and overlapping writes left
\* there is gone by then (demo_local.py, main; agentspine/artifacts.py,
\* LocalBackend.write).
THEOREM RaisingIsSharing == Spec => OnlySharersRaise
<1> DEFINE Raises(d) == pc[d] # "raised" /\ pc'[d] = "raised"
<1>1. ASSUME DemoInv, [Next]_vars, NEW d \in Demos, Raises(d)
      PROVE  root[d] = "shared" /\ file["shared"].sole # d
  <2>1. DemoTypes /\ Progress(d) /\ Files
    BY <1>1 DEF DemoInv
  <2>2. PICK e \in Demos : StepOf(e)
    BY <1>1 DEF Next, StepOf, vars
  <2>3. e = d
    BY <1>1, <2>1, <2>2, OthersStill DEF Still
  <2>4. Summary(d)
    <3>1. ~ Act(d)
      BY <1>1, <2>1, ActProgress
    <3>2. ~ Claim(d) /\ ~ ClaimRefused(d) /\ ~ TickCall(d)
      BY <1>1, <2>1 DEF Claim, ClaimRefused, TickCall, Goto, DemoTypes
    <3>3. ~ OpenFile(d) /\ ~ FillFile(d) /\ ~ Mark(d)
      BY <1>1, <2>1 DEF OpenFile, FillFile, Mark, Goto, DemoTypes
    <3>4. ~ TickReturned(d) /\ ~ Tamper(d)
      BY <1>1, <2>1 DEF TickReturned, Tamper, AssertDemo, Goto, DemoTypes
    <3>5. ~ Start(d) /\ ~ Request(d) /\ ~ Kill(d)
      BY <1>1, <2>1 DEF Start, Request, Kill, NewMain, Goto, DemoTypes
    <3> QED
      BY <2>2, <2>3, <3>1, <3>2, <3>3, <3>4, <3>5 DEF StepOf, DemoStep
  <2>5. pc[d] = "summary" /\ file[root[d]].state # "whole"
    BY <1>1, <2>1, <2>4 DEF Summary, Goto, DemoTypes
  <2>6. Written(d)
    BY <2>5 DEF Written
  <2>7. file[root[d]].sole # d
    BY <2>1, <2>5, <2>6 DEF Files, OwnFile
  <2>8. root[d] = "shared"
    BY <2>1, <2>6, <2>7 DEF Progress, Files, OwnFile
  <2> QED
    BY <2>7, <2>8
<1>2. DemoInv /\ [Next]_vars
         => [\A d \in Demos : pc[d] # "raised" /\ pc'[d] = "raised" =>
                root[d] = "shared" /\ file["shared"].sole # d]_vars
  BY <1>1
<1> QED
  BY <1>2, DemoInvariant, PTL DEF Spec, OnlySharersRaise
=============================================================================
