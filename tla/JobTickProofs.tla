---------------------------- MODULE JobTickProofs ----------------------------
(***************************************************************************)
(* Proofs about JobTick for every number of processes, runs and faults and *)
(* every batch.  What holds of the record and the artifact together needs  *)
(* the atomic writes of the cloud backend, so those theorems assume it.    *)
(***************************************************************************)
EXTENDS JobTick, SequenceTheorems, TLAPS

-----------------------------------------------------------------------------
(* The decision log.                                                       *)

\* A log as a tick builds it: the decisions of the first calls of the batch,
\* every entry hashed and linked.
BatchPrefix(entries) ==
    /\ entries \in Seq(Elements(entries))
    /\ Len(entries) <= Len(Batch)
    /\ \A i \in 1..Len(entries) : /\ entries[i].decision = Decision(i)
                                  /\ Intact(entries, i)

\* append_decision adds one entry and leaves those before it alone.
LEMMA AppendAdds ==
    ASSUME NEW entries, entries \in Seq(Elements(entries)), NEW decision
    PROVE  LET new == append_decision(entries, decision)
           IN  /\ new \in Seq(Elements(new))
               /\ Len(new) = Len(entries) + 1
               /\ \A i \in 1..Len(entries) : new[i] = entries[i]
               /\ new[Len(entries) + 1] = next_entry(entries, decision)
<1> DEFINE new == append_decision(entries, decision)
           entry == next_entry(entries, decision)
           S == Elements(entries) \union {entry}
<1>1. new = Append(entries, entry)
  BY DEF append_decision
<1>2. entries \in Seq(S) /\ entry \in S
  OBVIOUS
<1> HIDE DEF entry, S
<1>3. /\ new \in Seq(S)
      /\ Len(new) = Len(entries) + 1
      /\ \A i \in 1..Len(entries) : new[i] = entries[i]
      /\ new[Len(entries) + 1] = entry
  BY <1>1, <1>2, AppendProperties
<1>4. new \in Seq(Elements(new))
  <2>1. DOMAIN new = 1..Len(new) /\ Len(new) \in Nat
    BY <1>3
  <2>2. \A i \in 1..Len(new) : new[i] \in Elements(new)
    BY <2>1 DEF Elements
  <2>3. new = [i \in 1..Len(new) |-> new[i]]
    BY <1>3
  <2> QED
    BY <2>1, <2>2, <2>3, IsASeq
<1> QED
  BY <1>3, <1>4 DEF entry

\* The entry append_decision adds is hashed and linked to the last one.
LEMMA NextEntryIntact ==
    ASSUME NEW entries, entries \in Seq(Elements(entries)), NEW decision
    PROVE  LET entry == next_entry(entries, decision)
           IN  /\ entry.decision = decision
               /\ ContentIntact(entry)
               /\ entry.prev_hash = last_hash(entries)
BY DEF next_entry, Hashed, ContentIntact, compute_hash, canonical_payload

\* The empty log is a prefix of every batch.
LEMMA EmptyIsPrefix == BatchPrefix(<<>>)
BY JobAssumption DEF BatchPrefix, Elements

\* Logging the decision of the next call keeps the log a prefix of the batch.
LEMMA PrefixGrows ==
    ASSUME NEW entries, BatchPrefix(entries), Len(entries) + 1 \in DOMAIN Batch
    PROVE  LET new == append_decision(entries, Decision(Len(entries) + 1))
           IN  BatchPrefix(new) /\ Len(new) = Len(entries) + 1
<1> DEFINE n == Len(entries)
           new == append_decision(entries, Decision(n + 1))
<1>1. entries \in Seq(Elements(entries)) /\ n \in Nat
  BY DEF BatchPrefix
<1>2. /\ new \in Seq(Elements(new))
      /\ Len(new) = n + 1
      /\ \A i \in 1..n : new[i] = entries[i]
      /\ new[n + 1] = next_entry(entries, Decision(n + 1))
  BY <1>1, AppendAdds
<1>3. n + 1 <= Len(Batch)
  BY <1>1, JobAssumption
<1>4. ASSUME NEW i \in 1..n
      PROVE  new[i].decision = Decision(i) /\ Intact(new, i)
  <2>1. entries[i].decision = Decision(i) /\ Intact(entries, i)
    BY DEF BatchPrefix
  <2>2. new[i] = entries[i] /\ (i # 1 => new[i - 1] = entries[i - 1])
    BY <1>1, <1>2
  <2> QED
    BY <2>1, <2>2 DEF Intact, expected_prev
<1>5. new[n + 1].decision = Decision(n + 1) /\ Intact(new, n + 1)
  <2>1. /\ new[n + 1].decision = Decision(n + 1)
        /\ ContentIntact(new[n + 1])
        /\ new[n + 1].prev_hash = last_hash(entries)
    BY <1>1, <1>2, NextEntryIntact
  <2>2. last_hash(entries) = expected_prev(new, n + 1)
    <3>1. CASE n = 0
      BY <1>1, <3>1 DEF last_hash, expected_prev
    <3>2. CASE n # 0
      <4>1. entries # <<>> /\ n + 1 # 1 /\ (n + 1) - 1 = n /\ n \in 1..n
        BY <1>1, <3>2
      <4>2. new[(n + 1) - 1] = entries[n]
        BY <1>2, <4>1
      <4> QED
        BY <4>1, <4>2 DEF last_hash, expected_prev
    <3> QED
      BY <3>1, <3>2
  <2> QED
    BY <2>1, <2>2 DEF Intact
<1>6. \A i \in 1..(n + 1) : i \in 1..n \/ i = n + 1
  BY <1>1
<1> QED
  BY <1>2, <1>3, <1>4, <1>5, <1>6 DEF BatchPrefix

\* A prefix as long as the batch is the whole log of the batch, and its
\* verdict says so.
LEMMA FullPrefix ==
    ASSUME NEW entries, BatchPrefix(entries), Len(entries) + 1 \notin DOMAIN Batch
    PROVE  /\ Len(entries) = Len(Batch)
           /\ IsBatchLog(entries)
           /\ BatchVerdict(entries) = [passed |-> TRUE, entries |-> Len(Batch)]
<1>1. /\ DOMAIN Batch = 1..Len(Batch) /\ Len(Batch) \in Nat
      /\ Len(entries) \in Nat /\ Len(entries) <= Len(Batch)
      /\ DOMAIN entries = 1..Len(entries)
  BY JobAssumption DEF BatchPrefix
<1>2. Len(entries) = Len(Batch)
  <2>1. ~ (Len(entries) + 1 \in 1..Len(Batch))
    BY <1>1
  <2>2. \A m, n \in Nat : m <= n /\ ~ (m + 1 \in 1..n) => m = n
    OBVIOUS
  <2> QED
    BY <1>1, <2>1, <2>2
<1>3. Broken(entries) = {}
  BY <1>1 DEF Broken, BatchPrefix
<1>4. verify(entries).valid = TRUE
  BY <1>3 DEF verify
<1> QED
  BY <1>1, <1>2, <1>4 DEF IsBatchLog, BatchVerdict, BatchPrefix

-----------------------------------------------------------------------------
(* Run records and counters.                                               *)

\* Counting saturates at the bound and never stays at zero.
LEMMA CountType ==
    ASSUME NEW n \in 0..Cap
    PROVE  Count(n) \in 0..Cap /\ Count(n) > 0 /\ Count(n) >= n
BY CapAssumption DEF Count

\* A claim keeps a record a record.
LEMMA ClaimedType ==
    ASSUME NEW record \in RunRecord
    PROVE  claimed(record) \in RunRecord /\ claimed(record).status = "claimed"
<1>1. Count(record.attempts) \in 0..Cap
  BY CountType DEF RunRecord
<1> QED
  BY <1>1 DEF claimed, RunRecord, Statuses

\* The verdict of any prefix of the batch is a verdict.
LEMMA VerdictType ==
    ASSUME NEW entries, BatchPrefix(entries)
    PROVE  BatchVerdict(entries) \in [passed : BOOLEAN, entries : Nat]
<1>1. Len(entries) \in Nat
  BY DEF BatchPrefix
<1>2. verify(entries).valid \in BOOLEAN
  BY DEF verify
<1> QED
  BY <1>1, <1>2 DEF BatchVerdict

\* Completion sets the status, the location and the verdict, and leaves a
\* record that already has all three as it was.
LEMMA MarkedType ==
    ASSUME NEW record \in RunRecord, NEW w \in Runs,
           NEW verdict \in [passed : BOOLEAN, entries : Nat]
    PROVE  LET new == mark_complete(record, Uri(w), verdict)
           IN  /\ new \in RunRecord
               /\ new.status = "complete"
               /\ new.artifact_uri = Uri(w)
               /\ new.validator_verdict = verdict
               /\ record.status = "complete" /\ record.artifact_uri = Uri(w)
                     /\ record.validator_verdict = verdict => new = record
BY DEF mark_complete, RunRecord, Statuses

\* Every process has a store and a run.
LEMMA StoreOfType ==
    ASSUME NEW r \in Runners
    PROVE  StoreOf(r) \in Stores /\ RunOf[r] \in Runs
BY JobAssumption DEF StoreOf, Stores

\* A run nobody claimed has a record too.
LEMMA NoRunType == NoRun \in RunRecord
BY CapAssumption DEF NoRun, RunRecord, Statuses

-----------------------------------------------------------------------------
(* The invariant of a tick, whatever the backend.                          *)

LogInv == \A r \in Runners : BatchPrefix(log[r])

\* Past the batch the log is full; inside a tool call the call is allowed,
\* and its run is already counted.
ControlInv ==
    \A r \in Runners :
        /\ pc[r] \in {"fill", "mark"} => NextCall(r) \notin DOMAIN Batch
        /\ pc[r] = "tool" => /\ NextCall(r) \in AllowedCalls
                             /\ ran[RunOf[r]][NextCall(r)] > 0

\* What a process has logged as allowed did run.
RanInv ==
    \A r \in Runners : \A i \in 1..Len(log[r]) :
        i \in AllowedCalls => ran[RunOf[r]][i] > 0

TickInv == TypeOK /\ LogInv /\ ControlInv /\ RanInv

LEMMA TickInvInit == Init => TickInv
<1> SUFFICES ASSUME Init PROVE TickInv
  OBVIOUS
<1> USE DEF Init
<1>1. TypeOK
  BY NoRunType, CapAssumption, JobAssumption
  DEF TypeOK, Labels_pc, Elements, Absent
<1>2. LogInv
  BY EmptyIsPrefix DEF LogInv
<1>3. ControlInv /\ RanInv
  BY DEF ControlInv, RanInv
<1> QED
  BY <1>1, <1>2, <1>3 DEF TickInv

-----------------------------------------------------------------------------
(* Each kind of step keeps the invariant of a tick.                        *)

\* A process is done or dies: its log is empty, and records stay records.
LEMMA EndingKeeps ==
    ASSUME TickInv, NEW r \in Runners, Goto(r, "idle"),
           log' = [log EXCEPT ![r] = <<>>],
           runs' \in [Stores -> [Runs -> RunRecord]],
           UNCHANGED <<artifact, ran>>, faults' \in 0..MaxFaults
    PROVE  TickInv'
<1> USE DEF TickInv, Goto
<1>1. TypeOK'
  <2>1. pc' \in [Runners -> Labels_pc]
    BY DEF TypeOK, Labels_pc
  <2>2. /\ DOMAIN log' = Runners
        /\ \A q \in Runners : log'[q] \in Seq(Elements(log'[q]))
    BY DEF TypeOK, Elements
  <2> QED
    BY <2>1, <2>2 DEF TypeOK
<1>2. LogInv'
  BY EmptyIsPrefix DEF LogInv, TypeOK
<1>3. ControlInv'
  BY DEF ControlInv, TypeOK, NextCall
<1>4. RanInv'
  BY DEF RanInv, TypeOK
<1> QED
  BY <1>1, <1>2, <1>3, <1>4

\* So does a process that dies, whose local claims die with it.
LEMMA DiesKeeps ==
    ASSUME TickInv, NEW r \in Runners, Dies(r), UNCHANGED <<artifact, ran>>,
           faults' \in 0..MaxFaults
    PROVE  TickInv'
<1>1. runs' \in [Stores -> [Runs -> RunRecord]]
  BY NoRunType DEF TickInv, TypeOK, Stores, Dies
<1> QED
  BY <1>1, EndingKeeps DEF Dies

\* The next decision is logged, its tool having run if it is allowed.
LEMMA LoggingKeeps ==
    ASSUME TickInv, NEW r \in Runners, LogDecision(r),
           NextCall(r) \in DOMAIN Batch,
           NextCall(r) \in AllowedCalls => ran[RunOf[r]][NextCall(r)] > 0,
           pc' \in {pc, [pc EXCEPT ![r] = "batch"]}, pc'[r] = "batch",
           UNCHANGED <<runs, artifact, ran, faults>>
    PROVE  TickInv'
<1> DEFINE new == append_decision(log[r], Decision(NextCall(r)))
<1> USE DEF TickInv
<1>1. /\ BatchPrefix(new)
      /\ Len(new) = Len(log[r]) + 1
      /\ new \in Seq(Elements(new))
      /\ Len(log[r]) \in Nat
  BY PrefixGrows DEF LogInv, NextCall, BatchPrefix
<1>2. /\ DOMAIN log' = Runners
      /\ log'[r] = new
      /\ \A q \in Runners \ {r} : log'[q] = log[q]
  BY DEF TypeOK, LogDecision
<1>3. pc' \in [Runners -> Labels_pc] /\ \A q \in Runners \ {r} : pc'[q] = pc[q]
  BY DEF TypeOK, Labels_pc
<1> HIDE DEF new
<1>4. TypeOK'
  BY <1>1, <1>2, <1>3 DEF TypeOK
<1>5. LogInv'
  BY <1>1, <1>2 DEF LogInv
<1>6. ControlInv'
  BY <1>2, <1>3 DEF ControlInv, NextCall
<1>7. RanInv'
  <2>1. \A i \in 1..Len(new) : i \in 1..Len(log[r]) \/ i = NextCall(r)
    BY <1>1 DEF NextCall
  <2> QED
    BY <1>2, <2>1 DEF RanInv
<1> QED
  BY <1>4, <1>5, <1>6, <1>7

FileStates == {"absent", "torn", "whole", "mixed"}

\* A step that only moves a process on, within the control invariant, and
\* changes records and artifacts within their types.
LEMMA MovingKeeps ==
    ASSUME TickInv, NEW r \in Runners, NEW label \in Labels_pc, Goto(r, label),
           label \in {"fill", "mark"} => NextCall(r) \notin DOMAIN Batch,
           label # "tool",
           runs' \in [Stores -> [Runs -> RunRecord]],
           DOMAIN artifact' = Runs,
           \A w \in Runs : /\ artifact'[w].state \in FileStates
                           /\ artifact'[w].generation \in 0..Cap,
           UNCHANGED <<log, ran, faults>>
    PROVE  TickInv'
<1> USE DEF TickInv, Goto
<1>1. TypeOK'
  BY DEF TypeOK, FileStates
<1>2. LogInv' /\ RanInv'
  BY DEF LogInv, RanInv
<1>3. ControlInv'
  BY DEF ControlInv, TypeOK, NextCall
<1> QED
  BY <1>1, <1>2, <1>3

\* Updating one value of a function of functions.
LEMMA UpdateOne ==
    ASSUME NEW A, NEW B, NEW C, NEW f \in [A -> [B -> C]],
           NEW a \in A, NEW b \in B, NEW c \in C
    PROVE  LET g == [f EXCEPT ![a][b] = c]
           IN  /\ g \in [A -> [B -> C]]
               /\ g[a][b] = c
               /\ \A v \in A, i \in B : v # a \/ i # b => g[v][i] = f[v][i]
<1> DEFINE row == [f[a] EXCEPT ![b] = c]
           g == [f EXCEPT ![a] = row]
<1>1. f[a] \in [B -> C]
  OBVIOUS
<1>2. row \in [B -> C] /\ row[b] = c /\ \A i \in B : i # b => row[i] = f[a][i]
  BY <1>1
<1> HIDE DEF row
<1>3. g \in [A -> [B -> C]] /\ g[a] = row /\ \A v \in A : v # a => g[v] = f[v]
  BY <1>2
<1>4. g = [f EXCEPT ![a][b] = c]
  BY DEF row
<1> HIDE DEF g
<1> QED
  BY <1>2, <1>3, <1>4

\* Running the tool of an allowed call counts that call and no other.
LEMMA RunToolCounts ==
    ASSUME TickInv, NEW r \in Runners, RunTool(r)
    PROVE  /\ RunOf[r] \in Runs /\ NextCall(r) \in AllowedCalls
           /\ NextCall(r) \in DOMAIN Batch
           /\ ran' \in [Runs -> [DOMAIN Batch -> 0..Cap]]
           /\ ran'[RunOf[r]][NextCall(r)] > 0
           /\ \A v \in Runs, i \in DOMAIN Batch :
                 v # RunOf[r] \/ i # NextCall(r) => ran'[v][i] = ran[v][i]
<1> DEFINE n == NextCall(r)
           w == RunOf[r]
<1>1. /\ n \in DOMAIN Batch /\ n \in AllowedCalls /\ w \in Runs
      /\ ran' = [ran EXCEPT ![w][n] = Count(ran[w][n])]
  BY StoreOfType DEF AllowedCalls, RunTool, InBatch
<1> HIDE DEF n, w
<1>2. ran \in [Runs -> [DOMAIN Batch -> 0..Cap]]
  BY DEF TickInv, TypeOK
<1>3. Count(ran[w][n]) \in 0..Cap /\ Count(ran[w][n]) > 0
  BY <1>1, <1>2, CountType
<1>4. /\ ran' \in [Runs -> [DOMAIN Batch -> 0..Cap]]
      /\ ran'[w][n] > 0
      /\ \A v \in Runs, i \in DOMAIN Batch :
            v # w \/ i # n => ran'[v][i] = ran[v][i]
  BY <1>1, <1>2, <1>3, UpdateOne
<1> QED
  BY <1>1, <1>4 DEF n, w

\* The tool of an allowed call is run.
LEMMA RunToolKeeps ==
    ASSUME TickInv, NEW r \in Runners, RunTool(r)
    PROVE  TickInv'
<1> USE DEF TickInv
<1>1. /\ pc' = [pc EXCEPT ![r] = "tool"]
      /\ UNCHANGED <<log, runs, artifact, faults>>
  BY DEF RunTool, Goto
<1>2. /\ RunOf[r] \in Runs /\ NextCall(r) \in AllowedCalls
      /\ ran' \in [Runs -> [DOMAIN Batch -> 0..Cap]]
      /\ ran'[RunOf[r]][NextCall(r)] > 0
      /\ \A v \in Runs, i \in DOMAIN Batch :
            v # RunOf[r] \/ i # NextCall(r) => ran'[v][i] = ran[v][i]
  BY RunToolCounts
<1>3. TypeOK'
  BY <1>1, <1>2 DEF TypeOK, Labels_pc
<1>4. LogInv'
  BY <1>1 DEF LogInv
<1>5. \A v \in Runs, i \in DOMAIN Batch : ran[v][i] > 0 => ran'[v][i] > 0
  BY <1>2
<1>6. \A q \in Runners : RunOf[q] \in Runs
  BY StoreOfType
<1>7. AllowedCalls \subseteq DOMAIN Batch
  BY DEF AllowedCalls
<1>8. pc'[r] = "tool" /\ \A q \in Runners \ {r} : pc'[q] = pc[q]
  BY <1>1 DEF TypeOK
<1>9. ControlInv'
  BY <1>1, <1>2, <1>5, <1>6, <1>7, <1>8 DEF ControlInv, NextCall
<1>10. RanInv'
  BY <1>1, <1>5, <1>6, <1>7 DEF RanInv
<1> QED
  BY <1>3, <1>4, <1>9, <1>10

\* A process changes the record of its run to another record.
LEMMA SetRecordType ==
    ASSUME TickInv, NEW r \in Runners, NEW record \in RunRecord,
           SetRecord(r, record)
    PROVE  /\ Record(r) \in RunRecord
           /\ runs' \in [Stores -> [Runs -> RunRecord]]
           /\ runs'[StoreOf(r)][RunOf[r]] = record
           /\ \A s \in Stores, w \in Runs :
                 s # StoreOf(r) \/ w # RunOf[r] => runs'[s][w] = runs[s][w]
<1>1. runs \in [Stores -> [Runs -> RunRecord]]
  BY DEF TickInv, TypeOK
<1>2. StoreOf(r) \in Stores /\ RunOf[r] \in Runs
  BY StoreOfType
<1> QED
  BY <1>1, <1>2, UpdateOne DEF SetRecord, Record

\* A process changes the artifact of its run to another artifact.
LEMMA ArtifactType ==
    ASSUME TickInv, NEW r \in Runners, NEW new,
           new.state \in FileStates, new.generation \in 0..Cap,
           artifact' = [artifact EXCEPT ![RunOf[r]] = new]
    PROVE  /\ DOMAIN artifact' = Runs
           /\ \A w \in Runs : /\ artifact'[w].state \in FileStates
                              /\ artifact'[w].generation \in 0..Cap
           /\ artifact'[RunOf[r]] = new
           /\ \A w \in Runs : w # RunOf[r] => artifact'[w] = artifact[w]
BY StoreOfType DEF TickInv, TypeOK, FileStates

\* A process ends, whether by itself, by an exception or by a crash.
Ends(r) == Dies(r) /\ UNCHANGED <<artifact, ran>> /\ faults' \in 0..MaxFaults

\* What the steps of JobTick, and of the modules that put its processes into
\* a larger setting, have in common.
AnyStep(overwrite) == \E r \in Runners : StepAs(r, overwrite) \/ Ends(r)

LEMMA NextIsAnyStep ==
    ASSUME TickInv, [Next]_vars
    PROVE  [AnyStep(BucketOverwrite)]_vars
<1>1. faults \in 0..MaxFaults
  BY DEF TickInv, TypeOK
<1>2. ASSUME NEW r \in Runners, ToolRaises(r) \/ Crash(r)
      PROVE  Ends(r)
  BY <1>1, <1>2, JobAssumption DEF ToolRaises, Crash, Ends
<1>3. ASSUME NEW r \in Runners, Exit(r)
      PROVE  Ends(r)
  BY <1>1, <1>3 DEF Exit, Ends
<1> QED
  BY <1>2, <1>3 DEF Next, Step, AnyStep

\* Every step of the system keeps the invariant of a tick.
LEMMA TickInvStep ==
    ASSUME TickInv, NEW overwrite, [AnyStep(overwrite)]_vars
    PROVE  TickInv'
<1>1. CASE UNCHANGED vars
  BY <1>1 DEF vars, TickInv, TypeOK, LogInv, ControlInv, RanInv,
              NextCall
<1>2. ASSUME NEW r \in Runners, StepAs(r, overwrite) \/ Ends(r)
      PROVE  TickInv'
  <2>1. /\ StoreOf(r) \in Stores /\ RunOf[r] \in Runs
        /\ runs \in [Stores -> [Runs -> RunRecord]]
        /\ Record(r) \in RunRecord
        /\ BatchPrefix(log[r])
        /\ DOMAIN artifact = Runs
        /\ \A w \in Runs : /\ artifact[w].state \in FileStates
                           /\ artifact[w].generation \in 0..Cap
        /\ pc \in [Runners -> Labels_pc]
        /\ faults \in 0..MaxFaults
    BY StoreOfType DEF TickInv, TypeOK, LogInv, Record, FileStates
  <2>2. CASE ClaimGranted(r)
    BY <2>1, <2>2, ClaimedType, SetRecordType, MovingKeeps
    DEF ClaimGranted, Labels_pc
  <2>3. CASE ClaimRefused(r)
    BY <2>1, <2>3, MovingKeeps DEF ClaimRefused, Labels_pc
  <2>4. CASE InvokeDenied(r)
    BY <2>1, <2>4, LoggingKeeps DEF InvokeDenied, InBatch, AllowedCalls
  <2>5. CASE RunTool(r)
    BY <2>5, RunToolKeeps
  <2>6. CASE ToolReturns(r)
    <3>1. /\ NextCall(r) \in AllowedCalls /\ NextCall(r) \in DOMAIN Batch
          /\ ran[RunOf[r]][NextCall(r)] > 0
      BY <2>6 DEF ToolReturns, TickInv, ControlInv, AllowedCalls
    <3> QED
      BY <2>1, <2>6, <3>1, LoggingKeeps DEF ToolReturns, Goto
  <2>7. CASE UploadArtifact(r, overwrite)
    <3>1. Count(artifact[RunOf[r]].generation) \in 0..Cap
      BY <2>1, CountType
    <3> DEFINE new == Written("whole", log[r], artifact[RunOf[r]])
    <3>2. /\ new.state \in FileStates
          /\ new.generation \in 0..Cap
      BY <3>1 DEF Written, FileStates
    <3> HIDE DEF new
    <3>3. artifact' = [artifact EXCEPT ![RunOf[r]] = new]
      BY <2>7 DEF UploadArtifact, new
    <3> QED
      BY <2>1, <2>7, <3>2, <3>3, ArtifactType, MovingKeeps
      DEF UploadArtifact, AtWrite, Labels_pc
  <2>8. CASE UploadRefused(r, overwrite)
    BY <2>1, <2>8, DiesKeeps DEF UploadRefused
  <2>9. CASE TruncateArtifact(r)
    <3>1. Count(artifact[RunOf[r]].generation) \in 0..Cap
      BY <2>1, CountType
    <3> DEFINE new == Written("torn", <<>>, artifact[RunOf[r]])
    <3>2. /\ new.state \in FileStates
          /\ new.generation \in 0..Cap
      BY <3>1 DEF Written, FileStates
    <3> HIDE DEF new
    <3>3. artifact' = [artifact EXCEPT ![RunOf[r]] = new]
      BY <2>9 DEF TruncateArtifact, new
    <3> QED
      BY <2>1, <2>9, <3>2, <3>3, ArtifactType, MovingKeeps
      DEF TruncateArtifact, AtWrite, Labels_pc
  <2>10. CASE FillArtifact(r)
    <3>0. PICK state \in Laid(artifact[RunOf[r]]) :
             artifact' = [artifact EXCEPT ![RunOf[r]] =
                             [state |-> state, entries |-> log[r],
                              generation |-> @.generation]]
      BY <2>10 DEF FillArtifact
    <3> DEFINE new == [state |-> state, entries |-> log[r],
                       generation |-> artifact[RunOf[r]].generation]
    <3>1. /\ new.state \in FileStates
          /\ new.generation \in 0..Cap
      BY <2>1, <3>0 DEF Laid, FileStates
    <3>2. artifact' = [artifact EXCEPT ![RunOf[r]] = new]
      BY <3>0
    <3> HIDE DEF new
    <3>3. NextCall(r) \notin DOMAIN Batch
      BY <2>10 DEF FillArtifact, TickInv, ControlInv
    <3> QED
      BY <2>1, <2>10, <3>1, <3>2, <3>3, ArtifactType, MovingKeeps
      DEF FillArtifact, Labels_pc
  <2>11. CASE MarkComplete(r)
    <3>1. mark_complete(Record(r), Uri(RunOf[r]), BatchVerdict(log[r])) \in RunRecord
      BY <2>1, VerdictType, MarkedType
    <3> QED
      BY <2>1, <2>11, <3>1, SetRecordType, MovingKeeps
      DEF MarkComplete, Labels_pc
  <2>12. CASE Return(r)
    BY <2>1, <2>12, EndingKeeps DEF Return
  <2>13. CASE Ends(r)
    BY <2>13, DiesKeeps DEF Ends
  <2> QED
    BY <1>2, <2>2, <2>3, <2>4, <2>5, <2>6, <2>7, <2>8, <2>9, <2>10, <2>11,
       <2>12, <2>13 DEF StepAs
<1> QED
  BY <1>1, <1>2 DEF AnyStep

\* On either backend, whatever other processes do, a process's log is the
\* decisions of the first calls of its batch, in order and linked, and of
\* these every allowed one has had its tool run (job/tick.py, run_job_tick;
\* gateway/tool_gateway.py, invoke).
THEOREM TickInvariant == Spec => []TickInv
<1>1. Init => TickInv
  BY TickInvInit
<1>2. TickInv /\ [Next]_vars => TickInv'
  BY TickInvStep, NextIsAnyStep
<1> QED
  BY <1>1, <1>2, PTL DEF Spec

\* The shape of the state, for any processes, runs and batch.
THEOREM TypeCorrect == Spec => []TypeOK
<1>1. TickInv => TypeOK
  BY DEF TickInv
<1> QED
  BY <1>1, TickInvariant, PTL

-----------------------------------------------------------------------------
(* The invariant of the cloud backend, where an object is written at once. *)

\* Whatever lies in the bucket is the whole log of a batch that ran.
ArtifactInv ==
    \A w \in Runs :
        /\ artifact[w].state \in {"absent", "whole"}
        /\ artifact[w].state = "whole" =>
              /\ IsBatchLog(artifact[w].entries)
              /\ \A i \in AllowedCalls : ran[w][i] > 0

\* A process about to mark its run has seen its own upload succeed.
MarkInv ==
    \A r \in Runners :
        /\ pc[r] # "fill"
        /\ pc[r] = "mark" => artifact[RunOf[r]].state = "whole"

CloudInv == /\ TickInv
            /\ ArtifactInv /\ MarkInv
            /\ CompleteHasArtifact /\ ReturnedIsDurable

LEMMA CloudInvInit ==
    ASSUME Init
    PROVE  CloudInv
<1>1. ArtifactInv /\ MarkInv
  BY DEF Init, Absent, ArtifactInv, MarkInv
<1>2. CompleteHasArtifact
  BY DEF Init, NoRun, CompleteHasArtifact, Complete
<1>3. ReturnedIsDurable
  BY DEF Init, ReturnedIsDurable
<1> QED
  BY <1>1, <1>2, <1>3, TickInvInit DEF CloudInv

\* A step that changes no record and no artifact, and counts tools upwards.
LEMMA CalmKeeps ==
    ASSUME CloudInv, TickInv', NEW r \in Runners, NEW label, Goto(r, label),
           label \in {"idle", "batch", "tool", "skipped"},
           label = "skipped" => Complete(StoreOf(r), RunOf[r]),
           \A w \in Runs, i \in DOMAIN Batch : ran[w][i] > 0 => ran'[w][i] > 0,
           UNCHANGED <<runs, artifact>>
    PROVE  CloudInv'
<1> USE DEF CloudInv, Goto
<1>1. ArtifactInv'
  BY DEF ArtifactInv, AllowedCalls
<1>2. pc'[r] = label /\ \A q \in Runners \ {r} : pc'[q] = pc[q]
  BY DEF TickInv, TypeOK
<1>3. MarkInv'
  BY <1>2 DEF MarkInv
<1>4. CompleteHasArtifact'
  BY DEF CompleteHasArtifact, Complete
<1>5. label = "skipped" => artifact[RunOf[r]].state = "whole"
  BY StoreOfType DEF CompleteHasArtifact
<1>6. ReturnedIsDurable'
  BY <1>2, <1>5 DEF ReturnedIsDurable, Complete
<1> QED
  BY <1>1, <1>3, <1>4, <1>6

\* A granted claim touches only a record that is not complete.
LEMMA ClaimKeeps ==
    ASSUME CloudInv, TickInv', NEW r \in Runners, ClaimGranted(r)
    PROVE  /\ CloudInv'
           /\ \A s \in Stores, w \in Runs :
                 /\ Complete(s, w) => runs'[s][w] = runs[s][w]
                 /\ Complete(s, w)' => Complete(s, w)
<1> USE DEF CloudInv
<1>1. Record(r) \in RunRecord
  BY StoreOfType DEF TickInv, TypeOK, Record
<1>2. /\ claimed(Record(r)) \in RunRecord
      /\ claimed(Record(r)).status = "claimed"
  BY <1>1, ClaimedType
<1>3. /\ runs'[StoreOf(r)][RunOf[r]] = claimed(Record(r))
      /\ \A s \in Stores, w \in Runs :
            s # StoreOf(r) \/ w # RunOf[r] => runs'[s][w] = runs[s][w]
  BY <1>2, SetRecordType DEF ClaimGranted
<1>4. ~ Complete(StoreOf(r), RunOf[r])
  BY DEF ClaimGranted, may_proceed, Record, Complete
<1>5. \A s \in Stores, w \in Runs :
         /\ Complete(s, w) => runs'[s][w] = runs[s][w]
         /\ Complete(s, w)' => Complete(s, w)
  BY <1>2, <1>3, <1>4 DEF Complete
<1>6. /\ pc'[r] = "batch" /\ \A q \in Runners \ {r} : pc'[q] = pc[q]
      /\ UNCHANGED <<artifact, ran>>
  BY DEF ClaimGranted, Goto, TickInv, TypeOK
<1>7. ArtifactInv' /\ MarkInv'
  BY <1>6 DEF ArtifactInv, MarkInv
<1>8. CompleteHasArtifact'
  <2> SUFFICES ASSUME NEW s \in Stores, NEW w \in Runs, Complete(s, w)'
               PROVE  /\ artifact'[w].state = "whole"
                      /\ IsBatchLog(artifact'[w].entries)
                      /\ runs'[s][w].artifact_uri = Uri(w)
                      /\ runs'[s][w].validator_verdict = [passed |-> TRUE,
                                                          entries |-> Len(Batch)]
    BY DEF CompleteHasArtifact
  <2>1. Complete(s, w) /\ runs'[s][w] = runs[s][w]
    BY <1>5
  <2> QED
    BY <1>6, <2>1 DEF CompleteHasArtifact
<1>9. ReturnedIsDurable'
  BY <1>5, <1>6, StoreOfType DEF ReturnedIsDurable, Complete
<1> QED
  BY <1>5, <1>7, <1>8, <1>9

\* An upload stores the whole log of a batch that ran.
LEMMA UploadKeeps ==
    ASSUME CloudInv, TickInv',
           NEW r \in Runners, NEW overwrite, UploadArtifact(r, overwrite)
    PROVE  CloudInv'
<1> USE DEF CloudInv
<1> DEFINE new == Written("whole", log[r], artifact[RunOf[r]])
<1>1. /\ pc'[r] = "mark" /\ \A q \in Runners \ {r} : pc'[q] = pc[q]
      /\ UNCHANGED <<log, runs, ran>>
      /\ artifact' = [artifact EXCEPT ![RunOf[r]] = new]
  BY DEF UploadArtifact, Goto, TickInv, TypeOK
<1>2. new.state = "whole" /\ new.entries = log[r]
  BY DEF Written
<1> HIDE DEF new
<1>3. artifact'[RunOf[r]] = new /\ \A w \in Runs : w # RunOf[r] => artifact'[w] = artifact[w]
  BY <1>1, StoreOfType DEF TickInv, TypeOK
<1>4. BatchPrefix(log[r]) /\ Len(log[r]) + 1 \notin DOMAIN Batch
  BY DEF UploadArtifact, AtWrite, NextCall, TickInv, LogInv
<1>5. Len(log[r]) = Len(Batch) /\ IsBatchLog(log[r])
  BY <1>4, FullPrefix
<1>6. \A i \in AllowedCalls : ran[RunOf[r]][i] > 0
  BY <1>5, JobAssumption DEF TickInv, RanInv, AllowedCalls
<1>7. ArtifactInv'
  BY <1>1, <1>2, <1>3, <1>5, <1>6 DEF ArtifactInv
<1>8. MarkInv'
  BY <1>1, <1>2, <1>3, StoreOfType DEF MarkInv
<1>9. CompleteHasArtifact'
  BY <1>1, <1>2, <1>3, <1>5 DEF CompleteHasArtifact, Complete
<1>10. ReturnedIsDurable'
  BY <1>1, <1>2, <1>3, StoreOfType DEF ReturnedIsDurable, Complete
<1> QED
  BY <1>7, <1>8, <1>9, <1>10

\* Marking completes a run whose artifact is stored, and changes nothing when
\* the run is complete already.
LEMMA MarkKeeps ==
    ASSUME CloudInv, TickInv', NEW r \in Runners, MarkComplete(r)
    PROVE  /\ CloudInv'
           /\ artifact[RunOf[r]].state = "whole"
           /\ Complete(StoreOf(r), RunOf[r])'
           /\ \A s \in Stores, w \in Runs :
                 /\ Complete(s, w) => runs'[s][w] = runs[s][w]
                 /\ s # StoreOf(r) \/ w # RunOf[r] => runs'[s][w] = runs[s][w]
<1> USE DEF CloudInv
<1> DEFINE new == mark_complete(Record(r), Uri(RunOf[r]), BatchVerdict(log[r]))
<1>1. pc[r] = "mark" /\ artifact[RunOf[r]].state = "whole" /\ SetRecord(r, new)
  BY DEF MarkComplete, MarkInv
<1>2. BatchPrefix(log[r]) /\ Len(log[r]) + 1 \notin DOMAIN Batch
  BY <1>1 DEF NextCall, TickInv, LogInv, ControlInv
<1>3. BatchVerdict(log[r]) = [passed |-> TRUE, entries |-> Len(Batch)]
  BY <1>2, FullPrefix
<1>4. BatchVerdict(log[r]) \in [passed : BOOLEAN, entries : Nat]
  BY <1>2, VerdictType
<1>5. Record(r) \in RunRecord /\ RunOf[r] \in Runs /\ StoreOf(r) \in Stores
  BY StoreOfType DEF TickInv, TypeOK, Record
<1>6. /\ new \in RunRecord
      /\ new.status = "complete"
      /\ new.artifact_uri = Uri(RunOf[r])
      /\ new.validator_verdict = [passed |-> TRUE, entries |-> Len(Batch)]
  <2>1. /\ new \in RunRecord
        /\ new.status = "complete"
        /\ new.artifact_uri = Uri(RunOf[r])
        /\ new.validator_verdict = BatchVerdict(log[r])
    BY <1>4, <1>5, MarkedType
  <2> HIDE DEF new
  <2> QED
    BY <1>3, <2>1
<1>7. Complete(StoreOf(r), RunOf[r]) => new = Record(r)
  <2>1. Complete(StoreOf(r), RunOf[r]) =>
          /\ Record(r).status = "complete"
          /\ Record(r).artifact_uri = Uri(RunOf[r])
          /\ Record(r).validator_verdict = BatchVerdict(log[r])
    BY <1>3, <1>5 DEF CompleteHasArtifact, Complete, Record
  <2> QED
    BY <1>4, <1>5, <2>1, MarkedType
<1> HIDE DEF new
<1>8. /\ runs'[StoreOf(r)][RunOf[r]] = new
      /\ \A s \in Stores, w \in Runs :
            s # StoreOf(r) \/ w # RunOf[r] => runs'[s][w] = runs[s][w]
  BY <1>1, <1>6, SetRecordType
<1>9. \A s \in Stores, w \in Runs :
         Complete(s, w) => runs'[s][w] = runs[s][w]
  BY <1>7, <1>8 DEF Record
<1>10. /\ pc'[r] = "returned" /\ \A q \in Runners \ {r} : pc'[q] = pc[q]
       /\ UNCHANGED <<artifact, ran>>
  BY DEF MarkComplete, Goto, TickInv, TypeOK
<1>11. ArtifactInv' /\ MarkInv'
  BY <1>10 DEF ArtifactInv, MarkInv
<1>12. Complete(StoreOf(r), RunOf[r])'
  BY <1>6, <1>8 DEF Complete
<1>13. CompleteHasArtifact'
  <2> SUFFICES ASSUME NEW s \in Stores, NEW w \in Runs, Complete(s, w)'
               PROVE  /\ artifact'[w].state = "whole"
                      /\ IsBatchLog(artifact'[w].entries)
                      /\ runs'[s][w].artifact_uri = Uri(w)
                      /\ runs'[s][w].validator_verdict = [passed |-> TRUE,
                                                          entries |-> Len(Batch)]
    BY DEF CompleteHasArtifact
  <2>1. CASE s = StoreOf(r) /\ w = RunOf[r]
    BY <1>1, <1>5, <1>6, <1>8, <1>10, <2>1 DEF ArtifactInv
  <2>2. CASE s # StoreOf(r) \/ w # RunOf[r]
    <3>1. runs'[s][w] = runs[s][w]
      BY <1>8, <2>2
    <3>2. Complete(s, w)
      BY <3>1 DEF Complete
    <3>3. artifact' = artifact
      BY <1>10
    <3>4. /\ artifact[w].state = "whole"
          /\ IsBatchLog(artifact[w].entries)
          /\ runs[s][w].artifact_uri = Uri(w)
          /\ runs[s][w].validator_verdict = [passed |-> TRUE,
                                             entries |-> Len(Batch)]
      BY <3>2, CompleteHasArtifact DEF CompleteHasArtifact
    <3> QED
      BY <3>1, <3>3, <3>4
  <2> QED
    BY <2>1, <2>2
<1>14. ReturnedIsDurable'
  BY <1>1, <1>9, <1>10, <1>12, StoreOfType DEF ReturnedIsDurable, Complete
<1> QED
  BY <1>1, <1>8, <1>9, <1>11, <1>12, <1>13, <1>14

\* In the cloud a step is one of these, and only two of them touch a record.
LEMMA CloudCases ==
    ASSUME Backend = "gcp", CloudInv, NEW overwrite, [AnyStep(overwrite)]_vars
    PROVE  \/ UNCHANGED vars
           \/ \E r \in Runners :
                 \/ ClaimGranted(r) \/ UploadArtifact(r, overwrite)
                 \/ MarkComplete(r) \/ RunTool(r)
                 \/ /\ \E label \in {"idle", "batch", "skipped"} :
                          /\ Goto(r, label)
                          /\ label = "skipped" => Complete(StoreOf(r), RunOf[r])
                    /\ UNCHANGED <<runs, artifact, ran>>
<1> SUFFICES ASSUME NEW r \in Runners, StepAs(r, overwrite) \/ Ends(r),
                    ~ (ClaimGranted(r) \/ UploadArtifact(r, overwrite)
                          \/ MarkComplete(r) \/ RunTool(r))
             PROVE  /\ \E label \in {"idle", "batch", "skipped"} :
                          /\ Goto(r, label)
                          /\ label = "skipped" => Complete(StoreOf(r), RunOf[r])
                    /\ UNCHANGED <<runs, artifact, ran>>
  BY DEF AnyStep
<1>1. CASE ClaimRefused(r)
  <2>1. Complete(StoreOf(r), RunOf[r])
    BY <1>1 DEF ClaimRefused, may_proceed, Record, Complete
  <2> QED
    BY <1>1, <2>1 DEF ClaimRefused
<1>2. CASE InvokeDenied(r)
  <2>1. pc' = [pc EXCEPT ![r] = "batch"]
    BY <1>2 DEF InvokeDenied, InBatch, CloudInv, TickInv, TypeOK
  <2> QED
    BY <1>2, <2>1 DEF InvokeDenied, Goto
<1>3. CASE ToolReturns(r)
  BY <1>3 DEF ToolReturns
<1>4. CASE UploadRefused(r, overwrite) \/ Ends(r)
  BY <1>4 DEF UploadRefused, Ends, Dies
<1>5. CASE Return(r)
  BY <1>5 DEF Return
<1>6. ~ TruncateArtifact(r) /\ ~ FillArtifact(r)
  BY DEF TruncateArtifact, FillArtifact, CloudInv, MarkInv
<1> QED
  BY <1>1, <1>2, <1>3, <1>4, <1>5, <1>6 DEF StepAs

LEMMA CloudInvStep ==
    ASSUME Backend = "gcp", CloudInv, NEW overwrite, [AnyStep(overwrite)]_vars
    PROVE  CloudInv'
<1>1. TickInv'
  BY TickInvStep DEF CloudInv
<1>2. CASE UNCHANGED vars
  BY <1>1, <1>2 DEF vars, CloudInv, ArtifactInv, MarkInv, CompleteHasArtifact,
                    ReturnedIsDurable, Complete
<1>3. CASE \E r \in Runners : ClaimGranted(r)
  BY <1>1, <1>3, ClaimKeeps
<1>4. CASE \E r \in Runners : UploadArtifact(r, overwrite)
  BY <1>1, <1>4, UploadKeeps
<1>5. CASE \E r \in Runners : MarkComplete(r)
  BY <1>1, <1>5, MarkKeeps
<1>6. ASSUME NEW r \in Runners, RunTool(r)
      PROVE  CloudInv'
  <2>1. \A w \in Runs, i \in DOMAIN Batch : ran[w][i] > 0 => ran'[w][i] > 0
    BY <1>6, RunToolCounts DEF CloudInv
  <2> QED
    BY <1>1, <1>6, <2>1, CalmKeeps DEF RunTool
<1>7. ASSUME NEW r \in Runners, NEW label \in {"idle", "batch", "skipped"},
             Goto(r, label),
             label = "skipped" => Complete(StoreOf(r), RunOf[r]),
             UNCHANGED <<runs, artifact, ran>>
      PROVE  CloudInv'
  BY <1>1, <1>7, CalmKeeps
<1> QED
  BY <1>2, <1>3, <1>4, <1>5, <1>6, <1>7, CloudCases

\* The invariant of the cloud backend.
THEOREM CloudInvariant == ASSUME Backend = "gcp" PROVE Spec => []CloudInv
<1>1. Init => CloudInv
  BY CloudInvInit
<1>2. CloudInv /\ [Next]_vars => CloudInv'
  BY CloudInvStep, NextIsAnyStep DEF CloudInv
<1> QED
  BY <1>1, <1>2, PTL DEF Spec

\* In the cloud, a run that is marked complete has its whole, verified
\* artifact, whatever other processes do to the same run (job/tick.py,
\* run_job_tick).
THEOREM CompleteRunsAreStored ==
    ASSUME Backend = "gcp" PROVE Spec => []CompleteHasArtifact
<1>1. CloudInv => CompleteHasArtifact
  BY DEF CloudInv
<1> QED
  BY <1>1, CloudInvariant, PTL

\* In the cloud, a tick reports complete or skipped_complete only for a run
\* that is complete and stored (job/tick.py, JobTickResult).
THEOREM ReturnedRunsAreStored ==
    ASSUME Backend = "gcp" PROVE Spec => []ReturnedIsDurable
<1>1. CloudInv => ReturnedIsDurable
  BY DEF CloudInv
<1> QED
  BY <1>1, CloudInvariant, PTL

\* In the cloud, every allowed call of a complete run did run (job/tick.py,
\* run_job_tick).
THEOREM CompleteRunsRanAllowed ==
    ASSUME Backend = "gcp" PROVE Spec => []CompleteRanAllowed
<1>1. CloudInv => CompleteRanAllowed
  BY DEF CloudInv, CompleteHasArtifact, ArtifactInv, CompleteRanAllowed
<1> QED
  BY <1>1, CloudInvariant, PTL

\* What a step may do to a record: nothing to a complete one.
LEMMA StepIsFinal ==
    ASSUME Backend = "gcp", CloudInv, NEW overwrite, [AnyStep(overwrite)]_vars,
           NEW s \in Stores, NEW w \in Runs, Complete(s, w)
    PROVE  runs'[s][w] = runs[s][w]
<1>1. TickInv'
  BY TickInvStep DEF CloudInv
<1>2. CASE UNCHANGED vars
  BY <1>2 DEF vars
<1>3. CASE \E r \in Runners : ClaimGranted(r)
  BY <1>1, <1>3, ClaimKeeps
<1>4. CASE \E r \in Runners : MarkComplete(r)
  BY <1>1, <1>4, MarkKeeps
<1>5. CASE \E r \in Runners : UploadArtifact(r, overwrite) \/ RunTool(r)
  BY <1>5 DEF UploadArtifact, RunTool
<1>6. CASE UNCHANGED runs
  BY <1>6
<1> QED
  BY <1>2, <1>3, <1>4, <1>5, <1>6, CloudCases

\* In the cloud no step changes the record of a complete run, not even the
\* mark of a process that claimed it earlier (agentspine/idempotency.py,
\* claim and mark_complete).
THEOREM CompletionIsFinal ==
    ASSUME Backend = "gcp" PROVE Spec => CompleteIsFinal
<1>1. CloudInv /\ [Next]_vars =>
        [\A s \in Stores, w \in Runs :
            Complete(s, w) => runs'[s][w] = runs[s][w]]_vars
  BY StepIsFinal, NextIsAnyStep DEF CloudInv
<1> QED
  BY <1>1, CloudInvariant, PTL DEF Spec, CompleteIsFinal

-----------------------------------------------------------------------------
(* The tick implements RunPromise: what each kind of step looks like there. *)

Executed == [w \in Runs |-> {i \in DOMAIN Batch : ran[w][i] > 0}]
Published == {w \in Runs : artifact[w].state = "whole"}
Done == {w \in Runs : \E s \in Stores : Complete(s, w)}

LEMMA PromiseInit ==
    ASSUME Init
    PROVE  Promise!Init
<1>1. Executed = [w \in Runs |-> {}]
  BY DEF Init, Executed
<1>2. Published = {}
  BY DEF Init, Published, Absent
<1>3. Done = {}
  BY DEF Init, Done, Complete, NoRun
<1> QED
  BY <1>1, <1>2, <1>3 DEF Promise!Init, Executed, Published, Done

\* Nothing else than a tool, an upload and a mark is seen in the promise.
LEMMA SilentSteps ==
    /\ UNCHANGED ran => Executed' = Executed
    /\ UNCHANGED artifact => Published' = Published
    /\ UNCHANGED runs => Done' = Done
BY DEF Executed, Published, Done, Complete

LEMMA RunToolExecutes ==
    ASSUME CloudInv, NEW r \in Runners, RunTool(r)
    PROVE  \E n \in AllowedCalls : Promise!Execute(RunOf[r], n)
<1>1. /\ RunOf[r] \in Runs /\ NextCall(r) \in AllowedCalls
      /\ NextCall(r) \in DOMAIN Batch
      /\ ran'[RunOf[r]][NextCall(r)] > 0
      /\ \A v \in Runs, i \in DOMAIN Batch :
            v # RunOf[r] \/ i # NextCall(r) => ran'[v][i] = ran[v][i]
  BY RunToolCounts DEF CloudInv
<1>2. PICK n \in AllowedCalls : n = NextCall(r)
  BY <1>1
<1>3. PICK w \in Runs : w = RunOf[r]
  BY <1>1
<1>4. Executed' = [Executed EXCEPT ![w] = Executed[w] \union {n}]
  <2>1. \A v \in Runs : Executed'[v] = IF v = w THEN Executed[v] \union {n}
                                       ELSE Executed[v]
    BY <1>1, <1>2, <1>3 DEF Executed
  <2>2. /\ Executed' = [v \in Runs |-> Executed'[v]]
        /\ Executed = [v \in Runs |-> Executed[v]]
    BY DEF Executed
  <2>3. [Executed EXCEPT ![w] = Executed[w] \union {n}]
          = [v \in Runs |-> IF v = w THEN Executed[v] \union {n}
                            ELSE Executed[v]]
    BY <2>2
  <2> QED
    BY <2>1, <2>2, <2>3
<1>5. Published' = Published /\ Done' = Done
  BY SilentSteps DEF RunTool
<1>6. Promise!Execute(w, n)
  BY <1>4, <1>5 DEF Promise!Execute, Executed, Published, Done
<1> QED
  BY <1>3, <1>6

LEMMA UploadPublishes ==
    ASSUME CloudInv, CloudInv',
           NEW r \in Runners, NEW overwrite, UploadArtifact(r, overwrite)
    PROVE  Promise!Publish(RunOf[r])
<1>1. RunOf[r] \in Runs
  BY StoreOfType
<1>2. /\ artifact'[RunOf[r]].state = "whole"
      /\ \A w \in Runs : w # RunOf[r] => artifact'[w] = artifact[w]
  BY <1>1 DEF UploadArtifact, Written, CloudInv, TickInv, TypeOK
<1>3. Published' = Published \union {RunOf[r]}
  BY <1>1, <1>2 DEF Published
<1>4. Executed' = Executed /\ Done' = Done
  BY SilentSteps DEF UploadArtifact
<1>5. AllowedCalls \subseteq Executed[RunOf[r]]
  <2>1. \A i \in AllowedCalls : ran'[RunOf[r]][i] > 0
    BY <1>1, <1>2 DEF CloudInv, ArtifactInv
  <2>2. \A i \in AllowedCalls : ran[RunOf[r]][i] > 0
    BY <2>1 DEF UploadArtifact
  <2> QED
    BY <1>1, <2>2 DEF Executed, AllowedCalls
<1> QED
  BY <1>3, <1>4, <1>5 DEF Promise!Publish, Executed, Published, Done

LEMMA MarkFinishes ==
    ASSUME CloudInv, CloudInv', NEW r \in Runners, MarkComplete(r)
    PROVE  Promise!Finish(RunOf[r])
<1>1. RunOf[r] \in Runs /\ StoreOf(r) \in Stores
  BY StoreOfType
<1>2. /\ artifact[RunOf[r]].state = "whole"
      /\ Complete(StoreOf(r), RunOf[r])'
      /\ \A s \in Stores, w \in Runs :
            /\ Complete(s, w) => runs'[s][w] = runs[s][w]
            /\ s # StoreOf(r) \/ w # RunOf[r] => runs'[s][w] = runs[s][w]
  BY MarkKeeps DEF CloudInv
<1>3. Done' = Done \union {RunOf[r]}
  <2>1. \A w \in Runs, s \in Stores :
           w # RunOf[r] => (Complete(s, w)' <=> Complete(s, w))
    BY <1>2 DEF Complete
  <2> QED
    BY <1>1, <1>2, <2>1 DEF Done
<1>4. Executed' = Executed /\ Published' = Published
  BY SilentSteps DEF MarkComplete
<1>5. RunOf[r] \in Published
  BY <1>1, <1>2 DEF Published
<1> QED
  BY <1>3, <1>4, <1>5 DEF Promise!Finish, Executed, Published, Done

\* A claim is not seen, since it never takes a completion back.
LEMMA ClaimIsSilent ==
    ASSUME CloudInv, CloudInv', NEW r \in Runners, ClaimGranted(r)
    PROVE  Executed' = Executed /\ Published' = Published /\ Done' = Done
<1>1. \A s \in Stores, w \in Runs :
         /\ Complete(s, w) => runs'[s][w] = runs[s][w]
         /\ Complete(s, w)' => Complete(s, w)
  BY ClaimKeeps DEF CloudInv
<1>2. \A s \in Stores, w \in Runs : Complete(s, w)' <=> Complete(s, w)
  BY <1>1 DEF Complete
<1>3. Done' = Done
  BY <1>2 DEF Done
<1> QED
  BY <1>3, SilentSteps DEF ClaimGranted

LEMMA PromiseStep ==
    ASSUME Backend = "gcp", CloudInv, NEW overwrite, [AnyStep(overwrite)]_vars
    PROVE  [Promise!Next]_(Promise!vars)
<1> USE CloudInvStep
<1> DEFINE Silent == Executed' = Executed /\ Published' = Published /\ Done' = Done
<1>1. Silent => UNCHANGED Promise!vars
  BY DEF Promise!vars, Executed, Published, Done
<1>2. ASSUME NEW r \in Runners, RunTool(r) PROVE Promise!Next
  BY <1>2, RunToolExecutes, StoreOfType DEF Promise!Next
<1>3. ASSUME NEW r \in Runners, UploadArtifact(r, overwrite)
      PROVE  Promise!Next
  BY <1>3, UploadPublishes, StoreOfType DEF Promise!Next
<1>4. ASSUME NEW r \in Runners, MarkComplete(r) PROVE Promise!Next
  BY <1>4, MarkFinishes, StoreOfType DEF Promise!Next
<1>5. ASSUME NEW r \in Runners, ClaimGranted(r) PROVE Silent
  BY <1>5, ClaimIsSilent
<1>6. UNCHANGED <<runs, artifact, ran>> => Silent
  BY SilentSteps
<1>7. UNCHANGED vars => Silent
  BY <1>6 DEF vars
<1> HIDE DEF Silent
<1> QED
  BY <1>1, <1>2, <1>3, <1>4, <1>5, <1>6, <1>7, CloudCases

\* In the cloud the tick implements the promise of a run, for any number of
\* processes and crashes between any two steps (job/tick.py, run_job_tick).
THEOREM TickKeepsPromise ==
    ASSUME Backend = "gcp" PROVE Spec => PromiseKept
<1>1. Init => Promise!Init
  BY PromiseInit
<1>2. CloudInv /\ [Next]_vars => [Promise!Next]_(Promise!vars)
  BY PromiseStep, NextIsAnyStep DEF CloudInv
<1> QED
  BY <1>1, <1>2, CloudInvariant, PTL DEF Spec, PromiseKept, Promise!Spec

-----------------------------------------------------------------------------
(* Attempts that write the artifact again, and attempts that do not get to *)
(* mark it.                                                                *)

\* Two logs of the whole batch show the same decisions.
LEMMA BatchLogsAgree ==
    ASSUME NEW entries, IsBatchLog(entries)
    PROVE  [i \in 1..Len(entries) |-> entries[i].decision]
              = [i \in 1..Len(Batch) |-> Decision(i)]
<1>1. DOMAIN Batch = 1..Len(Batch)
  BY JobAssumption
<1> QED
  BY <1>1 DEF IsBatchLog

LEMMA StepRewrites ==
    ASSUME Backend = "gcp", CloudInv, NEW overwrite, [AnyStep(overwrite)]_vars,
           NEW w \in Runs, artifact[w].state = "whole"
    PROVE  artifact'[w].state = "whole" /\ Shown(w)' = Shown(w)
<1>1. artifact'[w].state = "whole"
  <2>1. CASE UNCHANGED artifact
    BY <2>1
  <2>2. ASSUME NEW r \in Runners, UploadArtifact(r, overwrite)
        PROVE  artifact'[w].state = "whole"
    <3> DEFINE new == Written("whole", log[r], artifact[RunOf[r]])
    <3>1. new.state = "whole"
      BY DEF Written
    <3> HIDE DEF new
    <3>2. artifact' = [artifact EXCEPT ![RunOf[r]] = new]
      BY <2>2 DEF UploadArtifact, new
    <3>3. artifact'[w] = artifact[w] \/ artifact'[w] = new
      BY <3>2 DEF CloudInv, TickInv, TypeOK
    <3> QED
      BY <3>1, <3>3
  <2> QED
    BY <2>1, <2>2, CloudCases DEF vars, ClaimGranted, MarkComplete, RunTool
<1>2. CloudInv'
  BY CloudInvStep
<1>3. IsBatchLog(artifact[w].entries) /\ IsBatchLog(artifact'[w].entries)
  BY <1>1, <1>2 DEF CloudInv, ArtifactInv
<1>4. /\ Shown(w) = [i \in 1..Len(Batch) |-> Decision(i)]
      /\ Shown(w)' = [i \in 1..Len(Batch) |-> Decision(i)]
  BY <1>3, BatchLogsAgree DEF Shown
<1> QED
  BY <1>1, <1>4

\* In the cloud an artifact that is stored stays stored and says what it said,
\* though processes that claimed the run earlier, or after a crash, write it
\* again (job/tick.py, run_job_tick; agentspine/artifacts.py, write).
THEOREM RewritesSayTheSame ==
    ASSUME Backend = "gcp" PROVE Spec => RewritesAgree
<1>1. CloudInv /\ [Next]_vars =>
        [\A w \in Runs : artifact[w].state = "whole" =>
            artifact'[w].state = "whole" /\ Shown(w)' = Shown(w)]_vars
  BY StepRewrites, NextIsAnyStep DEF CloudInv
<1> QED
  BY <1>1, CloudInvariant, PTL DEF Spec, RewritesAgree

\* A process leaves the mark by marking the run or by dying.
LEMMA LeavingMark ==
    ASSUME Backend = "gcp", CloudInv, NEW overwrite,
           NEW q \in Runners, pc[q] = "mark",
           [AnyStep(overwrite)]_vars
    PROVE  \/ pc'[q] = "mark" \/ pc'[q] = "idle"
           \/ Complete(StoreOf(q), RunOf[q])'
<1>1. pc \in [Runners -> Labels_pc]
  BY DEF CloudInv, TickInv, TypeOK
<1>2. CASE UNCHANGED vars
  BY <1>2 DEF vars
<1>3. ASSUME NEW r \in Runners, StepAs(r, overwrite) \/ Ends(r), r # q
      PROVE  pc'[q] = "mark"
  <2>1. \E label : Goto(r, label) \/ UNCHANGED pc
    BY <1>3 DEF StepAs, Ends, Dies, ClaimGranted, ClaimRefused, InvokeDenied,
                RunTool, ToolReturns, UploadArtifact, UploadRefused,
                TruncateArtifact, FillArtifact, MarkComplete, Return
  <2> QED
    BY <1>1, <1>3, <2>1 DEF Goto
<1>4. ASSUME StepAs(q, overwrite) \/ Ends(q)
      PROVE  pc'[q] = "idle" \/ Complete(StoreOf(q), RunOf[q])'
  <2>1. MarkComplete(q) \/ Ends(q)
    BY <1>4 DEF StepAs, ClaimGranted, ClaimRefused, InvokeDenied, InBatch,
                RunTool, ToolReturns, UploadArtifact, UploadRefused, AtWrite,
                TruncateArtifact, FillArtifact, Return
  <2>2. CASE MarkComplete(q)
    <3>1. TickInv'
      BY TickInvStep DEF CloudInv
    <3> QED
      BY <2>2, <3>1, MarkKeeps
  <2>3. CASE Ends(q)
    BY <1>1, <2>3 DEF Ends, Dies, Goto
  <2> QED
    BY <2>1, <2>2, <2>3
<1> QED
  BY <1>2, <1>3, <1>4 DEF AnyStep

LEMMA StepStrands ==
    ASSUME Backend = "gcp", CloudInv, NEW overwrite, [AnyStep(overwrite)]_vars,
           NEW w \in Runs, Stranded(w)', ~ Stranded(w)
    PROVE  \E r \in Runners : /\ RunOf[r] = w
                              /\ pc[r] = "mark" /\ pc'[r] = "idle"
<1>1. /\ artifact'[w].state = "whole"
      /\ \A s \in Stores : ~ Complete(s, w)'
      /\ \A r \in Runners : RunOf[r] = w => pc'[r] # "mark"
  BY DEF Stranded
<1>2. \A s \in Stores : ~ Complete(s, w)
  BY <1>1, StepIsFinal DEF Complete
<1>3. artifact[w].state = "whole"
  <2>1. ASSUME NEW r \in Runners, UploadArtifact(r, overwrite)
        PROVE  artifact'[w] = artifact[w]
    <3>1. pc'[r] = "mark"
      BY <2>1 DEF UploadArtifact, Goto, CloudInv, TickInv, TypeOK
    <3>2. RunOf[r] # w
      BY <1>1, <3>1
    <3> QED
      BY <2>1, <3>2 DEF UploadArtifact
  <2> QED
    BY <1>1, <2>1, CloudCases DEF vars, ClaimGranted, MarkComplete, RunTool
<1>4. PICK r \in Runners : RunOf[r] = w /\ pc[r] = "mark"
  BY <1>2, <1>3 DEF Stranded
<1>5. pc'[r] # "mark" /\ ~ Complete(StoreOf(r), RunOf[r])'
  BY <1>1, <1>4, StoreOfType
<1>6. pc'[r] = "idle"
  BY <1>4, <1>5, LeavingMark
<1> QED
  BY <1>4, <1>6

\* In the cloud only a process that dies between its upload and its mark
\* leaves a run stored and not complete, under a bucket role that may replace
\* objects and under one that may not (job/tick.py, run_job_tick;
\* infra/deploy.sh).
THEOREM OnlyCrashesStrand ==
    ASSUME Backend = "gcp" PROVE Spec => StrandedOnlyByCrash
<1>1. CloudInv /\ [Next]_vars =>
        [\A w \in Runs : Stranded(w)' /\ ~ Stranded(w) =>
            \E r \in Runners : /\ RunOf[r] = w
                               /\ pc[r] = "mark" /\ pc'[r] = "idle"]_vars
  BY StepStrands, NextIsAnyStep DEF CloudInv
<1> QED
  BY <1>1, CloudInvariant, PTL DEF Spec, StrandedOnlyByCrash

-----------------------------------------------------------------------------
(* The local backend, where the claims die with their process and the file *)
(* is written in two steps.  With two processes on one run the second one  *)
(* empties the file under the first one's complete run, so these theorems  *)
(* are about processes that each have a run of their own.                  *)

SoleRunners == \A r, q \in Runners : RunOf[r] = RunOf[q] => r = q

\* The run of a process is stored, and every allowed call of it ran.
Stored(r) ==
    LET w == RunOf[r]
    IN  /\ artifact[w].state = "whole"
        /\ IsBatchLog(artifact[w].entries)
        /\ runs[r][w].artifact_uri = Uri(w)
        /\ runs[r][w].validator_verdict = [passed |-> TRUE,
                                           entries |-> Len(Batch)]
        /\ \A i \in AllowedCalls : ran[w][i] > 0

\* A process at work has not completed its run, one that has opened the file
\* finds it as it left it, one about to mark the run has filled the file with
\* its log, and what it has completed is stored.
LocalOf(r) ==
    /\ pc[r] = "fill" => artifact[RunOf[r]].state = "torn"
    /\ pc[r] = "mark" => /\ artifact[RunOf[r]].state = "whole"
                         /\ artifact[RunOf[r]].entries = log[r]
    /\ pc[r] \in {"batch", "tool", "fill", "mark"} => ~ Complete(r, RunOf[r])
    /\ pc[r] \in {"skipped", "returned"} => Complete(r, RunOf[r])
    /\ \A w \in Runs : Complete(r, w) => w = RunOf[r] /\ Stored(r)

LocalInv == TickInv /\ \A r \in Runners : LocalOf(r)

\* Each process has its own MemoryBackend.
LEMMA LocalStores ==
    ASSUME Backend = "local"
    PROVE  Stores = Runners /\ \A r \in Runners : StoreOf(r) = r
BY DEF Stores, StoreOf

LEMMA LocalInvInit ==
    ASSUME Backend = "local", Init
    PROVE  LocalInv
<1>1. ASSUME NEW r \in Runners PROVE LocalOf(r)
  <2>1. pc[r] = "idle"
    BY DEF Init
  <2>2. \A w \in Runs : ~ Complete(r, w)
    BY LocalStores DEF Init, NoRun, Complete
  <2> QED
    BY <2>1, <2>2 DEF LocalOf
<1> QED
  BY <1>1, TickInvInit DEF LocalInv

\* What is left alone of a process keeps what is known of it.
LEMMA UntouchedProcess ==
    ASSUME NEW r \in Runners, RunOf[r] \in Runs, LocalOf(r),
           pc'[r] = pc[r], log'[r] = log[r], runs'[r] = runs[r],
           artifact'[RunOf[r]] = artifact[RunOf[r]],
           \A i \in AllowedCalls : ran[RunOf[r]][i] > 0 => ran'[RunOf[r]][i] > 0
    PROVE  LocalOf(r)'
<1>1. Stored(r) => Stored(r)'
  BY DEF Stored, AllowedCalls
<1> QED
  BY <1>1 DEF LocalOf, Complete

\* A step that only moves a process on, without completing anything.
LEMMA CalmLocally ==
    ASSUME NEW r \in Runners, RunOf[r] \in Runs, LocalOf(r),
           pc'[r] \in {"idle", "batch", "tool", "fill", "skipped"},
           pc'[r] \in {"batch", "tool", "fill"} => ~ Complete(r, RunOf[r]),
           pc'[r] = "fill" => artifact'[RunOf[r]].state = "torn",
           pc'[r] = "skipped" => Complete(r, RunOf[r]),
           runs'[r] = runs[r],
           artifact'[RunOf[r]] = artifact[RunOf[r]] \/ ~ Complete(r, RunOf[r]),
           \A i \in AllowedCalls : ran[RunOf[r]][i] > 0 => ran'[RunOf[r]][i] > 0
    PROVE  LocalOf(r)'
<1>1. \A w \in Runs : Complete(r, w)' <=> Complete(r, w)
  BY DEF Complete
<1>2. ASSUME Complete(r, RunOf[r]) PROVE Stored(r)'
  <2>1. Stored(r) /\ artifact'[RunOf[r]] = artifact[RunOf[r]]
    BY <1>2 DEF LocalOf
  <2> QED
    BY <2>1 DEF Stored, AllowedCalls
<1>3. \A w \in Runs : Complete(r, w)' => w = RunOf[r] /\ Stored(r)'
  BY <1>1, <1>2 DEF LocalOf
<1> QED
  BY <1>1, <1>3 DEF LocalOf

\* Tools are counted upwards, and for the run of the process that acts.
LEMMA StepCounts ==
    ASSUME TickInv, NEW overwrite,
           NEW r \in Runners, StepAs(r, overwrite) \/ Ends(r),
           NEW w \in Runs, NEW i \in DOMAIN Batch
    PROVE  /\ ran[w][i] > 0 => ran'[w][i] > 0
           /\ w # RunOf[r] => ran'[w][i] = ran[w][i]
<1>1. CASE RunTool(r)
  BY <1>1, RunToolCounts
<1>2. CASE ~ RunTool(r)
  <2>1. ran' = ran
    BY <1>2 DEF StepAs, Ends, ClaimGranted, ClaimRefused, InvokeDenied,
                ToolReturns, UploadArtifact, UploadRefused, TruncateArtifact,
                FillArtifact, MarkComplete, Return
  <2> QED
    BY <2>1
<1> QED
  BY <1>1, <1>2

\* A step of one process leaves the others, and their runs, alone.
LEMMA OthersUntouched ==
    ASSUME Backend = "local", SoleRunners, TickInv, NEW overwrite,
           NEW r \in Runners, StepAs(r, overwrite) \/ Ends(r),
           NEW q \in Runners \ {r}
    PROVE  /\ pc'[q] = pc[q] /\ log'[q] = log[q] /\ runs'[q] = runs[q]
           /\ artifact'[RunOf[q]] = artifact[RunOf[q]]
           /\ \A i \in AllowedCalls : ran[RunOf[q]][i] > 0 => ran'[RunOf[q]][i] > 0
<1>1. /\ StoreOf(r) = r /\ Stores = Runners
      /\ RunOf[r] \in Runs /\ RunOf[q] \in Runs /\ RunOf[r] # RunOf[q]
      /\ AllowedCalls \subseteq DOMAIN Batch
  BY LocalStores, StoreOfType DEF SoleRunners, AllowedCalls
<1>2. /\ pc \in [Runners -> Labels_pc] /\ DOMAIN log = Runners
      /\ runs \in [Runners -> [Runs -> RunRecord]]
      /\ DOMAIN artifact = Runs
  BY <1>1 DEF TickInv, TypeOK
<1>3. /\ \E label : Goto(r, label) \/ UNCHANGED pc
      /\ \E entries : log' \in {log, [log EXCEPT ![r] = entries]}
      /\ \E store : runs' \in {runs, [runs EXCEPT ![r] = store]}
      /\ \E file : artifact' \in {artifact, [artifact EXCEPT ![RunOf[r]] = file]}
  <2>1. CASE ClaimGranted(r)
    <3>1. runs' = [runs EXCEPT ![r] = [runs[r] EXCEPT ![RunOf[r]] =
                                          claimed(Record(r))]]
      BY <1>1, <1>2, <2>1 DEF ClaimGranted, SetRecord
    <3> QED
      BY <2>1, <3>1 DEF ClaimGranted
  <2>2. CASE ClaimRefused(r)
    BY <2>2 DEF ClaimRefused
  <2>3. CASE InvokeDenied(r) \/ ToolReturns(r)
    BY <2>3 DEF InvokeDenied, ToolReturns, LogDecision
  <2>4. CASE RunTool(r)
    BY <2>4 DEF RunTool
  <2>5. ~ UploadArtifact(r, overwrite) /\ ~ UploadRefused(r, overwrite)
    BY DEF UploadArtifact, UploadRefused
  <2>6. CASE TruncateArtifact(r) \/ FillArtifact(r)
    BY <2>6 DEF TruncateArtifact, FillArtifact
  <2>7. CASE MarkComplete(r)
    <3>1. runs' = [runs EXCEPT ![r] = [runs[r] EXCEPT ![RunOf[r]] =
                      mark_complete(Record(r), Uri(RunOf[r]), BatchVerdict(log[r]))]]
      BY <1>1, <1>2, <2>7 DEF MarkComplete, SetRecord
    <3> QED
      BY <2>7, <3>1 DEF MarkComplete
  <2>8. CASE Return(r)
    BY <2>8 DEF Return
  <2>9. CASE Ends(r)
    BY <2>9 DEF Ends, Dies
  <2> QED
    BY <2>1, <2>2, <2>3, <2>4, <2>5, <2>6, <2>7, <2>8, <2>9 DEF StepAs
<1>4. /\ pc'[q] = pc[q] /\ log'[q] = log[q] /\ runs'[q] = runs[q]
      /\ artifact'[RunOf[q]] = artifact[RunOf[q]]
  BY <1>1, <1>2, <1>3 DEF Goto
<1>5. \A i \in AllowedCalls : ran'[RunOf[q]][i] = ran[RunOf[q]][i]
  BY <1>1, StepCounts
<1> QED
  BY <1>4, <1>5

\* The run a process marks was never complete, and is stored from then on.
LEMMA MarkStores ==
    ASSUME Backend = "local", TickInv, NEW r \in Runners, LocalOf(r),
           MarkComplete(r)
    PROVE  LocalOf(r)'
<1> DEFINE new == mark_complete(Record(r), Uri(RunOf[r]), BatchVerdict(log[r]))
<1>1. /\ StoreOf(r) = r /\ Stores = Runners /\ RunOf[r] \in Runs
      /\ Record(r) \in RunRecord
  BY LocalStores, StoreOfType DEF TickInv, TypeOK, Record
<1>2. /\ pc[r] = "mark" /\ SetRecord(r, new)
      /\ pc'[r] = "returned" /\ UNCHANGED <<artifact, ran>>
  BY DEF MarkComplete, Goto, TickInv, TypeOK
<1>3. BatchPrefix(log[r]) /\ Len(log[r]) + 1 \notin DOMAIN Batch
  BY <1>2 DEF NextCall, TickInv, LogInv, ControlInv
<1>4. /\ IsBatchLog(log[r]) /\ Len(log[r]) = Len(Batch)
      /\ BatchVerdict(log[r]) = [passed |-> TRUE, entries |-> Len(Batch)]
  BY <1>3, FullPrefix
<1>5. /\ new \in RunRecord
      /\ new.status = "complete"
      /\ new.artifact_uri = Uri(RunOf[r])
      /\ new.validator_verdict = BatchVerdict(log[r])
  <2>1. BatchVerdict(log[r]) \in [passed : BOOLEAN, entries : Nat]
    BY <1>3, VerdictType
  <2>2. Record(r) \in RunRecord /\ RunOf[r] \in Runs
    BY <1>1
  <2> QED
    BY <2>1, <2>2, MarkedType
<1> HIDE DEF new
<1>6. /\ runs'[r][RunOf[r]] = new
      /\ \A w \in Runs : w # RunOf[r] => runs'[r][w] = runs[r][w]
  BY <1>1, <1>2, <1>5, SetRecordType
<1>7. \A i \in AllowedCalls : ran[RunOf[r]][i] > 0
  BY <1>4, JobAssumption DEF TickInv, RanInv, AllowedCalls
<1>8. Stored(r)'
  BY <1>2, <1>4, <1>5, <1>6, <1>7 DEF Stored, LocalOf, AllowedCalls
<1>9. \A w \in Runs : Complete(r, w)' => w = RunOf[r]
  BY <1>6 DEF Complete, LocalOf
<1>10. Complete(r, RunOf[r])'
  BY <1>5, <1>6 DEF Complete
<1> QED
  BY <1>2, <1>8, <1>9, <1>10 DEF LocalOf

\* What a process does keeps what is known of it.
LEMMA ActorKeeps ==
    ASSUME Backend = "local", TickInv, NEW overwrite, NEW r \in Runners,
           LocalOf(r), StepAs(r, overwrite) \/ Ends(r)
    PROVE  LocalOf(r)'
<1>1. /\ StoreOf(r) = r /\ Stores = Runners /\ RunOf[r] \in Runs
      /\ pc \in [Runners -> Labels_pc]
      /\ runs \in [Runners -> [Runs -> RunRecord]]
      /\ DOMAIN artifact = Runs
  BY LocalStores, StoreOfType DEF TickInv, TypeOK
<1>2. \A i \in AllowedCalls : ran[RunOf[r]][i] > 0 => ran'[RunOf[r]][i] > 0
  BY <1>1, StepCounts DEF AllowedCalls
<1>3. CASE ClaimGranted(r)
  <2> DEFINE new == claimed(Record(r))
  <2>1. new \in RunRecord /\ new.status = "claimed" /\ SetRecord(r, new)
    BY <1>1, <1>3, ClaimedType DEF ClaimGranted, Record
  <2> HIDE DEF new
  <2>2. /\ runs'[r][RunOf[r]] = new
        /\ \A w \in Runs : w # RunOf[r] => runs'[r][w] = runs[r][w]
    BY <1>1, <2>1, SetRecordType
  <2>3. pc'[r] = "batch"
    BY <1>1, <1>3 DEF ClaimGranted, Goto
  <2>4. \A w \in Runs : ~ Complete(r, w)'
    BY <2>1, <2>2 DEF Complete, LocalOf
  <2> QED
    BY <1>1, <2>3, <2>4 DEF LocalOf
<1>4. CASE ClaimRefused(r)
  <2>1. Complete(r, RunOf[r])
    BY <1>1, <1>4 DEF ClaimRefused, may_proceed, Record, Complete
  <2>2. pc'[r] = "skipped" /\ UNCHANGED <<runs, artifact, ran>>
    BY <1>1, <1>4 DEF ClaimRefused, Goto
  <2> QED
    BY <1>1, <1>2, <2>1, <2>2, CalmLocally
<1>5. CASE InvokeDenied(r) \/ ToolReturns(r) \/ RunTool(r)
  <2>1. /\ pc[r] \in {"batch", "tool"} /\ pc'[r] \in {"batch", "tool"}
        /\ UNCHANGED <<runs, artifact>>
    BY <1>1, <1>5 DEF InvokeDenied, ToolReturns, RunTool, InBatch, Goto
  <2>2. ~ Complete(r, RunOf[r])
    BY <2>1 DEF LocalOf
  <2> QED
    BY <1>1, <1>2, <2>1, <2>2, CalmLocally
<1>6. ~ UploadArtifact(r, overwrite) /\ ~ UploadRefused(r, overwrite)
  BY DEF UploadArtifact, UploadRefused
<1>7. CASE TruncateArtifact(r)
  <2>1. pc[r] = "batch" /\ pc'[r] = "fill" /\ UNCHANGED runs
    BY <1>1, <1>7 DEF TruncateArtifact, AtWrite, Goto
  <2>2. ~ Complete(r, RunOf[r])
    BY <2>1 DEF LocalOf
  <2>3. artifact'[RunOf[r]].state = "torn"
    BY <1>1, <1>7 DEF TruncateArtifact, Written
  <2> QED
    BY <1>1, <1>2, <2>1, <2>2, <2>3, CalmLocally
<1>8. CASE FillArtifact(r)
  <2>0. Laid(artifact[RunOf[r]]) = {"whole"}
    BY <1>8 DEF FillArtifact, LocalOf, Laid
  <2>1. /\ pc[r] = "fill" /\ pc'[r] = "mark" /\ UNCHANGED <<log, runs>>
        /\ artifact'[RunOf[r]] = [state |-> "whole", entries |-> log[r],
                                  generation |-> artifact[RunOf[r]].generation]
    BY <1>1, <1>8, <2>0 DEF FillArtifact, Goto
  <2>2. \A w \in Runs : ~ Complete(r, w)
    BY <2>1 DEF LocalOf
  <2>3. \A w \in Runs : ~ Complete(r, w)'
    BY <2>1, <2>2 DEF Complete
  <2> QED
    BY <1>1, <2>1, <2>3 DEF LocalOf
<1>9. CASE MarkComplete(r)
  BY <1>9, MarkStores
<1>10. CASE Return(r)
  <2>1. pc'[r] = "idle" /\ UNCHANGED <<runs, artifact, ran>>
    BY <1>1, <1>10 DEF Return, Goto
  <2> QED
    BY <1>1, <1>2, <2>1, CalmLocally
<1>11. CASE Ends(r)
  <2>1. pc'[r] = "idle" /\ \A w \in Runs : runs'[r][w] = NoRun
    BY <1>1, <1>11 DEF Ends, Dies, Goto
  <2>2. \A w \in Runs : ~ Complete(r, w)'
    BY <2>1 DEF Complete, NoRun
  <2> QED
    BY <2>1, <2>2 DEF LocalOf
<1> QED
  BY <1>3, <1>4, <1>5, <1>6, <1>7, <1>8, <1>9, <1>10, <1>11 DEF StepAs

LEMMA LocalInvStep ==
    ASSUME Backend = "local", SoleRunners, LocalInv,
           NEW overwrite, [AnyStep(overwrite)]_vars
    PROVE  LocalInv'
<1>1. TickInv'
  BY TickInvStep DEF LocalInv
<1>2. CASE UNCHANGED vars
  BY <1>1, <1>2, UntouchedProcess, StoreOfType DEF vars, LocalInv
<1>3. ASSUME NEW r \in Runners, StepAs(r, overwrite) \/ Ends(r)
      PROVE  LocalInv'
  <2>1. LocalOf(r)'
    BY <1>3, ActorKeeps DEF LocalInv
  <2>2. ASSUME NEW q \in Runners \ {r} PROVE LocalOf(q)'
    BY <1>3, <2>2, OthersUntouched, UntouchedProcess, StoreOfType DEF LocalInv
  <2> QED
    BY <1>1, <2>1, <2>2 DEF LocalInv
<1> QED
  BY <1>2, <1>3 DEF AnyStep

\* What the invariant says of the runs' records.
LEMMA LocalMeans ==
    ASSUME Backend = "local", LocalInv
    PROVE  CompleteHasArtifact /\ ReturnedIsDurable /\ CompleteRanAllowed
<1>1. \A s \in Stores, w \in Runs :
         Complete(s, w) => s \in Runners /\ w = RunOf[s] /\ Stored(s)
  BY LocalStores DEF LocalInv, LocalOf
<1>2. CompleteHasArtifact /\ CompleteRanAllowed
  BY <1>1 DEF CompleteHasArtifact, CompleteRanAllowed, Stored
<1>3. ReturnedIsDurable
  BY <1>1, LocalStores, StoreOfType DEF ReturnedIsDurable, LocalInv, LocalOf, Stored
<1> QED
  BY <1>2, <1>3

\* On the local backend, with one process per run, a complete run has its
\* whole, verified artifact, though the file is empty for a while at each
\* attempt (job/tick.py, run_job_tick; agentspine/artifacts.py, write).
THEOREM LocalRunsAreStored ==
    ASSUME Backend = "local", SoleRunners
    PROVE  Spec => [](CompleteHasArtifact /\ ReturnedIsDurable /\ CompleteRanAllowed)
<1>1. Init => LocalInv
  BY LocalInvInit
<1>2. LocalInv /\ [Next]_vars => LocalInv'
  BY LocalInvStep, NextIsAnyStep DEF LocalInv
<1>3. LocalInv => CompleteHasArtifact /\ ReturnedIsDurable /\ CompleteRanAllowed
  BY LocalMeans
<1> QED
  BY <1>1, <1>2, <1>3, PTL DEF Spec
=============================================================================
