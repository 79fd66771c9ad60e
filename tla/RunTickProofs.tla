---------------------------- MODULE RunTickProofs ----------------------------
(***************************************************************************)
(* What RunTick keeps for any number of processes and runs, any number of  *)
(* artifacts and of crashes.  The invariant says of an open transaction    *)
(* that what it read is still there unless it is stale, of each record     *)
(* that it fits its run, and of each process that it is where its run      *)
(* allows it to be.                                                        *)
(***************************************************************************)
EXTENDS RunTick, TLAPS

\* A process that was told to go on and has not yet marked the run.
AtWork == {"validate", "reject", "artifact"}

TxnInv ==
    \A p \in Ticks : pc[p] = "txn" =>
        /\ p \notin stale => snapshot[p] = docs[RunOf[p]].status
        /\ snapshot[p] = "complete" => docs[RunOf[p]].status = "complete"

\* The record of run w fits the run, n claims and the artifacts in parts.
Sound(w, record, n, parts) ==
    /\ record.status = "absent" => record = NoRun
    /\ record.attempts = n
    /\ record.validator_verdict \in {NoVerdict, Verdict(Passes[w])}
    /\ record.status \in {"rejected", "complete"} =>
           record.validator_verdict # NoVerdict
    /\ ~ Passes[w] => /\ record.artifact_uri = NoUri
                      /\ record.status # "complete"
                      /\ parts = {}
    /\ Passes[w] => record.status # "rejected"
    /\ record.status = "complete" => /\ parts = 1..Parts
                                     /\ record.artifact_uri = Uri(w)

RecordInv == \A w \in Runs : Sound(w, docs[w], grants[w], written[w])

ControlInv ==
    \A p \in Ticks :
        /\ pc[p] \in AtWork => docs[RunOf[p]].status # "absent"
        /\ pc[p] \in {"reject", "rejected"} => ~ Passes[RunOf[p]]
        /\ pc[p] = "artifact" => Passes[RunOf[p]]
        /\ pc[p] \in {"skipped", "complete"} =>
               docs[RunOf[p]].status = "complete"
        /\ pc[p] # "artifact" => progress[p] = 0
        /\ 1..progress[p] \subseteq written[RunOf[p]]

Inv == TypeOK /\ TxnInv /\ RecordInv /\ ControlInv

-----------------------------------------------------------------------------
\* The operations of the claim store on one record.

LEMMA CountType ==
    ASSUME NEW n \in 0..Cap
    PROVE  Count(n) \in 0..Cap
BY CapAssumption DEF Count

LEMMA NoRunType == NoRun \in RunRecord
BY CapAssumption DEF NoRun, RunRecord, Statuses

LEMMA ClaimedType ==
    ASSUME NEW record \in RunRecord
    PROVE  /\ claimed(record) \in RunRecord
           /\ claimed(record).status = "claimed"
           /\ claimed(record).attempts = Count(record.attempts)
           /\ claimed(record).validator_verdict = record.validator_verdict
           /\ claimed(record).artifact_uri = record.artifact_uri
<1>1. Count(record.attempts) \in 0..Cap
  BY CountType DEF RunRecord
<1> QED
  BY <1>1 DEF claimed, RunRecord, Statuses

LEMMA CompletedType ==
    ASSUME NEW record \in RunRecord, NEW w \in Runs
    PROVE  LET new == mark_complete(record, Uri(w), Verdict(TRUE))
           IN  /\ new \in RunRecord
               /\ new.status = "complete"
               /\ new.attempts = record.attempts
               /\ new.validator_verdict = Verdict(TRUE)
               /\ new.artifact_uri = Uri(w)
<1>1. Uri(w) \in Uris /\ Verdict(TRUE) \in Verdicts
  BY DEF Uris, Verdicts
<1> QED
  BY <1>1 DEF mark_complete, RunRecord, Statuses

LEMMA RejectedType ==
    ASSUME NEW record \in RunRecord
    PROVE  LET new == mark_rejected(record, Verdict(FALSE))
           IN  /\ new \in RunRecord
               /\ new.status = "rejected"
               /\ new.attempts = record.attempts
               /\ new.validator_verdict = Verdict(FALSE)
               /\ new.artifact_uri = record.artifact_uri
<1>1. Verdict(FALSE) \in Verdicts
  BY DEF Verdicts
<1> QED
  BY <1>1 DEF mark_rejected, RunRecord, Statuses

\* A verdict is something, and a location is somewhere.
LEMMA Sentinels ==
    /\ \A b \in BOOLEAN : Verdict(b) # NoVerdict
    /\ \A w \in Runs : Uri(w) # NoUri
BY TickAssumption DEF Verdicts, Uris

LEMMA RunOfType ==
    ASSUME NEW p \in Ticks
    PROVE  RunOf[p] \in Runs
BY ClaimAssumption

\* A record is what its fields are.
LEMMA SameFields ==
    ASSUME NEW a \in RunRecord, NEW b \in RunRecord,
           a.status = b.status, a.attempts = b.attempts,
           a.validator_verdict = b.validator_verdict,
           a.artifact_uri = b.artifact_uri
    PROVE  a = b
BY DEF RunRecord

-----------------------------------------------------------------------------
\* Steps that write no record: a process moves, and at most ends or renews
\* its own transaction.

LEMMA MoveKeepsTxn ==
    ASSUME Inv, NEW p \in Ticks,
           UNCHANGED docs,
           stale' = stale \/ stale' = stale \ {p},
           \A q \in Ticks \ {p} : pc'[q] = pc[q] /\ snapshot'[q] = snapshot[q],
           pc'[p] = "txn" => snapshot'[p] = docs[RunOf[p]].status
    PROVE  TxnInv'
<1>1. ASSUME NEW q \in Ticks, pc'[q] = "txn"
      PROVE  /\ q \notin stale' => snapshot'[q] = docs[RunOf[q]].status
             /\ snapshot'[q] = "complete" => docs[RunOf[q]].status = "complete"
  <2>1. CASE q = p
    BY <1>1, <2>1
  <2>2. CASE q # p
    <3>1. pc[q] = "txn" /\ snapshot'[q] = snapshot[q]
      BY <1>1, <2>2
    <3>2. q \notin stale' => q \notin stale
      BY <2>2
    <3> QED
      BY <3>1, <3>2 DEF Inv, TxnInv
  <2> QED
    BY <2>1, <2>2
<1> QED
  BY <1>1 DEF TxnInv

\* A process at label may be there, in the state the step leads to.
MayBeAt(p, label, n) ==
    /\ label \in AtWork => docs'[RunOf[p]].status # "absent"
    /\ label \in {"reject", "rejected"} => ~ Passes[RunOf[p]]
    /\ label = "artifact" => Passes[RunOf[p]]
    /\ label \in {"skipped", "complete"} => docs'[RunOf[p]].status = "complete"
    /\ label # "artifact" => n = 0
    /\ 1..n \subseteq written'[RunOf[p]]

LEMMA MoveKeepsControl ==
    ASSUME Inv, NEW p \in Ticks,
           MayBeAt(p, pc'[p], progress'[p]),
           \A q \in Ticks \ {p} : pc'[q] = pc[q] /\ progress'[q] = progress[q],
           \A w \in Runs :
              /\ docs[w].status # "absent" => docs'[w].status # "absent"
              /\ docs[w].status = "complete" => docs'[w].status = "complete"
              /\ written[w] \subseteq written'[w]
    PROVE  ControlInv'
<1>1. ASSUME NEW q \in Ticks PROVE MayBeAt(q, pc'[q], progress'[q])
  <2>1. CASE q = p
    BY <2>1
  <2>2. CASE q # p
    <3>1. pc'[q] = pc[q] /\ progress'[q] = progress[q] /\ RunOf[q] \in Runs
      BY <2>2, RunOfType
    <3> QED
      BY <3>1 DEF MayBeAt, Inv, ControlInv
  <2> QED
    BY <2>1, <2>2
<1> QED
  BY <1>1 DEF ControlInv, MayBeAt

-----------------------------------------------------------------------------
\* Steps that write no record and no artifact.
LEMMA MoveKeeps ==
    ASSUME Inv, NEW p \in Ticks, NEW label \in TickLabels,
           Goto(p, label),
           UNCHANGED <<docs, grants, written>>,
           stale' = stale \/ stale' = stale \ {p},
           label # "txn" => p \notin stale',
           label = "txn" => snapshot'[p] = docs[RunOf[p]].status,
           \A q \in Ticks \ {p} : snapshot'[q] = snapshot[q],
           snapshot' \in [Ticks -> Statuses],
           tries' \in [Ticks -> 0..MaxAttempts],
           faults' \in 0..MaxFaults,
           progress' \in [Ticks -> 0..Parts],
           progress'[p] = 0,
           \A q \in Ticks \ {p} : progress'[q] = progress[q],
           label \in AtWork => docs[RunOf[p]].status # "absent",
           label = "reject" \/ label = "rejected" => ~ Passes[RunOf[p]],
           label = "artifact" => Passes[RunOf[p]],
           label = "skipped" \/ label = "complete" =>
               docs[RunOf[p]].status = "complete"
    PROVE  Inv'
<1>1. pc' = [pc EXCEPT ![p] = label] /\ pc \in [Ticks -> TickLabels]
  BY DEF Goto, Inv, TypeOK
<1>2. pc'[p] = label /\ \A q \in Ticks \ {p} : pc'[q] = pc[q]
  BY <1>1
<1>3. TypeOK'
  <2>1. stale' \in SUBSET {q \in Ticks : pc'[q] = "txn"}
    BY <1>2 DEF Inv, TypeOK
  <2> QED
    BY <1>1, <2>1 DEF Inv, TypeOK
<1>4. TxnInv'
  BY <1>2, MoveKeepsTxn
<1>5. RecordInv'
  BY DEF Inv, RecordInv
<1>6. MayBeAt(p, pc'[p], progress'[p])
  BY <1>2 DEF MayBeAt
<1>7. ControlInv'
  BY <1>2, <1>6, MoveKeepsControl
<1> QED
  BY <1>3, <1>4, <1>5, <1>7 DEF Inv

\* Steps that write the record of their run.
LEMMA WriteKeeps ==
    ASSUME Inv, NEW p \in Ticks, NEW label \in TickLabels \ {"txn"},
           NEW new \in RunRecord,
           Goto(p, label), SetDoc(p, new),
           docs[RunOf[p]].status = "complete" => new.status = "complete",
           new.status # "absent",
           \A q \in Ticks \ {p} : snapshot'[q] = snapshot[q],
           snapshot' \in [Ticks -> Statuses],
           tries' \in [Ticks -> 0..MaxAttempts],
           UNCHANGED <<written, faults>>,
           grants' \in [Runs -> 0..Cap],
           \A w \in Runs : w # RunOf[p] => grants'[w] = grants[w],
           Sound(RunOf[p], new, grants'[RunOf[p]], written[RunOf[p]]),
           progress' \in [Ticks -> 0..Parts],
           progress'[p] = 0,
           \A q \in Ticks \ {p} : progress'[q] = progress[q],
           label \notin {"reject", "artifact", "skipped"},
           label = "rejected" => ~ Passes[RunOf[p]],
           label = "complete" => new.status = "complete"
    PROVE  /\ Inv'
           /\ docs'[RunOf[p]] = new
           /\ \A w \in Runs : w # RunOf[p] => docs'[w] = docs[w]
<1>1. /\ pc' = [pc EXCEPT ![p] = label] /\ pc \in [Ticks -> TickLabels]
      /\ docs' = [docs EXCEPT ![RunOf[p]] = new] /\ docs \in [Runs -> RunRecord]
      /\ stale' = (stale \union Overtaken(p)) \ {p}
      /\ RunOf[p] \in Runs
  BY RunOfType DEF Goto, SetDoc, Inv, TypeOK
<1>2. /\ pc'[p] = label /\ \A q \in Ticks \ {p} : pc'[q] = pc[q]
      /\ docs'[RunOf[p]] = new
      /\ \A w \in Runs : w # RunOf[p] => docs'[w] = docs[w]
  BY <1>1
<1>3. TypeOK'
  <2>1. stale' \in SUBSET {q \in Ticks : pc'[q] = "txn"}
    BY <1>1, <1>2 DEF Inv, TypeOK, Overtaken
  <2>2. docs' \in [Runs -> RunRecord] /\ pc' \in [Ticks -> TickLabels]
    BY <1>1
  <2> QED
    BY <2>1, <2>2 DEF Inv, TypeOK
<1>4. TxnInv'
  <2>1. ASSUME NEW q \in Ticks, pc'[q] = "txn"
        PROVE  /\ q \notin stale' => snapshot'[q] = docs'[RunOf[q]].status
               /\ snapshot'[q] = "complete" => docs'[RunOf[q]].status = "complete"
    <3>1. /\ q # p /\ pc[q] = "txn" /\ snapshot'[q] = snapshot[q]
          /\ RunOf[q] \in Runs
      BY <1>2, <2>1, RunOfType
    <3>2. snapshot[q] = "complete" => docs[RunOf[q]].status = "complete"
      BY <3>1 DEF Inv, TxnInv
    <3>3. q \notin stale => snapshot[q] = docs[RunOf[q]].status
      BY <3>1 DEF Inv, TxnInv
    <3>4. CASE RunOf[q] = RunOf[p]
      <4>1. q \in stale'
        BY <1>1, <3>1, <3>4 DEF Overtaken
      <4> QED
        BY <1>2, <3>1, <3>2, <3>4, <4>1
    <3>5. CASE RunOf[q] # RunOf[p]
      <4>1. q \in stale => q \in stale'
        BY <1>1, <3>1
      <4> QED
        BY <1>2, <3>1, <3>2, <3>3, <3>5, <4>1
    <3> QED
      BY <3>4, <3>5
  <2> QED
    BY <2>1 DEF TxnInv
<1>5. RecordInv'
  <2>1. ASSUME NEW w \in Runs PROVE Sound(w, docs'[w], grants'[w], written'[w])
    <3>1. CASE w = RunOf[p]
      BY <1>2, <3>1
    <3>2. CASE w # RunOf[p]
      BY <1>2, <3>2 DEF Inv, RecordInv
    <3> QED
      BY <3>1, <3>2
  <2> QED
    BY <2>1 DEF RecordInv
<1>6. MayBeAt(p, pc'[p], progress'[p])
  BY <1>2 DEF MayBeAt
<1>7. ControlInv'
  <2>1. \A w \in Runs :
           /\ docs[w].status # "absent" => docs'[w].status # "absent"
           /\ docs[w].status = "complete" => docs'[w].status = "complete"
           /\ written[w] \subseteq written'[w]
    BY <1>2
  <2> QED
    BY <1>2, <1>6, <2>1, MoveKeepsControl
<1> QED
  BY <1>2, <1>3, <1>4, <1>5, <1>7 DEF Inv

-----------------------------------------------------------------------------
\* One lemma for each operation of a tick.

LEMMA InitInv == Init => Inv
<1> SUFFICES ASSUME Init PROVE Inv
  OBVIOUS
<1>1. /\ pc = [p \in Ticks |-> "idle"]
      /\ docs = [w \in Runs |-> NoRun]
      /\ snapshot = [p \in Ticks |-> "absent"]
      /\ stale = {} /\ faults = 0
      /\ tries = [p \in Ticks |-> 0]
      /\ grants = [w \in Runs |-> 0]
      /\ progress = [p \in Ticks |-> 0]
      /\ written = [w \in Runs |-> {}]
  BY DEF Init, ClaimInit
<1>2. TypeOK
  <2>1. docs \in [Runs -> RunRecord] /\ pc \in [Ticks -> TickLabels]
    BY <1>1, NoRunType DEF TickLabels
  <2>2. grants \in [Runs -> 0..Cap] /\ tries \in [Ticks -> 0..MaxAttempts]
    BY <1>1, CapAssumption, ClaimAssumption
  <2>3. progress \in [Ticks -> 0..Parts] /\ faults \in 0..MaxFaults
    BY <1>1, TickAssumption
  <2>4. /\ snapshot \in [Ticks -> Statuses]
        /\ stale \in SUBSET {p \in Ticks : pc[p] = "txn"}
        /\ written \in [Runs -> SUBSET (1..Parts)]
    BY <1>1 DEF Statuses
  <2> QED
    BY <2>1, <2>2, <2>3, <2>4 DEF TypeOK
<1>3. TxnInv
  BY <1>1 DEF TxnInv
<1>4. RecordInv
  BY <1>1 DEF RecordInv, Sound, NoRun
<1>5. ControlInv
  <2>1. ASSUME NEW p \in Ticks
        PROVE  pc[p] = "idle" /\ progress[p] = 0 /\ 1..progress[p] = {}
    BY <1>1
  <2> QED
    BY <2>1 DEF ControlInv, AtWork
<1> QED
  BY <1>2, <1>3, <1>4, <1>5 DEF Inv

LEMMA BeginClaimKeeps ==
    ASSUME Inv, NEW p \in Ticks, BeginClaim(p),
           UNCHANGED <<progress, written, faults>>
    PROVE  Inv'
<1>1. /\ Goto(p, "txn") /\ pc[p] = "idle"
      /\ snapshot' = [snapshot EXCEPT ![p] = docs[RunOf[p]].status]
      /\ stale' = stale \ {p}
      /\ tries' = [tries EXCEPT ![p] = 1]
      /\ UNCHANGED <<docs, grants>>
  BY DEF BeginClaim, Read, Doc
<1>2. docs[RunOf[p]].status \in Statuses
  BY RunOfType DEF Inv, TypeOK, RunRecord
<1>3. progress[p] = 0
  BY <1>1 DEF Inv, ControlInv
<1>4. tries' \in [Ticks -> 0..MaxAttempts]
  BY <1>1, ClaimAssumption DEF Inv, TypeOK
<1>5. /\ snapshot' \in [Ticks -> Statuses]
      /\ snapshot'[p] = docs[RunOf[p]].status
      /\ \A q \in Ticks \ {p} : snapshot'[q] = snapshot[q]
  BY <1>1, <1>2 DEF Inv, TypeOK
<1>6. "txn" \in TickLabels /\ faults' \in 0..MaxFaults
      /\ progress' \in [Ticks -> 0..Parts]
  BY DEF TickLabels, Inv, TypeOK
<1> QED
  BY <1>1, <1>3, <1>4, <1>5, <1>6, MoveKeeps DEF AtWork

\* A transaction that ends leaves nothing behind.
LEMMA EndTxnType ==
    ASSUME Inv, NEW p \in Ticks, EndTxn(p)
    PROVE  /\ snapshot' \in [Ticks -> Statuses]
           /\ \A q \in Ticks \ {p} : snapshot'[q] = snapshot[q]
           /\ tries' \in [Ticks -> 0..MaxAttempts]
BY ClaimAssumption DEF EndTxn, Inv, TypeOK, Statuses

\* A transaction that can commit still has before it what it read.
LEMMA FreshRead ==
    ASSUME Inv, NEW p \in Ticks, CommitClaim(p)
    PROVE  /\ Stored(snapshot[p], Doc(p)) = claimed(Doc(p))
           /\ snapshot[p] = Doc(p).status
           /\ Doc(p).status # "complete"
<1>1. /\ pc[p] = "txn" /\ p \notin stale
      /\ [NoRun EXCEPT !.status = snapshot[p]].status # "complete"
  BY DEF CommitClaim, may_proceed
<1>2. snapshot[p] = Doc(p).status
  BY <1>1 DEF Inv, TxnInv, Doc
<1>3. Doc(p).status # "complete"
  BY <1>1, <1>2 DEF NoRun
<1>4. Doc(p).status = "absent" => Doc(p) = NoRun
  BY RunOfType DEF Doc, Inv, RecordInv, Sound
<1> QED
  BY <1>2, <1>3, <1>4 DEF Stored

LEMMA CommitClaimKeeps ==
    ASSUME Inv, NEW p \in Ticks, CommitClaim(p),
           UNCHANGED <<progress, written, faults>>
    PROVE  Inv'
<1> DEFINE w == RunOf[p]
           new == claimed(docs[w])
<1>1. /\ Goto(p, "validate") /\ pc[p] = "txn"
      /\ SetDoc(p, new)
      /\ grants' = [grants EXCEPT ![w] = Count(@)]
      /\ EndTxn(p)
  BY FreshRead DEF CommitClaim, Doc
<1>2. docs[w].status # "complete"
  BY FreshRead DEF Doc
<1>3. w \in Runs /\ docs[w] \in RunRecord /\ grants[w] \in 0..Cap
  BY RunOfType DEF Inv, TypeOK
<1>4. /\ new \in RunRecord
      /\ new.status = "claimed"
      /\ new.attempts = Count(docs[w].attempts)
      /\ new.validator_verdict = docs[w].validator_verdict
      /\ new.artifact_uri = docs[w].artifact_uri
  BY <1>3, ClaimedType
<1>5. /\ grants' \in [Runs -> 0..Cap]
      /\ grants'[w] = Count(grants[w])
      /\ \A v \in Runs : v # w => grants'[v] = grants[v]
  BY <1>1, <1>3, CountType DEF Inv, TypeOK
<1>6. Sound(w, docs[w], grants[w], written[w])
  BY <1>3 DEF Inv, RecordInv
<1> HIDE DEF new
<1>7. Sound(w, new, grants'[w], written[w])
  BY <1>4, <1>5, <1>6 DEF Sound
<1>8. progress[p] = 0
  BY <1>1 DEF Inv, ControlInv
<1>9. "validate" \in TickLabels \ {"txn"}
      /\ progress' \in [Ticks -> 0..Parts]
  BY DEF TickLabels, Inv, TypeOK
<1> HIDE DEF w
<1>10. /\ snapshot' \in [Ticks -> Statuses]
       /\ \A q \in Ticks \ {p} : snapshot'[q] = snapshot[q]
       /\ tries' \in [Ticks -> 0..MaxAttempts]
  BY <1>1, EndTxnType
<1> USE DEF w
<1> QED
  BY <1>1, <1>2, <1>4, <1>5, <1>7, <1>8, <1>9, <1>10, WriteKeeps

LEMMA RefuseClaimKeeps ==
    ASSUME Inv, NEW p \in Ticks, RefuseClaim(p),
           UNCHANGED <<progress, written, faults>>
    PROVE  Inv' /\ docs[RunOf[p]].status = "complete"
<1>1. /\ Goto(p, "skipped") /\ pc[p] = "txn"
      /\ [NoRun EXCEPT !.status = snapshot[p]].status = "complete"
      /\ stale' = stale \ {p}
      /\ EndTxn(p)
      /\ UNCHANGED <<docs, grants>>
  BY DEF RefuseClaim, may_proceed
<1>2. docs[RunOf[p]].status = "complete"
  BY <1>1 DEF NoRun, Inv, TxnInv
<1>3. progress[p] = 0
  BY <1>1 DEF Inv, ControlInv
<1>4. "skipped" \in TickLabels /\ faults' \in 0..MaxFaults
      /\ progress' \in [Ticks -> 0..Parts]
  BY DEF TickLabels, Inv, TypeOK
<1> QED
  BY <1>1, <1>2, <1>3, <1>4, EndTxnType, MoveKeeps DEF AtWork

LEMMA RetryClaimKeeps ==
    ASSUME Inv, NEW p \in Ticks, RetryClaim(p),
           UNCHANGED <<progress, written, faults>>
    PROVE  Inv'
<1>1. /\ pc[p] = "txn" /\ UNCHANGED <<pc, docs, grants>>
      /\ snapshot' = [snapshot EXCEPT ![p] = docs[RunOf[p]].status]
      /\ stale' = stale \ {p}
      /\ tries' = [tries EXCEPT ![p] = @ + 1]
      /\ tries[p] < MaxAttempts
  BY DEF RetryClaim, Read, Doc
<1>2. docs[RunOf[p]].status \in Statuses
  BY RunOfType DEF Inv, TypeOK, RunRecord
<1>3. progress[p] = 0
  BY <1>1 DEF Inv, ControlInv
<1>4. tries' \in [Ticks -> 0..MaxAttempts]
  BY <1>1, ClaimAssumption DEF Inv, TypeOK
<1>5. /\ snapshot' \in [Ticks -> Statuses]
      /\ snapshot'[p] = docs[RunOf[p]].status
      /\ \A q \in Ticks \ {p} : snapshot'[q] = snapshot[q]
  BY <1>1, <1>2 DEF Inv, TypeOK
<1>6. "txn" \in TickLabels /\ faults' \in 0..MaxFaults
      /\ progress' \in [Ticks -> 0..Parts]
  BY DEF TickLabels, Inv, TypeOK
<1>7. Goto(p, "txn")
  BY <1>1 DEF Goto, Inv, TypeOK
<1> QED
  BY <1>1, <1>3, <1>4, <1>5, <1>6, <1>7, MoveKeeps DEF AtWork

LEMMA AbandonClaimKeeps ==
    ASSUME Inv, NEW p \in Ticks, AbandonClaim(p),
           UNCHANGED <<progress, written, faults>>
    PROVE  Inv'
<1>1. /\ Goto(p, "idle") /\ pc[p] = "txn"
      /\ stale' = stale \ {p}
      /\ EndTxn(p)
      /\ UNCHANGED <<docs, grants>>
  BY DEF AbandonClaim
<1>2. progress[p] = 0
  BY <1>1 DEF Inv, ControlInv
<1>3. "idle" \in TickLabels /\ faults' \in 0..MaxFaults
      /\ progress' \in [Ticks -> 0..Parts]
  BY DEF TickLabels, Inv, TypeOK
<1> QED
  BY <1>1, <1>2, <1>3, EndTxnType, MoveKeeps DEF AtWork

LEMMA ValidateKeeps ==
    ASSUME Inv, NEW p \in Ticks, Validate(p)
    PROVE  Inv'
<1> DEFINE label == IF Passes[RunOf[p]] THEN "artifact" ELSE "reject"
<1>1. /\ Goto(p, label) /\ pc[p] = "validate"
      /\ UNCHANGED <<docs, snapshot, stale, tries, grants>>
      /\ UNCHANGED <<progress, written, faults>>
  BY DEF Validate, claimVars
<1>2. label \in TickLabels /\ label \in {"artifact", "reject"}
  BY DEF TickLabels
<1>3. /\ label = "artifact" => Passes[RunOf[p]]
      /\ label = "reject" => ~ Passes[RunOf[p]]
  OBVIOUS
<1>4. docs[RunOf[p]].status # "absent" /\ progress[p] = 0
  BY <1>1 DEF Inv, ControlInv, AtWork
<1>5. p \notin stale'
  BY <1>1 DEF Inv, TypeOK
<1>6. /\ snapshot' \in [Ticks -> Statuses]
      /\ tries' \in [Ticks -> 0..MaxAttempts]
      /\ faults' \in 0..MaxFaults
      /\ progress' \in [Ticks -> 0..Parts]
  BY <1>1 DEF Inv, TypeOK
<1> HIDE DEF label
<1> QED
  BY <1>1, <1>2, <1>3, <1>4, <1>5, <1>6, MoveKeeps

\* An update outside of any transaction leaves the transactions alone.
LEMMA UpdateType ==
    ASSUME Inv, NEW p \in Ticks, NEW record, UpdateDoc(p, record)
    PROVE  /\ docs[RunOf[p]].status # "absent"
           /\ SetDoc(p, record)
           /\ UNCHANGED <<snapshot, tries, grants>>
           /\ snapshot' \in [Ticks -> Statuses]
           /\ tries' \in [Ticks -> 0..MaxAttempts]
           /\ grants' \in [Runs -> 0..Cap]
BY DEF UpdateDoc, CanMark, Doc, Inv, TypeOK

LEMMA MarkRejectedKeeps ==
    ASSUME Inv, NEW p \in Ticks, MarkRejected(p)
    PROVE  Inv' /\ docs[RunOf[p]].status # "complete"
<1> DEFINE w == RunOf[p]
           new == mark_rejected(docs[w], Verdict(FALSE))
<1>1. /\ Goto(p, "rejected") /\ pc[p] = "reject"
      /\ UpdateDoc(p, new)
      /\ UNCHANGED <<progress, written, faults>>
  BY DEF MarkRejected, Doc
<1>2. w \in Runs /\ docs[w] \in RunRecord
  BY RunOfType DEF Inv, TypeOK
<1>3. /\ new \in RunRecord
      /\ new.status = "rejected"
      /\ new.attempts = docs[w].attempts
      /\ new.validator_verdict = Verdict(FALSE)
      /\ new.artifact_uri = docs[w].artifact_uri
  BY <1>2, RejectedType
<1>4. ~ Passes[w] /\ progress[p] = 0
  BY <1>1 DEF Inv, ControlInv
<1>5. Sound(w, docs[w], grants[w], written[w])
  BY <1>2 DEF Inv, RecordInv
<1>6. docs[w].status # "complete"
  BY <1>4, <1>5 DEF Sound
<1> HIDE DEF new
<1>7. /\ SetDoc(p, new) /\ UNCHANGED <<snapshot, tries, grants>>
      /\ snapshot' \in [Ticks -> Statuses]
      /\ tries' \in [Ticks -> 0..MaxAttempts]
      /\ grants' \in [Runs -> 0..Cap]
  BY <1>1, UpdateType
<1>8. Passes[w] = FALSE
  BY <1>2, <1>4, TickAssumption
<1>9. Sound(w, new, grants[w], written[w])
  BY <1>3, <1>5, <1>8, Sentinels DEF Sound
<1>10. "rejected" \in TickLabels \ {"txn"}
       /\ progress' \in [Ticks -> 0..Parts]
  BY <1>1 DEF TickLabels, Inv, TypeOK
<1> QED
  BY <1>1, <1>3, <1>4, <1>6, <1>7, <1>9, <1>10, WriteKeeps

\* A process that is done with its artifacts knows that all of them exist.
LEMMA AllWritten ==
    ASSUME Inv, NEW p \in Ticks, pc[p] = "artifact", progress[p] = Parts
    PROVE  written[RunOf[p]] = 1..Parts
<1>1. 1..Parts \subseteq written[RunOf[p]]
  BY DEF Inv, ControlInv
<1>2. written[RunOf[p]] \subseteq 1..Parts
  BY RunOfType DEF Inv, TypeOK
<1> QED
  BY <1>1, <1>2

LEMMA MarkCompleteKeeps ==
    ASSUME Inv, NEW p \in Ticks, MarkComplete(p)
    PROVE  /\ Inv'
           /\ docs'[RunOf[p]] =
                  mark_complete(docs[RunOf[p]], Uri(RunOf[p]), Verdict(TRUE))
           /\ \A w \in Runs : w # RunOf[p] => docs'[w] = docs[w]
<1> DEFINE w == RunOf[p]
           new == mark_complete(docs[w], Uri(w), Verdict(TRUE))
<1>1. /\ Goto(p, "complete") /\ pc[p] = "artifact" /\ progress[p] = Parts
      /\ UpdateDoc(p, new)
      /\ progress' = [progress EXCEPT ![p] = 0]
      /\ UNCHANGED <<written, faults>>
  BY DEF MarkComplete, Doc
<1>2. w \in Runs /\ docs[w] \in RunRecord
  BY RunOfType DEF Inv, TypeOK
<1>3. /\ new \in RunRecord
      /\ new.status = "complete"
      /\ new.attempts = docs[w].attempts
      /\ new.validator_verdict = Verdict(TRUE)
      /\ new.artifact_uri = Uri(w)
  BY <1>2, CompletedType
<1>4. Passes[w]
  BY <1>1 DEF Inv, ControlInv
<1>5. Sound(w, docs[w], grants[w], written[w])
  BY <1>2 DEF Inv, RecordInv
<1>6. written[w] = 1..Parts
  BY <1>1, AllWritten
<1> HIDE DEF new
<1>7. /\ SetDoc(p, new) /\ UNCHANGED <<snapshot, tries, grants>>
      /\ snapshot' \in [Ticks -> Statuses]
      /\ tries' \in [Ticks -> 0..MaxAttempts]
      /\ grants' \in [Runs -> 0..Cap]
  BY <1>1, UpdateType
<1>8. Passes[w] = TRUE
  BY <1>2, <1>4, TickAssumption
<1>9. Sound(w, new, grants[w], written[w])
  BY <1>3, <1>5, <1>6, <1>8, Sentinels DEF Sound
<1>10. "complete" \in TickLabels \ {"txn"}
  BY DEF TickLabels
<1>11. /\ progress' \in [Ticks -> 0..Parts]
       /\ progress'[p] = 0
       /\ \A q \in Ticks \ {p} : progress'[q] = progress[q]
  BY <1>1, TickAssumption DEF Inv, TypeOK
<1>12. /\ Inv'
       /\ docs'[w] = new
       /\ \A v \in Runs : v # w => docs'[v] = docs[v]
  BY <1>1, <1>3, <1>7, <1>9, <1>10, <1>11, WriteKeeps
<1> QED
  BY <1>12 DEF new

LEMMA WriteArtifactKeeps ==
    ASSUME Inv, NEW p \in Ticks, WriteArtifact(p)
    PROVE  Inv'
<1> DEFINE w == RunOf[p]
           k == progress[p] + 1
<1>1. /\ pc[p] = "artifact" /\ progress[p] < Parts
      /\ progress' = [progress EXCEPT ![p] = @ + 1]
      /\ written' = [written EXCEPT ![w] = @ \union {k}]
      /\ UNCHANGED <<pc, docs, snapshot, stale, tries, grants, faults>>
  BY DEF WriteArtifact, claimVars
<1>2. /\ w \in Runs /\ Parts \in Nat
      /\ progress \in [Ticks -> 0..Parts] /\ progress[p] \in 0..Parts
      /\ written \in [Runs -> SUBSET (1..Parts)]
  BY RunOfType, TickAssumption DEF Inv, TypeOK
<1>3. k \in 1..Parts /\ 1..k = 1..progress[p] \union {k}
  BY <1>1, <1>2
<1>4. /\ progress' \in [Ticks -> 0..Parts] /\ progress'[p] = k
      /\ \A q \in Ticks \ {p} : progress'[q] = progress[q]
  BY <1>1, <1>2, <1>3
<1>5. /\ written' \in [Runs -> SUBSET (1..Parts)]
      /\ written'[w] = written[w] \union {k}
      /\ \A v \in Runs : v # w => written'[v] = written[v]
  BY <1>1, <1>2, <1>3
<1>6. TypeOK'
  BY <1>1, <1>4, <1>5 DEF Inv, TypeOK
<1>7. TxnInv'
  BY <1>1 DEF Inv, TxnInv
<1>8. Passes[w] /\ docs[w].status # "absent" /\ 1..progress[p] \subseteq written[w]
  BY <1>1 DEF Inv, ControlInv, AtWork
<1>9. RecordInv'
  <2>1. ASSUME NEW v \in Runs PROVE Sound(v, docs[v], grants[v], written'[v])
    <3>1. Sound(v, docs[v], grants[v], written[v])
      BY DEF Inv, RecordInv
    <3>2. CASE v = w
      <4>1. docs[w].status = "complete" => written'[w] = 1..Parts
        BY <1>3, <1>5, <3>1, <3>2 DEF Sound
      <4> QED
        BY <1>8, <3>1, <3>2, <4>1 DEF Sound
    <3>3. CASE v # w
      BY <1>5, <3>1, <3>3
    <3> QED
      BY <3>2, <3>3
  <2> QED
    BY <1>1, <2>1 DEF RecordInv
<1>10. MayBeAt(p, pc'[p], progress'[p])
  <2>1. 1..k \subseteq written'[w]
    BY <1>3, <1>5, <1>8
  <2> QED
    BY <1>1, <1>4, <1>8, <2>1 DEF MayBeAt
<1>11. ControlInv'
  <2>1. \A v \in Runs : written[v] \subseteq written'[v]
    BY <1>5
  <2> QED
    BY <1>1, <1>4, <1>10, <2>1, MoveKeepsControl
<1> QED
  BY <1>6, <1>7, <1>9, <1>11 DEF Inv

LEMMA ReturnKeeps ==
    ASSUME Inv, NEW p \in Ticks, Return(p)
    PROVE  Inv'
<1>1. /\ Goto(p, "idle") /\ pc[p] \in {"skipped", "rejected", "complete"}
      /\ UNCHANGED <<docs, snapshot, stale, tries, grants>>
      /\ UNCHANGED <<progress, written, faults>>
  BY DEF Return, claimVars
<1>2. progress[p] = 0
  BY <1>1 DEF Inv, ControlInv
<1>3. "idle" \in TickLabels /\ p \notin stale'
  BY <1>1 DEF TickLabels, Inv, TypeOK
<1>4. /\ snapshot' \in [Ticks -> Statuses]
      /\ tries' \in [Ticks -> 0..MaxAttempts]
      /\ faults' \in 0..MaxFaults
      /\ progress' \in [Ticks -> 0..Parts]
  BY <1>1 DEF Inv, TypeOK
<1> QED
  BY <1>1, <1>2, <1>3, <1>4, MoveKeeps DEF AtWork

LEMMA CrashKeeps ==
    ASSUME Inv, NEW p \in Ticks, Crash(p)
    PROVE  Inv'
<1>1. /\ Goto(p, "idle")
      /\ faults < MaxFaults /\ faults' = faults + 1
      /\ stale' = stale \ {p}
      /\ EndTxn(p)
      /\ progress' = [progress EXCEPT ![p] = 0]
      /\ UNCHANGED <<docs, grants, written>>
  BY DEF Crash
<1>2. /\ progress' \in [Ticks -> 0..Parts] /\ progress'[p] = 0
      /\ \A q \in Ticks \ {p} : progress'[q] = progress[q]
  BY <1>1, TickAssumption DEF Inv, TypeOK
<1>3. "idle" \in TickLabels
  BY DEF TickLabels
<1>4. faults' \in 0..MaxFaults
  BY <1>1, TickAssumption DEF Inv, TypeOK
<1> QED
  BY <1>1, <1>2, <1>3, <1>4, EndTxnType, MoveKeeps DEF AtWork

LEMMA StepKeeps == Inv /\ [Next]_vars => Inv'
<1> SUFFICES ASSUME Inv, [Next]_vars PROVE Inv'
  OBVIOUS
<1>1. CASE UNCHANGED vars
  <2>1. UNCHANGED <<pc, docs, snapshot, stale, tries>>
        /\ UNCHANGED <<grants, progress, written, faults>>
    BY <1>1 DEF vars
  <2> QED
    BY <2>1 DEF Inv, TypeOK, TxnInv, RecordInv, ControlInv
<1>2. ASSUME NEW p \in Ticks, ClaimStep(p) PROVE Inv'
  BY <1>2, BeginClaimKeeps, CommitClaimKeeps, RefuseClaimKeeps,
     RetryClaimKeeps, AbandonClaimKeeps DEF ClaimStep, Claim
<1>3. ASSUME NEW p \in Ticks, Step(p) PROVE Inv'
  BY <1>2, <1>3, ValidateKeeps, MarkRejectedKeeps, WriteArtifactKeeps,
     MarkCompleteKeeps, ReturnKeeps DEF Step
<1> QED
  BY <1>1, <1>3, CrashKeeps DEF Next

\* The strengthened invariant of run_tick, from which the rest follows
\* (agentspine/job.py, run_tick; agentspine/idempotency.py, FirestoreBackend).
THEOREM Invariance == Spec => []Inv
<1> QED
  BY InitInv, StepKeeps, PTL DEF Spec

-----------------------------------------------------------------------------
\* The state of every tick keeps its shape (agentspine/job.py).
THEOREM TypeCorrect == Spec => []TypeOK
<1>1. Inv => TypeOK
  BY DEF Inv
<1> QED
  BY <1>1, Invariance, PTL

\* A run the validator vetoes has no artifact, no location and no status
\* complete, whoever tries it and however often (agentspine/job.py, run_tick).
THEOREM VetoedRunsStayEmpty == Spec => []VetoLeavesNothing
<1>1. Inv => VetoLeavesNothing
  BY DEF Inv, RecordInv, Sound, VetoLeavesNothing, Complete
<1> QED
  BY <1>1, Invariance, PTL

\* A complete run has all of its artifacts and the record that says so
\* (agentspine/job.py, run_tick).
THEOREM CompleteRunsAreWhole == Spec => []CompleteIsWhole
<1>1. Inv => CompleteIsWhole
  <2>1. ASSUME Inv, NEW w \in Runs, Complete(w)
        PROVE  /\ written[w] = 1..Parts
               /\ docs[w].artifact_uri = Uri(w)
               /\ docs[w].validator_verdict = Verdict(TRUE)
    <3>1. Sound(w, docs[w], grants[w], written[w]) /\ docs[w].status = "complete"
      BY <2>1 DEF Inv, RecordInv, Complete
    <3>2. Passes[w] = TRUE
      BY <3>1, TickAssumption DEF Sound
    <3> QED
      BY <3>1, <3>2 DEF Sound
  <2> QED
    BY <2>1 DEF CompleteIsWhole
<1> QED
  BY <1>1, Invariance, PTL

\* The verdict a record carries is the one its validator gives
\* (agentspine/idempotency.py, mark_rejected and mark_complete).
THEOREM VerdictsAreTrue == Spec => []StoredVerdictIsTrue
<1>1. Inv => StoredVerdictIsTrue
  BY DEF Inv, RecordInv, Sound, StoredVerdictIsTrue
<1> QED
  BY <1>1, Invariance, PTL

\* The counter of attempts misses no granted claim (agentspine/idempotency.py,
\* FirestoreBackend.claim).
THEOREM ClaimsAreCounted == Spec => []EveryClaimCounted
<1>1. Inv => EveryClaimCounted
  BY DEF Inv, RecordInv, Sound, EveryClaimCounted
<1> QED
  BY <1>1, Invariance, PTL

\* A tick says skipped, rejected or complete of a run only when it is so
\* (agentspine/job.py, TickResult).
THEOREM TicksReportTruly == Spec => []ReportsAreTrue
<1>1. Inv => ReportsAreTrue
  BY DEF Inv, ControlInv, ReportsAreTrue, Complete
<1> QED
  BY <1>1, Invariance, PTL

-----------------------------------------------------------------------------
\* Only a commit, a rejection and a completion write a record.
LEMMA Writers ==
    ASSUME Inv, [Next]_vars, docs' # docs
    PROVE  \E p \in Ticks : \/ CommitClaim(p)
                            \/ MarkRejected(p)
                            \/ MarkComplete(p)
<1>1. CASE UNCHANGED vars
  BY <1>1 DEF vars
<1>2. ASSUME NEW p \in Ticks, ClaimStep(p) PROVE CommitClaim(p)
  BY <1>2 DEF ClaimStep, Claim, BeginClaim, RefuseClaim, RetryClaim,
              AbandonClaim
<1>3. ASSUME NEW p \in Ticks, Step(p)
      PROVE  CommitClaim(p) \/ MarkRejected(p) \/ MarkComplete(p)
  BY <1>2, <1>3 DEF Step, Validate, WriteArtifact, Return, claimVars
<1>4. ASSUME NEW p \in Ticks, Crash(p) PROVE FALSE
  BY <1>4 DEF Crash
<1> QED
  BY <1>1, <1>3, <1>4 DEF Next

LEMMA CompleteStays ==
    ASSUME Inv, [Next]_vars, NEW w \in Runs, Complete(w)
    PROVE  docs'[w] = docs[w]
<1>1. docs[w].status = "complete" /\ docs[w] \in RunRecord
      /\ docs \in [Runs -> RunRecord]
  BY DEF Complete, Inv, TypeOK
<1>2. ASSUME NEW p \in Ticks, CommitClaim(p) PROVE docs'[w] = docs[w]
  <2>1. docs[RunOf[p]].status # "complete"
    BY <1>2, FreshRead DEF Doc
  <2>2. \E record : docs' = [docs EXCEPT ![RunOf[p]] = record]
    BY <1>2 DEF CommitClaim, SetDoc
  <2> QED
    BY <1>1, <2>1, <2>2
<1>3. ASSUME NEW p \in Ticks, MarkRejected(p) PROVE docs'[w] = docs[w]
  <2>1. docs[RunOf[p]].status # "complete"
    BY <1>3, MarkRejectedKeeps
  <2>2. \E record : docs' = [docs EXCEPT ![RunOf[p]] = record]
    BY <1>3 DEF MarkRejected, UpdateDoc, SetDoc
  <2> QED
    BY <1>1, <2>1, <2>2
<1>4. ASSUME NEW p \in Ticks, MarkComplete(p) PROVE docs'[w] = docs[w]
  <2>1. CASE w # RunOf[p]
    BY <1>4, <2>1, MarkCompleteKeeps
  <2>2. CASE w = RunOf[p]
    <3> DEFINE new == mark_complete(docs[w], Uri(w), Verdict(TRUE))
    <3>1. docs'[w] = new
      BY <1>4, <2>2, MarkCompleteKeeps
    <3>2. Sound(w, docs[w], grants[w], written[w])
      BY DEF Inv, RecordInv
    <3>3. Passes[w] = TRUE
      BY <1>1, <3>2, TickAssumption DEF Sound
    <3>4. /\ docs[w].validator_verdict = Verdict(TRUE)
          /\ docs[w].artifact_uri = Uri(w)
      BY <1>1, <3>2, <3>3 DEF Sound
    <3>5. /\ new \in RunRecord
          /\ new.status = "complete"
          /\ new.attempts = docs[w].attempts
          /\ new.validator_verdict = Verdict(TRUE)
          /\ new.artifact_uri = Uri(w)
      BY <1>1, CompletedType
    <3> HIDE DEF new
    <3> QED
      BY <1>1, <3>1, <3>4, <3>5, SameFields
  <2> QED
    BY <2>1, <2>2
<1>5. CASE docs' = docs
  BY <1>5
<1> QED
  BY <1>2, <1>3, <1>4, <1>5, Writers

\* What a complete run's record says is never changed again
\* (agentspine/idempotency.py: complete is terminal).
THEOREM CompleteRunsAreFinal == Spec => CompleteIsFinal
<1>1. Inv /\ [Next]_vars =>
          [\A w \in Runs : Complete(w) => docs'[w] = docs[w]]_vars
  BY CompleteStays
<1> QED
  BY <1>1, Invariance, PTL DEF Spec, CompleteIsFinal

-----------------------------------------------------------------------------
\* Every step of a process is a step of the promise, or none.

\* A process that moves takes its answer along.
LEMMA AnswerMoves ==
    ASSUME NEW p \in Ticks, NEW label, pc \in [Ticks -> TickLabels],
           Goto(p, label)
    PROVE  Answer' = [Answer EXCEPT ![p] = AnswerAt(label)]
<1>1. pc' = [pc EXCEPT ![p] = label]
  BY DEF Goto
<1>2. ASSUME NEW q \in Ticks
      PROVE  AnswerAt(pc'[q]) = IF q = p THEN AnswerAt(label)
                                ELSE AnswerAt(pc[q])
  BY <1>1
<1>3. Answer' = [q \in Ticks |-> AnswerAt(pc'[q])]
  BY DEF Answer
<1> QED
  BY <1>2, <1>3 DEF Answer

LEMMA Labels ==
    /\ AnswerAt("idle") = "none" /\ AnswerAt("txn") = "none"
    /\ AnswerAt("validate") = "granted" /\ AnswerAt("reject") = "granted"
    /\ AnswerAt("artifact") = "granted" /\ AnswerAt("skipped") = "refused"
    /\ AnswerAt("rejected") = "none" /\ AnswerAt("complete") = "none"
BY DEF AnswerAt

\* A step that takes a process to label, and writes no record.
LEMMA QuietMove ==
    ASSUME Inv, NEW p \in Ticks, NEW label, Goto(p, label), UNCHANGED docs,
           \/ AnswerAt(label) = AnswerAt(pc[p])
           \/ AnswerAt(label) = "none"
    PROVE  [Promise!Next]_(Promise!vars)
<1>1. Answer' = [Answer EXCEPT ![p] = AnswerAt(label)]
  BY AnswerMoves DEF Inv, TypeOK
<1>2. CASE AnswerAt(label) = AnswerAt(pc[p])
  <2>1. Answer' = Answer
    BY <1>1, <1>2 DEF Answer
  <2> QED
    BY <2>1 DEF Promise!vars
<1>3. CASE AnswerAt(label) = "none"
  <2>1. Promise!Forget(p)
    BY <1>1, <1>3 DEF Promise!Forget
  <2> QED
    BY <2>1 DEF Promise!Next
<1> QED
  BY <1>2, <1>3

LEMMA CommitIsGrant ==
    ASSUME Inv, NEW p \in Ticks, CommitClaim(p)
    PROVE  Promise!Grant(p)
<1>1. /\ Goto(p, "validate") /\ pc[p] = "txn"
      /\ docs' = [docs EXCEPT ![RunOf[p]] = claimed(docs[RunOf[p]])]
  BY FreshRead DEF CommitClaim, SetDoc, Doc
<1>2. docs[RunOf[p]].status # "complete"
  BY FreshRead DEF Doc
<1>3. Answer[p] = "none"
  BY <1>1, Labels DEF Answer
<1>4. Answer' = [Answer EXCEPT ![p] = "granted"]
  BY <1>1, AnswerMoves, Labels DEF Inv, TypeOK
<1> QED
  BY <1>1, <1>2, <1>3, <1>4
  DEF Promise!Grant, Promise!may_proceed, Promise!claimed, claimed,
      Promise!Count, Count

LEMMA RefuseIsRefuse ==
    ASSUME Inv, NEW p \in Ticks, RefuseClaim(p),
           UNCHANGED <<progress, written, faults>>
    PROVE  Promise!Refuse(p)
<1>1. Goto(p, "skipped") /\ pc[p] = "txn" /\ UNCHANGED docs
  BY DEF RefuseClaim
<1>2. docs[RunOf[p]].status = "complete"
  BY RefuseClaimKeeps
<1>3. Answer[p] = "none"
  BY <1>1, Labels DEF Answer
<1>4. Answer' = [Answer EXCEPT ![p] = "refused"]
  BY <1>1, AnswerMoves, Labels DEF Inv, TypeOK
<1> QED
  BY <1>1, <1>2, <1>3, <1>4 DEF Promise!Refuse, Promise!may_proceed

LEMMA CompleteIsMark ==
    ASSUME Inv, NEW p \in Ticks, MarkComplete(p)
    PROVE  Promise!Mark(p)
<1>1. /\ Goto(p, "complete") /\ pc[p] = "artifact"
      /\ docs' = [docs EXCEPT ![RunOf[p]] =
                     mark_complete(docs[RunOf[p]], Uri(RunOf[p]), Verdict(TRUE))]
  BY DEF MarkComplete, UpdateDoc, SetDoc, Doc
<1>2. Uri(RunOf[p]) \in Uris /\ Verdict(TRUE) \in Verdicts
  BY RunOfType DEF Uris, Verdicts
<1>3. Answer[p] = "granted"
  BY <1>1, Labels DEF Answer
<1>4. Answer' = [Answer EXCEPT ![p] = "none"]
  BY <1>1, AnswerMoves, Labels DEF Inv, TypeOK
<1>5. \E uri \in Uris, verdict \in Verdicts :
         docs' = [docs EXCEPT ![RunOf[p]] = mark_complete(@, uri, verdict)]
  BY <1>1, <1>2
<1> QED
  BY <1>3, <1>4, <1>5
  DEF Promise!Mark, Promise!mark_complete, mark_complete

LEMMA RejectIsMark ==
    ASSUME Inv, NEW p \in Ticks, MarkRejected(p)
    PROVE  Promise!Mark(p)
<1>1. /\ Goto(p, "rejected") /\ pc[p] = "reject"
      /\ docs' = [docs EXCEPT ![RunOf[p]] =
                     mark_rejected(docs[RunOf[p]], Verdict(FALSE))]
  BY DEF MarkRejected, UpdateDoc, SetDoc, Doc
<1>2. Verdict(FALSE) \in Verdicts
  BY DEF Verdicts
<1>3. Answer[p] = "granted"
  BY <1>1, Labels DEF Answer
<1>4. Answer' = [Answer EXCEPT ![p] = "none"]
  BY <1>1, AnswerMoves, Labels DEF Inv, TypeOK
<1>5. \E verdict \in Verdicts :
         docs' = [docs EXCEPT ![RunOf[p]] = mark_rejected(@, verdict)]
  BY <1>1, <1>2
<1> QED
  BY <1>3, <1>4, <1>5
  DEF Promise!Mark, Promise!mark_rejected, mark_rejected

LEMMA PromiseStep ==
    ASSUME Inv, [Next]_vars
    PROVE  [Promise!Next]_(Promise!vars)
<1>1. CASE UNCHANGED vars
  BY <1>1 DEF vars, Promise!vars, Answer
<1>2. ASSUME NEW p \in Ticks, ClaimStep(p)
      PROVE  [Promise!Next]_(Promise!vars)
  <2>1. CASE BeginClaim(p)
    <3>1. Goto(p, "txn") /\ UNCHANGED docs
      BY <2>1 DEF BeginClaim
    <3> QED
      BY <3>1, Labels, QuietMove
  <2>2. CASE CommitClaim(p)
    BY <2>2, CommitIsGrant DEF Promise!Next
  <2>3. CASE RefuseClaim(p)
    BY <1>2, <2>3, RefuseIsRefuse DEF ClaimStep, Promise!Next
  <2>4. CASE RetryClaim(p)
    BY <2>4 DEF RetryClaim, Promise!vars, Answer
  <2>5. CASE AbandonClaim(p)
    <3>1. Goto(p, "idle") /\ UNCHANGED docs
      BY <2>5 DEF AbandonClaim
    <3> QED
      BY <3>1, Labels, QuietMove
  <2> QED
    BY <1>2, <2>1, <2>2, <2>3, <2>4, <2>5 DEF ClaimStep, Claim
<1>3. ASSUME NEW p \in Ticks, Validate(p)
      PROVE  [Promise!Next]_(Promise!vars)
  <2>1. /\ pc[p] = "validate" /\ UNCHANGED docs
        /\ Goto(p, "artifact") \/ Goto(p, "reject")
    BY <1>3 DEF Validate, claimVars
  <2> QED
    BY <2>1, Labels, QuietMove
<1>4. ASSUME NEW p \in Ticks, WriteArtifact(p)
      PROVE  [Promise!Next]_(Promise!vars)
  BY <1>4 DEF WriteArtifact, claimVars, Promise!vars, Answer
<1>5. ASSUME NEW p \in Ticks, Return(p) \/ Crash(p)
      PROVE  [Promise!Next]_(Promise!vars)
  <2>1. Goto(p, "idle") /\ UNCHANGED docs
    BY <1>5 DEF Return, Crash, claimVars
  <2> QED
    BY <2>1, Labels, QuietMove
<1>6. ASSUME NEW p \in Ticks, MarkComplete(p) \/ MarkRejected(p)
      PROVE  [Promise!Next]_(Promise!vars)
  BY <1>6, CompleteIsMark, RejectIsMark DEF Promise!Next
<1> QED
  BY <1>1, <1>2, <1>3, <1>4, <1>5, <1>6 DEF Next, Step

\* The transactions, the marks and the crashes of run_tick are steps of a
\* store whose claim is one atomic step (agentspine/idempotency.py,
\* IdempotencyBackend.claim).
THEOREM ClaimIsAtomic == Spec => ClaimsAreAtomic
<1>1. Init => Promise!Init
  <2>1. ASSUME Init PROVE Answer = [p \in Ticks |-> "none"]
    BY <2>1, Labels DEF Init, Answer
  <2> QED
    BY <2>1 DEF Init, ClaimInit, Promise!Init, Promise!NoRun, NoRun
<1>2. Inv /\ [Next]_vars => [Promise!Next]_(Promise!vars)
  BY PromiseStep
<1> QED
  BY <1>1, <1>2, Invariance, PTL DEF Spec, ClaimsAreAtomic, Promise!Spec
=============================================================================
