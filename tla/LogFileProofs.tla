--------------------------- MODULE LogFileProofs ---------------------------
(***************************************************************************)
(* The hash chain of audit/decision_log.py through any number of appends,  *)
(* crashes, reloads and alterations.  An alteration replaces an entry's    *)
(* decision and, it may be, its own hash; it leaves the number of entries, *)
(* their positions and what each names as its predecessor as they were     *)
(* appended.  That is what the invariant says of the memory and the file,  *)
(* and it is why a break shows at the next entry.                          *)
(***************************************************************************)
EXTENDS DecisionLogFile, WellFoundedInduction, TLAPS

\* A file that is not there or cut short is no sequence of entries.
NoSequences == \A S : Missing \notin Seq(S) /\ Torn \notin Seq(S)

IsEntry(e) == e = [seq |-> e.seq, decision |-> e.decision,
                   prev_hash |-> e.prev_hash, entry_hash |-> e.entry_hash]

\* A sequence of entries that know their positions.
IsLog(s) == /\ s \in Seq({s[i] : i \in 1..Len(s)})
            /\ \A i \in 1..Len(s) : IsEntry(s[i]) /\ s[i].seq = i - 1

\* s is the log that was appended, up to decisions and hashes.
Follows(s) == /\ IsLog(s)
              /\ Len(s) = Len(appended)
              /\ \A i \in 1..Len(s) : s[i].prev_hash = appended[i].prev_hash

FileInv ==
    /\ pc \in {"down", "up", "saving"}
    /\ alterations \in Nat
    /\ IsLog(appended)
    /\ \A i \in 1..Len(appended) : ContentIntact(appended[i])
    /\ pc = "down" => entries = <<>>
    /\ pc # "down" => Follows(entries)
    /\ pc = "up" => file # Torn
    /\ pc = "saving" => file = Torn /\ entries # <<>>
    /\ file # Missing /\ file # Torn => Follows(file) /\ file # <<>>
    /\ file = Missing => appended = <<>>

\* Nobody altered anything.
CleanInv ==
    alterations = 0 =>
        /\ Broken(appended) = {}
        /\ pc # "down" => entries = appended
        /\ file # Missing /\ file # Torn => file = appended

-----------------------------------------------------------------------------
LEMMA LogDomain ==
    ASSUME NEW s, IsLog(s)
    PROVE  Len(s) \in Nat /\ DOMAIN s = 1..Len(s)
BY DEF IsLog

LEMMA LogIsNoSentinel ==
    ASSUME NoSequences, NEW s, IsLog(s)
    PROVE  s # Missing /\ s # Torn
BY DEF NoSequences, IsLog

LEMMA EmptyLog == IsLog(<<>>)
<1>1. Len(<<>>) = 0 /\ 1..0 = {}
  OBVIOUS
<1> QED
  BY <1>1 DEF IsLog

\* Append leaves the entries where they are and adds one behind them.
LEMMA LogAppend ==
    ASSUME NEW s, IsLog(s), NEW e, IsEntry(e), e.seq = Len(s)
    PROVE  /\ IsLog(Append(s, e))
           /\ Len(Append(s, e)) = Len(s) + 1
           /\ \A i \in 1..Len(s) : Append(s, e)[i] = s[i]
           /\ Append(s, e)[Len(s) + 1] = e
<1> DEFINE S == {s[i] : i \in 1..Len(s)} \union {e}
           t == Append(s, e)
<1>1. s \in Seq({s[i] : i \in 1..Len(s)}) /\ Len(s) \in Nat
  BY LogDomain DEF IsLog
<1>2. s \in Seq(S)
  BY <1>1
<1>3. /\ t \in Seq(S)
      /\ Len(t) = Len(s) + 1
      /\ \A i \in 1..Len(s) : t[i] = s[i]
      /\ t[Len(s) + 1] = e
  BY <1>2
<1>4. \A i \in 1..Len(t) : i \in 1..Len(s) \/ i = Len(s) + 1
  BY <1>1, <1>3
<1>5. t \in Seq({t[i] : i \in 1..Len(t)})
  BY <1>3
<1> HIDE DEF t
<1>6. ASSUME NEW i \in 1..Len(t) PROVE IsEntry(t[i]) /\ t[i].seq = i - 1
  <2>1. CASE i \in 1..Len(s)
    BY <1>3, <2>1 DEF IsLog
  <2>2. CASE i = Len(s) + 1
    <3>1. t[i] = e /\ i - 1 = Len(s)
      BY <1>1, <1>3, <2>2
    <3> QED
      BY <3>1
  <2> QED
    BY <1>4, <2>1, <2>2
<1>7. IsLog(t)
  BY <1>5, <1>6 DEF IsLog
<1> QED
  BY <1>3, <1>7 DEF t

LEMMA HashedEntry ==
    ASSUME NEW seq, NEW decision, NEW prev_hash
    PROVE  LET e == Hashed(seq, decision, prev_hash)
           IN  /\ IsEntry(e) /\ ContentIntact(e)
               /\ e.seq = seq /\ e.decision = decision
               /\ e.prev_hash = prev_hash
BY DEF Hashed, IsEntry, ContentIntact, compute_hash, canonical_payload

\* What an alteration does not touch.
LEMMA AlteredLog ==
    ASSUME NEW s, IsLog(s), NEW i \in 1..Len(s), NEW decision,
           NEW rehash \in BOOLEAN
    PROVE  LET t == Altered(s, i, decision, rehash)
           IN  /\ IsLog(t) /\ Len(t) = Len(s)
               /\ \A j \in 1..Len(s) : t[j].prev_hash = s[j].prev_hash
<1> DEFINE e == IF rehash THEN Hashed(s[i].seq, decision, s[i].prev_hash)
                ELSE [s[i] EXCEPT !.decision = decision]
           t == [s EXCEPT ![i] = e]
           S == {s[j] : j \in 1..Len(s)} \union {e}
<1>1. Altered(s, i, decision, rehash) = t
  BY DEF Altered
<1>2. IsEntry(e) /\ e.seq = s[i].seq /\ e.prev_hash = s[i].prev_hash
  <2>1. CASE rehash
    BY <2>1, HashedEntry
  <2>2. CASE ~ rehash
    <3>1. IsEntry(s[i])
      BY DEF IsLog
    <3> DEFINE old == s[i]
    <3>2. old = [seq |-> old.seq, decision |-> old.decision,
                 prev_hash |-> old.prev_hash, entry_hash |-> old.entry_hash]
      BY <3>1 DEF IsEntry
    <3>3. e = [seq |-> old.seq, decision |-> decision,
               prev_hash |-> old.prev_hash, entry_hash |-> old.entry_hash]
      BY <2>2, <3>2
    <3> QED
      BY <3>3 DEF IsEntry
  <2> QED
    BY <2>1, <2>2
<1> HIDE DEF e
<1>3. s \in Seq(S) /\ Len(s) \in Nat /\ DOMAIN s = 1..Len(s)
  BY LogDomain DEF IsLog
<1>4. /\ t \in Seq(S) /\ Len(t) = Len(s)
      /\ \A j \in 1..Len(s) : t[j] = IF j = i THEN e ELSE s[j]
  BY <1>3
<1> HIDE DEF t
<1>5. t \in Seq({t[j] : j \in 1..Len(t)})
  BY <1>4
<1>6. \A j \in 1..Len(t) : IsEntry(t[j]) /\ t[j].seq = j - 1
  BY <1>2, <1>4 DEF IsLog
<1> QED
  BY <1>1, <1>2, <1>4, <1>5, <1>6 DEF IsLog

-----------------------------------------------------------------------------
\* What an append does, in full.
LEMMA AppendEffect ==
    ASSUME FileInv, NEW decision \in Decisions, AppendDecision(decision)
    PROVE  LET e == next_entry(entries, decision)
           IN  /\ IsEntry(e) /\ ContentIntact(e) /\ e.seq = Len(entries)
               /\ e.prev_hash = last_hash(entries)
               /\ Follows(entries) /\ Len(entries) \in Nat
               /\ entries' = Append(entries, e)
               /\ appended' = Append(appended, e)
               /\ pc' = "saving" /\ file' = Torn
               /\ alterations' = alterations
<1> DEFINE e == next_entry(entries, decision)
<1>1. pc = "up" /\ Follows(entries) /\ IsLog(appended)
  BY DEF AppendDecision, FileInv
<1>2. Len(entries) = Len(appended) /\ Len(appended) \in Nat
  BY <1>1, LogDomain DEF Follows
<1>3. SubSeq(appended, 1, Len(entries)) = appended
  BY <1>1, <1>2 DEF IsLog
<1>4. /\ entries' = Append(entries, e)
      /\ appended' = Append(SubSeq(appended, 1, Len(entries)), e)
      /\ pc' = "saving" /\ file' = Torn /\ alterations' = alterations
  BY DEF AppendDecision, append_decision
<1>5. /\ IsEntry(e) /\ ContentIntact(e) /\ e.seq = Len(entries)
      /\ e.prev_hash = last_hash(entries)
  BY HashedEntry DEF next_entry
<1> QED
  BY <1>1, <1>2, <1>3, <1>4, <1>5

LEMMA FollowsLater ==
    ASSUME UNCHANGED appended, NEW s, Follows(s), NEW t, IsLog(t),
           Len(t) = Len(s),
           \A j \in 1..Len(s) : t[j].prev_hash = s[j].prev_hash
    PROVE  Follows(t)'
BY DEF Follows

LEMMA AppendKeeps ==
    ASSUME NoSequences, FileInv, CleanInv,
           NEW decision \in Decisions, AppendDecision(decision)
    PROVE  FileInv' /\ CleanInv'
<1> DEFINE e == next_entry(entries, decision)
           n == Len(entries)
<1>1. /\ IsEntry(e) /\ ContentIntact(e) /\ e.seq = n
      /\ e.prev_hash = last_hash(entries)
      /\ Follows(entries) /\ n \in Nat
      /\ entries' = Append(entries, e)
      /\ appended' = Append(appended, e)
      /\ pc' = "saving" /\ file' = Torn
      /\ alterations' = alterations
  BY AppendEffect
<1> HIDE DEF e
<1>2. IsLog(entries) /\ IsLog(appended) /\ Len(appended) = n
  BY <1>1 DEF FileInv, Follows
<1>3. /\ IsLog(entries') /\ Len(entries') = n + 1
      /\ \A i \in 1..n : entries'[i] = entries[i]
      /\ entries'[n + 1] = e
  BY <1>1, <1>2, LogAppend
<1>4. /\ IsLog(appended') /\ Len(appended') = n + 1
      /\ \A i \in 1..n : appended'[i] = appended[i]
      /\ appended'[n + 1] = e
  BY <1>1, <1>2, LogAppend
<1>5. n \in Nat /\ \A i \in 1..(n + 1) : i \in 1..n \/ i = n + 1
  BY <1>1
<1>6. \A i \in 1..(n + 1) : entries'[i].prev_hash = appended'[i].prev_hash
  BY <1>1, <1>3, <1>4, <1>5 DEF Follows
<1>7. Follows(entries)' /\ entries' # <<>>
  BY <1>3, <1>4, <1>5, <1>6 DEF Follows
<1>8. \A i \in 1..Len(appended') : ContentIntact(appended'[i])
  BY <1>1, <1>2, <1>4, <1>5 DEF FileInv
<1>9. Missing # Torn => file' # Missing
  BY <1>1
<1>10. FileInv'
  <2>1. pc' = "saving" /\ file' = Torn /\ alterations' \in Nat
    BY <1>1 DEF FileInv
  <2> QED
    BY <1>4, <1>7, <1>8, <2>1, FileAssumption DEF FileInv
<1>11. ASSUME alterations = 0 PROVE Broken(appended') = {} /\ entries' = appended'
  <2>1. entries = appended /\ Broken(appended) = {}
    BY <1>11 DEF CleanInv, FileInv, AppendDecision
  <2>2. DOMAIN appended = 1..n /\ DOMAIN appended' = 1..(n + 1)
    BY <1>2, <1>4, LogDomain
  <2>3. ASSUME NEW i \in 1..n PROVE Intact(appended', i)
    <3>1. Intact(appended, i)
      BY <2>1, <2>2 DEF Broken
    <3>2. appended'[i] = appended[i]
      BY <1>4
    <3>3. i # 1 => appended'[i - 1] = appended[i - 1]
      BY <1>4, <1>5
    <3> QED
      BY <3>1, <3>2, <3>3 DEF Intact, expected_prev
  <2>4. Intact(appended', n + 1)
    <3>1. CASE n = 0
      <4>1. entries = <<>>
        BY <1>2, <3>1 DEF IsLog
      <4> QED
        BY <1>1, <1>4, <3>1, <4>1 DEF Intact, expected_prev, last_hash
    <3>2. CASE n # 0
      <4>1. entries # <<>> /\ n \in 1..n /\ n + 1 # 1 /\ (n + 1) - 1 = n
        BY <1>5, <3>2
      <4>2. last_hash(entries) = appended'[n].entry_hash
        BY <1>4, <2>1, <4>1 DEF last_hash
      <4> QED
        BY <1>1, <1>4, <4>1, <4>2 DEF Intact, expected_prev
    <3> QED
      BY <3>1, <3>2
  <2> QED
    BY <1>1, <1>5, <2>1, <2>2, <2>3, <2>4 DEF Broken
<1>12. CleanInv'
  BY <1>1, <1>11 DEF CleanInv
<1> QED
  BY <1>10, <1>12

LEMMA SaveKeeps ==
    ASSUME NoSequences, FileInv, CleanInv, Save
    PROVE  FileInv' /\ CleanInv'
<1>1. /\ pc = "saving" /\ pc' = "up" /\ file' = entries
      /\ UNCHANGED <<entries, appended, alterations>>
  BY DEF Save
<1>2. Follows(entries) /\ entries # <<>>
  BY <1>1 DEF FileInv
<1>3. Follows(entries)'
  BY <1>1, <1>2 DEF Follows
<1>4. Follows(file)'
  BY <1>1, <1>2 DEF Follows
<1>5. file' # Missing /\ file' # Torn /\ file' # <<>>
  BY <1>1, <1>2, LogIsNoSentinel DEF Follows
<1>6. FileInv'
  BY <1>1, <1>3, <1>4, <1>5 DEF FileInv
<1>7. CleanInv'
  BY <1>1 DEF CleanInv
<1> QED
  BY <1>6, <1>7

LEMMA OpenKeeps ==
    ASSUME FileInv, CleanInv, Open
    PROVE  FileInv' /\ CleanInv'
<1>1. /\ pc = "down" /\ pc' = "up" /\ file # Torn
      /\ entries' = IF file = Missing THEN <<>> ELSE file
      /\ UNCHANGED <<file, appended, alterations>>
  BY DEF Open
<1>2. CASE file = Missing
  <2>1. entries' = <<>> /\ appended = <<>>
    BY <1>1, <1>2 DEF FileInv
  <2>2. Follows(entries)'
    BY <1>1, <2>1, EmptyLog DEF Follows
  <2>3. FileInv'
    BY <1>1, <1>2, <2>2, FileAssumption DEF FileInv
  <2> QED
    BY <1>1, <1>2, <2>1, <2>3 DEF CleanInv
<1>3. CASE file # Missing
  <2>1. entries' = file /\ Follows(file) /\ file # <<>>
    BY <1>1, <1>3 DEF FileInv
  <2>2. Follows(entries)' /\ Follows(file)'
    BY <1>1, <2>1 DEF Follows
  <2>3. FileInv'
    BY <1>1, <1>3, <2>1, <2>2 DEF FileInv
  <2> QED
    BY <1>1, <1>3, <2>1, <2>3 DEF CleanInv
<1> QED
  BY <1>2, <1>3

LEMMA CrashKeeps ==
    ASSUME FileInv, CleanInv, Crash
    PROVE  FileInv' /\ CleanInv'
<1>1. /\ pc' = "down" /\ entries' = <<>>
      /\ UNCHANGED <<file, appended, alterations>>
  BY DEF Crash
<1>2. Follows(file) => Follows(file)'
  BY <1>1 DEF Follows
<1>3. FileInv'
  BY <1>1, <1>2 DEF FileInv
<1> QED
  BY <1>1, <1>3 DEF CleanInv

LEMMA AlterKeeps ==
    ASSUME NoSequences, FileInv, CleanInv, NEW decision \in Decisions,
           NEW i \in 1..MaxEntries, NEW rehash \in BOOLEAN,
           AlterMemory(i, decision, rehash) \/ AlterFile(i, decision, rehash)
    PROVE  FileInv' /\ CleanInv'
<1>1. CASE AlterMemory(i, decision, rehash)
  <2>1. /\ pc = "up" /\ i \in DOMAIN entries
        /\ entries' = Altered(entries, i, decision, rehash)
        /\ alterations' = alterations + 1
        /\ UNCHANGED <<pc, file, appended>>
    BY <1>1 DEF AlterMemory
  <2>2. Follows(entries) /\ i \in 1..Len(entries)
    BY <2>1, LogDomain DEF FileInv, Follows
  <2>3. Follows(entries)'
    BY <2>1, <2>2, AlteredLog DEF Follows
  <2>4. Follows(file) => Follows(file)'
    BY <2>1 DEF Follows
  <2>5. FileInv'
    BY <2>1, <2>3, <2>4 DEF FileInv
  <2>6. alterations' # 0
    BY <2>1 DEF FileInv
  <2> QED
    BY <2>5, <2>6 DEF CleanInv
<1>2. CASE AlterFile(i, decision, rehash)
  <2>1. /\ pc = "down" /\ file # Missing /\ file # Torn
        /\ i \in DOMAIN file
        /\ file' = Altered(file, i, decision, rehash)
        /\ alterations' = alterations + 1
        /\ UNCHANGED <<pc, entries, appended>>
    BY <1>2 DEF AlterFile
  <2>2. Follows(file) /\ i \in 1..Len(file) /\ Len(file) \in Nat
    BY <2>1, LogDomain DEF FileInv, Follows
  <2>3. /\ IsLog(file') /\ Len(file') = Len(file)
        /\ \A j \in 1..Len(file) : file'[j].prev_hash = file[j].prev_hash
    BY <2>1, <2>2, AlteredLog DEF Follows
  <2>4. Follows(file)'
    BY <2>1, <2>2, <2>3 DEF Follows
  <2>5. file' # Missing /\ file' # <<>>
    BY <2>2, <2>3, LogIsNoSentinel
  <2>6. FileInv'
    BY <2>1, <2>4, <2>5 DEF FileInv
  <2>7. alterations' # 0
    BY <2>1 DEF FileInv
  <2> QED
    BY <2>6, <2>7 DEF CleanInv
<1> QED
  BY <1>1, <1>2

LEMMA FileInvariant ==
    ASSUME NoSequences PROVE Spec => [](FileInv /\ CleanInv)
<1>1. Init => FileInv /\ CleanInv
  BY EmptyLog, FileAssumption
  DEF Init, FileInv, CleanInv, Broken, Intact
<1>2. FileInv /\ CleanInv /\ [Next]_vars => FileInv' /\ CleanInv'
  <2> SUFFICES ASSUME FileInv, CleanInv, [Next]_vars
               PROVE  FileInv' /\ CleanInv'
    OBVIOUS
  <2>1. CASE UNCHANGED vars
    <3>1. UNCHANGED <<pc, entries, file, appended, alterations>>
      BY <2>1 DEF vars
    <3>2. /\ Follows(entries) => Follows(entries)'
          /\ Follows(file) => Follows(file)'
      BY <3>1 DEF Follows
    <3> QED
      BY <3>1, <3>2 DEF FileInv, CleanInv
  <2> QED
    BY <2>1, OpenKeeps, SaveKeeps, CrashKeeps, AppendKeeps, AlterKeeps DEF Next
<1> QED
  BY <1>1, <1>2, PTL DEF Spec

-----------------------------------------------------------------------------
\* A log nobody altered verifies after any number of appends, crashes and
\* reloads (audit/decision_log.py, verify).
THEOREM CleanLogsVerify ==
    ASSUME NoSequences PROVE Spec => []UnalteredVerifies
<1>1. FileInv /\ CleanInv => UnalteredVerifies
  <2>1. Broken(<<>>) = {}
    BY DEF Broken
  <2> QED
    BY <2>1 DEF FileInv, CleanInv, UnalteredVerifies, verify
<1> QED
  BY <1>1, FileInvariant, PTL

\* Between appends the file of an unaltered log holds what was appended
\* (audit/decision_log.py, _save and _load).
THEOREM FilesHoldTheLog ==
    ASSUME NoSequences PROVE Spec => []SavedIsMemory
<1>1. FileInv /\ CleanInv => SavedIsMemory
  BY DEF FileInv, CleanInv, SavedIsMemory
<1> QED
  BY <1>1, FileInvariant, PTL

\* SHA-256 is modelled as a constructor: equal hashes have equal contents.
LEMMA HashInjective ==
    ASSUME NEW a, NEW b, compute_hash(a) = compute_hash(b)
    PROVE  a.decision = b.decision
BY DEF compute_hash, sha256, canonical_payload

\* A non-empty set of positions has a least one.
LEMMA LeastExists ==
    ASSUME NEW S, S \subseteq Nat, S # {}
    PROVE  \E i \in S : \A j \in S : i <= j
<1>1. PICK i \in S : \A j \in S : <<j, i>> \notin OpToRel(<, Nat)
  BY NatLessThanWellFounded, WFMin
<1>2. \A j \in S : ~ (j < i)
  BY <1>1 DEF OpToRel
<1> QED
  BY <1>2

\* verify reports the first broken entry.
LEMMA VerifyReports ==
    ASSUME NEW s, IsLog(s), NEW k \in 1..Len(s), ~ Intact(s, k)
    PROVE  /\ ~ verify(s).valid
           /\ verify(s).broken_at_seq \in Nat
           /\ verify(s).broken_at_seq <= k - 1
<1> DEFINE B == Broken(s)
           least == CHOOSE i \in B : \A j \in B : i <= j
<1>1. DOMAIN s = 1..Len(s) /\ Len(s) \in Nat
  BY LogDomain
<1>2. k \in B /\ B \subseteq 1..Len(s)
  BY <1>1 DEF Broken
<1>3. B \subseteq Nat /\ B # {}
  BY <1>1, <1>2
<1> HIDE DEF B
<1>4. \E i \in B : \A j \in B : i <= j
  BY <1>3, LeastExists
<1>5. least \in B /\ \A j \in B : least <= j
  BY <1>4
<1>6. s[least].seq = least - 1
  BY <1>2, <1>5 DEF IsLog
<1>7. verify(s).valid = (B = {}) /\ verify(s).broken_at_seq = s[least].seq
  BY <1>3 DEF verify, B
<1> HIDE DEF least
<1>8. ~ verify(s).valid /\ verify(s).broken_at_seq = least - 1
  BY <1>3, <1>6, <1>7
<1> QED
  BY <1>1, <1>2, <1>5, <1>8

\* An altered entry that a later one was chained to breaks the chain there,
\* for good and however the entry's own hash was made up (audit/decision_log.py,
\* verify).
THEOREM AlterationsShow ==
    ASSUME NoSequences PROVE Spec => []AlterationIsFound
<1>1. ASSUME FileInv, NEW i \in 1..(Len(entries) - 1),
             entries[i].decision # appended[i].decision,
             appended[i + 1].prev_hash = appended[i].entry_hash
      PROVE  /\ ~ verify(entries).valid
             /\ verify(entries).broken_at_seq <= i
  <2>1. Follows(entries)
    <3>1. CASE pc = "down"
      <4>1. Len(entries) = 0
        BY <1>1, <3>1 DEF FileInv
      <4> QED
        BY <1>1, <4>1
    <3> QED
      BY <1>1, <3>1 DEF FileInv
  <2>2. /\ IsLog(entries) /\ Len(entries) \in Nat
        /\ Len(appended) = Len(entries)
    BY <2>1, LogDomain DEF Follows
  <2>3. i \in 1..Len(entries) /\ i + 1 \in 1..Len(entries) /\ i \in Nat
        /\ i + 1 # 1 /\ (i + 1) - 1 = i
    BY <1>1, <2>2
  <2>4. entries[i + 1].prev_hash = appended[i].entry_hash
    BY <1>1, <2>1, <2>3 DEF Follows
  <2>5. ContentIntact(appended[i])
    BY <1>1, <2>2, <2>3 DEF FileInv
  <2>6. ~ Intact(entries, i) \/ ~ Intact(entries, i + 1)
    <3> SUFFICES ASSUME Intact(entries, i), Intact(entries, i + 1) PROVE FALSE
      OBVIOUS
    <3>1. entries[i + 1].prev_hash = entries[i].entry_hash
      BY <2>3 DEF Intact, expected_prev
    <3>2. compute_hash(entries[i]) = compute_hash(appended[i])
      BY <2>4, <2>5, <3>1 DEF Intact, ContentIntact
    <3> QED
      BY <1>1, <3>2, HashInjective
  <2>7. CASE ~ Intact(entries, i)
    <3>1. /\ verify(entries).broken_at_seq \in Nat
          /\ verify(entries).broken_at_seq <= i - 1
          /\ ~ verify(entries).valid
      BY <2>2, <2>3, <2>7, VerifyReports
    <3> QED
      BY <2>3, <3>1
  <2>8. CASE ~ Intact(entries, i + 1)
    BY <2>2, <2>3, <2>8, VerifyReports
  <2> QED
    BY <2>6, <2>7, <2>8
<1>2. FileInv => AlterationIsFound
  BY <1>1 DEF AlterationIsFound
<1> QED
  BY <1>2, FileInvariant, PTL

-----------------------------------------------------------------------------
(* What someone who kept the last hash of a log could tell from it.        *)

\* Equal hashes are hashes of equal entries.
LEMMA HashFixesEntry ==
    ASSUME NEW e, NEW f, IsEntry(e), IsEntry(f),
           ContentIntact(e), ContentIntact(f), e.entry_hash = f.entry_hash
    PROVE  e = f
<1>1. sha256(canonical_payload(e)) = sha256(canonical_payload(f))
  BY DEF ContentIntact, compute_hash
<1>2. canonical_payload(e) = canonical_payload(f)
  BY <1>1 DEF sha256
<1>3. e.seq = f.seq /\ e.decision = f.decision /\ e.prev_hash = f.prev_hash
  BY <1>2 DEF canonical_payload
<1> QED
  BY <1>3 DEF IsEntry

\* Two logs that verify, have as many entries and end in the same hash are one
\* log, so a log that was altered and still verifies has another length or
\* another last hash (audit/decision_log.py, compute_hash and verify).
THEOREM LastHashFixesTheLog ==
    ASSUME NEW s, NEW t, IsLog(s), IsLog(t), Len(s) = Len(t),
           verify(s).valid, verify(t).valid, last_hash(s) = last_hash(t)
    PROVE  s = t
<1> DEFINE n == Len(s)
           Apart == {k \in Nat : k < n /\ s[n - k] # t[n - k]}
<1>1. /\ n \in Nat /\ DOMAIN s = 1..n /\ DOMAIN t = 1..n
      /\ s \in Seq({s[i] : i \in 1..n}) /\ t \in Seq({t[i] : i \in 1..n})
  BY LogDomain DEF IsLog
<1>2. \A i \in 1..n : /\ IsEntry(s[i]) /\ Intact(s, i)
                      /\ IsEntry(t[i]) /\ Intact(t, i)
  BY <1>1 DEF IsLog, verify, Broken
<1>3. ASSUME NEW i \in 1..n, s[i].entry_hash = t[i].entry_hash
      PROVE  s[i] = t[i]
  BY <1>2, <1>3, HashFixesEntry DEF Intact
<1>4. Apart = {}
  <2> SUFFICES ASSUME Apart # {} PROVE FALSE
    OBVIOUS
  <2>1. Apart \subseteq Nat
    OBVIOUS
  <2>2. PICK k \in Apart : \A j \in Apart : ~ (j < k)
    <3> HIDE DEF Apart
    <3>1. PICK k \in Apart : \A j \in Apart : <<j, k>> \notin OpToRel(<, Nat)
      BY <2>1, NatLessThanWellFounded, WFMin
    <3>2. \A j \in Apart : ~ (j < k)
      BY <2>1, <3>1 DEF OpToRel
    <3> QED
      BY <3>2
  <2>3. k \in Nat /\ k < n /\ s[n - k] # t[n - k]
    OBVIOUS
  <2>4. n - k \in 1..n
    <3>1. n \in Nat /\ k \in Nat /\ k < n
      BY <1>1, <2>3
    <3> HIDE DEF n, Apart
    <3> QED
      BY <3>1
  <2>5. s[n - k].entry_hash = t[n - k].entry_hash
    <3>1. CASE k = 0
      <4>1. s # <<>> /\ t # <<>> /\ n - k = n /\ Len(t) = n
        BY <1>1, <2>3, <3>1
      <4> QED
        BY <4>1 DEF last_hash
    <3>2. CASE k # 0
      <4> DEFINE i == (n - k) + 1
      <4>1. /\ k - 1 \in Nat /\ k - 1 < k /\ k - 1 < n /\ n - (k - 1) = i
            /\ i \in 1..n /\ i # 1 /\ i - 1 = n - k
        <5> HIDE DEF n
        <5> QED
          BY <1>1, <2>3, <3>2
      <4>2. s[i] = t[i]
        <5>1. k - 1 \notin Apart
          BY <2>2, <4>1
        <5> QED
          BY <4>1, <5>1
      <4> HIDE DEF i
      <4>3. /\ s[i].prev_hash = s[i - 1].entry_hash
            /\ t[i].prev_hash = t[i - 1].entry_hash
        BY <1>2, <4>1 DEF Intact, expected_prev
      <4> QED
        BY <4>1, <4>2, <4>3
    <3> QED
      BY <3>1, <3>2
  <2> QED
    BY <1>3, <2>3, <2>4, <2>5
<1>5. \A i \in 1..n : s[i] = t[i]
  <2>1. ASSUME NEW i \in 1..n, s[i] # t[i] PROVE FALSE
    <3>1. n - i \in Nat /\ n - i < n /\ n - (n - i) = i
      BY <1>1
    <3>2. n - i \in Apart
      BY <2>1, <3>1
    <3> QED
      BY <1>4, <3>2
  <2> QED
    BY <2>1
<1>6. s = [i \in 1..n |-> s[i]] /\ t = [i \in 1..n |-> t[i]]
  BY <1>1
<1> QED
  BY <1>5, <1>6
=============================================================================
