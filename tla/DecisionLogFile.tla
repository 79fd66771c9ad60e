--------------------------- MODULE DecisionLogFile ---------------------------
(***************************************************************************)
(* A DecisionLog with a path (audit/decision_log.py): each append rewrites *)
(* the whole file, a new process loads it, and a process may die between   *)
(* any two steps, in the middle of the rewrite too.  Entries may also be   *)
(* altered behind the log's back, in memory or in the file, with or        *)
(* without a matching hash of their own, as its tests and demo_local.py do.*)
(***************************************************************************)
EXTENDS DecisionLog, FiniteSets

CONSTANTS
    Decisions,      \* what may be appended or put in an entry's place
    MaxEntries,     \* bound: entries a log grows to
    MaxAlterations, \* bound: alterations in a behaviour
    Missing, Torn   \* a file that is not there, and one cut short

ASSUME FileAssumption == /\ MaxEntries \in Nat /\ MaxAlterations \in Nat
                         /\ Missing # Torn

VARIABLES
    pc,             \* "down", "up", or "saving" between truncate and write
    entries,        \* the log in memory
    file,           \* Missing, Torn, or the entries it holds
    appended,       \* history: the entries of the log as they were appended
    alterations     \* how often an entry was altered

vars == <<pc, entries, file, appended, alterations>>

Init == /\ pc = "down"
        /\ entries = <<>>
        /\ file = Missing
        /\ appended = <<>>
        /\ alterations = 0

\* Fault: a log that is opened again starts empty.
Open_empty ==
    /\ pc = "down"
    /\ file # Torn
    /\ pc' = "up"
    /\ entries' = <<>>
    /\ UNCHANGED <<file, appended, alterations>>

\* __init__ and _load.  A torn file raises in json.loads and no log is made.
Open == /\ pc = "down"
        /\ file # Torn
        /\ pc' = "up"
        /\ entries' = IF file = Missing THEN <<>> ELSE file
        /\ UNCHANGED <<file, appended, alterations>>

\* append_decision up to the save: the entry is in memory, and write_text has
\* emptied the file.
AppendDecision(decision) ==
    /\ pc = "up"
    /\ Len(entries) < MaxEntries
    /\ entries' = append_decision(entries, decision)
    /\ appended' = Append(SubSeq(appended, 1, Len(entries)),
                          next_entry(entries, decision))
    /\ file' = Torn
    /\ pc' = "saving"
    /\ UNCHANGED alterations

Save == /\ pc = "saving"
        /\ file' = entries
        /\ pc' = "up"
        /\ UNCHANGED <<entries, appended, alterations>>

Crash == /\ pc # "down"
         /\ pc' = "down"
         /\ entries' = <<>>
         /\ UNCHANGED <<file, appended, alterations>>

\* The log s with the decision of its i-th entry replaced, and the entry's
\* own hash left as it was or recomputed.
Altered(s, i, decision, rehash) ==
    [s EXCEPT ![i] = IF rehash THEN Hashed(@.seq, decision, @.prev_hash)
                     ELSE [@ EXCEPT !.decision = decision]]

AlterMemory(i, decision, rehash) ==
    /\ pc = "up"
    /\ alterations < MaxAlterations
    /\ i \in DOMAIN entries
    /\ entries' = Altered(entries, i, decision, rehash)
    /\ alterations' = alterations + 1
    /\ UNCHANGED <<pc, file, appended>>

AlterFile(i, decision, rehash) ==
    /\ pc = "down"
    /\ file \notin {Missing, Torn}
    /\ alterations < MaxAlterations
    /\ i \in DOMAIN file
    /\ file' = Altered(file, i, decision, rehash)
    /\ alterations' = alterations + 1
    /\ UNCHANGED <<pc, entries, appended>>

Next ==
    \/ Open \/ Save \/ Crash
    \/ \E decision \in Decisions :
          \/ AppendDecision(decision)
          \/ \E i \in 1..MaxEntries, rehash \in BOOLEAN :
                \/ AlterMemory(i, decision, rehash)
                \/ AlterFile(i, decision, rehash)

Spec == Init /\ [][Next]_vars

-----------------------------------------------------------------------------
\* A log nobody altered verifies, whatever crashes and reloads it went
\* through (audit/decision_log.py, verify).
UnalteredVerifies == alterations = 0 => verify(entries).valid

\* An entry that differs from what was appended, and that a later entry was
\* chained to before, makes the chain invalid for good: appending more,
\* restarting, recomputing the entry's hash or altering others does not hide
\* it, and verify stops no later than the entry after it
\* (audit/decision_log.py, verify and the module docstring).
AlterationIsFound ==
    \A i \in 1..(Len(entries) - 1) :
        /\ entries[i].decision # appended[i].decision
        /\ appended[i + 1].prev_hash = appended[i].entry_hash
        => /\ ~ verify(entries).valid
           /\ verify(entries).broken_at_seq <= i

\* Between appends the file and the memory of an unaltered log agree, so a
\* process that dies there loses nothing (audit/decision_log.py, _save, _load).
SavedIsMemory ==
    alterations = 0 /\ pc = "up" =>
        /\ entries = appended
        /\ file = IF appended = <<>> THEN Missing ELSE appended
=============================================================================
