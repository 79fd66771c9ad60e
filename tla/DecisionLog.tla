----------------------------- MODULE DecisionLog -----------------------------
(***************************************************************************)
(* audit/decision_log.py: entries chained by hash.  SHA-256 over the       *)
(* canonical JSON is modelled by a constructor, so it is injective, which  *)
(* is what the code relies on.  ts is left out: nothing reads it, and no   *)
(* property here tells two times apart.                                    *)
(***************************************************************************)
EXTENDS Integers, Sequences

CONSTANT GENESIS_HASH   \* 64 zeros, the hash of no entry

sha256(payload) == <<"sha256", payload>>

\* An entry holds the decision's fields as one value.
canonical_payload(entry) ==
    [seq |-> entry.seq, decision |-> entry.decision,
     prev_hash |-> entry.prev_hash]

compute_hash(entry) == sha256(canonical_payload(entry))

last_hash(entries) ==
    IF entries = <<>> THEN GENESIS_HASH ELSE entries[Len(entries)].entry_hash

Hashed(seq, decision, prev_hash) ==
    [seq |-> seq, decision |-> decision, prev_hash |-> prev_hash,
     entry_hash |-> compute_hash([seq |-> seq, decision |-> decision,
                                  prev_hash |-> prev_hash])]

\* Fault: an entry names the genesis hash instead of its predecessor.
next_entry_unlinked(entries, decision) ==
    Hashed(Len(entries), decision, GENESIS_HASH)

next_entry(entries, decision) ==
    Hashed(Len(entries), decision, last_hash(entries))

append_decision(entries, decision) ==
    Append(entries, next_entry(entries, decision))

ContentIntact(entry) == compute_hash(entry) = entry.entry_hash

\* What verify expects as the prev_hash of the i-th entry.
expected_prev(entries, i) ==
    IF i = 1 THEN GENESIS_HASH ELSE entries[i - 1].entry_hash

\* Fault: verify only recomputes the hashes and does not check the links.
Intact_content(entries, i) == ContentIntact(entries[i])

Intact(entries, i) ==
    /\ ContentIntact(entries[i])
    /\ entries[i].prev_hash = expected_prev(entries, i)

Broken(entries) == {i \in DOMAIN entries : ~ Intact(entries, i)}

NoSeq == -1     \* broken_at_seq=None

verify(entries) ==
    [valid |-> Broken(entries) = {},
     broken_at_seq |->
        IF Broken(entries) = {} THEN NoSeq
        ELSE entries[CHOOSE i \in Broken(entries) :
                         \A j \in Broken(entries) : i <= j].seq]
=============================================================================
