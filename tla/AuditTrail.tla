----------------------------- MODULE AuditTrail ------------------------------
(* AuditTrail (src/src/audit_trail.rs), enabled: a bounded list of events       *)
(* linked into a hash chain.  Each call takes the list's mutex once and is one  *)
(* step.  compute_entry_hash covers a text of the content, not the content: the *)
(* fields joined without separators, one that is absent like an empty one, and  *)
(* not recorded_at.  The hash is modelled as that which it covers, so that two  *)
(* hashes of one position agree exactly when the texts do.  Queries and alerts  *)
(* read.                                                                       *)
EXTENDS Integers, Sequences, SequencesExt, ServiceClock

CONSTANTS
    Contents,     \* what is recorded
    HashedText,   \* the text of each content that its hash covers
    MaxEntries    \* max_entries_in_memory

ASSUME AuditConfig == MaxEntries \in Nat

VARIABLES
    entries,
    linked,     \* history: the content each entry was last linked with
    untouched   \* history: no content was ever changed behind the trail's back

auditVars == <<entries, linked, untouched>>

Texts == {HashedText[content] : content \in Contents}

Hashes == Seq(Texts)

NoHash == <<>>

Hash(content, previous) == Append(previous, HashedText[content])

Entries == [content : Contents, previous : Hashes, hash : Hashes]

AuditTypeOK ==
    /\ entries \in Seq(Entries)
    /\ Len(entries) <= MaxEntries
    /\ linked \in Seq(Contents)
    /\ Len(linked) = Len(entries)
    /\ untouched \in BOOLEAN

AuditInit == entries = <<>> /\ linked = <<>> /\ untouched = TRUE

LastHash == IF entries = <<>> THEN NoHash ELSE Last(entries).hash

Linked(content, previous) ==
    [content |-> content, previous |-> previous, hash |-> Hash(content, previous)]

\* Mutant: after an eviction only the new first entry is linked anew.
RelinkedFirst(list) ==
    [i \in DOMAIN list |-> IF i = 1 THEN Linked(list[i].content, NoHash) ELSE list[i]]

\* The hash a chain has reached after its first i contents, hashed one by one.
HashAfter(list, i) == [k \in 1 .. i |-> HashedText[list[k].content]]

\* rebuild_chain
Rebuilt(list) ==
    [i \in DOMAIN list |-> Linked(list[i].content, HashAfter(list, i - 1))]

\* record
Record(content) ==
    /\ Begin
    /\ LET longer == Append(entries, Linked(content, LastHash))
           kept == Tail(longer)
       IN  IF Len(longer) <= MaxEntries
           THEN /\ entries' = longer
                /\ linked' = Append(linked, content)
           ELSE /\ entries' = Rebuilt(kept)
                /\ linked' = [i \in DOMAIN kept |-> kept[i].content]
    /\ UNCHANGED untouched

\* What the chain is there to show: stored content changes, the hashes stay.
Tamper(i, content) ==
    /\ Begin
    /\ content /= entries[i].content
    /\ entries' = [entries EXCEPT ![i].content = content]
    /\ untouched' = FALSE
    /\ UNCHANGED linked

AuditNext ==
    \E content \in Contents :
        Record(content) \/ \E i \in DOMAIN entries : Tamper(i, content)

\* verify_chain
ChainIntact ==
    \A i \in DOMAIN entries :
        /\ entries[i].hash = Hash(entries[i].content, entries[i].previous)
        /\ entries[i].previous = IF i = 1 THEN NoHash ELSE entries[i - 1].hash

-----------------------------------------------------------------------------
\* verify_chain raises no false alarm, through records and evictions, and it reports
\* a break as long as the hashed text of a stored entry is not the one it was linked
\* with, whatever is recorded meanwhile (record, rebuild_chain, verify_chain).  This
\* is less than "any modification to a past entry" (audit_trail.rs:13-15): nothing is
\* claimed of a change that leaves the text as it was, and an eviction links what is
\* stored, changed or not.
ChainTellsTampering ==
    /\ untouched => ChainIntact
    /\ ChainIntact => \A i \in DOMAIN entries :
                          HashedText[entries[i].content] = HashedText[linked[i]]
=============================================================================
