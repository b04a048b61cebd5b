------------------------------ MODULE Journals ------------------------------
(***************************************************************************)
(* The records a page's life leaves behind: the bounded streams of changes  *)
(* (crates/event-observer) and of snapshot differences (crates/diff) that a *)
(* consumer drains, the numbered event trace, the chained audit journal     *)
(* (crates/audit) and the bounded snapshot store (crates/state).            *)
(*                                                                          *)
(* A change, an operation, a traced event, an audited one and a snapshot is *)
(* the number of its publication.  A save of the trace, the journal or the  *)
(* store is a file that later replaces what is in memory.                   *)
(***************************************************************************)
EXTENDS Naturals, SequencesExt

CONSTANTS Capacities,      \* capacities streams and stores are made with
          MaxPublished     \* bound on what is published

ASSUME JournalsAssumption == Capacities \subseteq Nat /\ MaxPublished \in Nat

VARIABLES stream,      \* ChangeStream
          diffs,       \* DiffStream
          current,     \* generation of the page whose differences are published
          published,   \* history: number of changes, operations, events or snapshots so far
          drained,     \* history: the value of published at the last drain
          batch,       \* what the last drain answered
          trace,       \* EventTrace
          journal,     \* AuditJournal
          snapshots,   \* SnapshotStore
          kept,        \* history: what was recorded, as the restored file has it
          file         \* the last save: {} or {its contents}

streamVars == <<stream, diffs, current, drained, batch>>
recordVars == <<trace, journal, snapshots, kept, file>>
journalVars == <<streamVars, recordVars, published>>

AtLeastOne(capacity) == IF capacity = 0 THEN 1 ELSE capacity

bounded(capacity) == [capacity |-> AtLeastOne(capacity), dropped |-> 0, events |-> << >>]

JournalsInit ==
    /\ \E c \in Capacities :
          /\ stream = bounded(c)
          /\ diffs = [capacity |-> AtLeastOne(c), dropped |-> 0, entries |-> << >>,
                      next_sequence |-> 0]
          /\ snapshots = [capacity |-> AtLeastOne(c), ids |-> {}]
    /\ current = 0 /\ published = 0 /\ drained = 0
    /\ batch = [ok |-> TRUE, items |-> << >>, dropped |-> 0]
    /\ trace = [entries |-> << >>, next_sequence |-> 0]
    /\ journal = [records |-> << >>, next_sequence |-> 0]
    /\ kept = << >> /\ file = {}

Number == published < MaxPublished /\ published' = published + 1
-----------------------------------------------------------------------------
\* Mutant: the oldest change makes room without being counted.
PushUncounted(queue, dropped, capacity, item) ==
    <<Append(IF Len(queue) = capacity THEN Tail(queue) ELSE queue, item), dropped>>

\* The queue and the count of the dropped: when full the oldest item makes room.
Push(queue, dropped, capacity, item) ==
    IF Len(queue) = capacity THEN <<Append(Tail(queue), item), dropped + 1>>
                             ELSE <<Append(queue, item), dropped>>

publish ==
    /\ Number
    /\ LET after == Push(stream.events, stream.dropped, stream.capacity, published')
       IN stream' = [stream EXCEPT !.events = after[1], !.dropped = after[2]]
    /\ UNCHANGED <<diffs, current, drained, batch, recordVars>>

\* A difference of the generation of the newest entry is merged into it; its
\* sequence number is used up all the same.
publish_diff ==
    /\ Number
    /\ LET merges == diffs.entries # << >> /\ Last(diffs.entries).generation = current
           entry == [sequence |-> diffs.next_sequence, generation |-> current,
                     operations |-> <<published'>>]
           after == Push(diffs.entries, diffs.dropped, diffs.capacity, entry)
       IN diffs' = IF merges
                   THEN [diffs EXCEPT !.next_sequence = @ + 1,
                           !.entries[Len(diffs.entries)].operations = Append(@, published')]
                   ELSE [diffs EXCEPT !.next_sequence = @ + 1, !.entries = after[1],
                                      !.dropped = after[2]]
    /\ UNCHANGED <<stream, current, drained, batch, recordVars>>

\* The page moves on to its next generation.
next_generation ==
    /\ diffs.entries # << >> /\ current = Last(diffs.entries).generation
    /\ current' = current + 1
    /\ UNCHANGED <<stream, diffs, published, drained, batch, recordVars>>

Operations == FlattenSeq([i \in DOMAIN diffs.entries |-> diffs.entries[i].operations])

\* drain answers an error after an overflow, and the retained items are gone too.
Answer(items, dropped) ==
    batch' = [ok |-> dropped = 0, items |-> IF dropped = 0 THEN items ELSE << >>,
              dropped |-> dropped]

drain ==
    /\ Answer(stream.events, stream.dropped)
    /\ stream' = [stream EXCEPT !.events = << >>, !.dropped = 0]
    /\ drained' = published
    /\ UNCHANGED <<diffs, current, published, recordVars>>

drain_diffs ==
    /\ Answer(Operations, diffs.dropped)
    /\ diffs' = [diffs EXCEPT !.entries = << >>, !.dropped = 0]
    /\ drained' = published
    /\ UNCHANGED <<stream, current, published, recordVars>>

\* drain_with_loss of either stream keeps the retained items with the count.
drain_with_loss ==
    /\ batch' = [ok |-> stream.dropped = 0, items |-> stream.events, dropped |-> stream.dropped]
    /\ stream' = [stream EXCEPT !.events = << >>, !.dropped = 0]
    /\ drained' = published
    /\ UNCHANGED <<diffs, current, published, recordVars>>

drain_diffs_with_loss ==
    /\ batch' = [ok |-> diffs.dropped = 0, items |-> Operations, dropped |-> diffs.dropped]
    /\ diffs' = [diffs EXCEPT !.entries = << >>, !.dropped = 0]
    /\ drained' = published
    /\ UNCHANGED <<stream, current, published, recordVars>>
-----------------------------------------------------------------------------
record ==
    /\ Number
    /\ trace' = [entries |-> Append(trace.entries, [sequence |-> trace.next_sequence,
                                                    event |-> published']),
                 next_sequence |-> trace.next_sequence + 1]
    /\ kept' = Append(kept, published')
    /\ UNCHANGED <<streamVars, journal, snapshots, file>>

save_trace ==
    /\ file' = {[trace |-> trace, kept |-> kept]}
    /\ UNCHANGED <<streamVars, published, trace, journal, snapshots, kept>>

Ascending(entries) == \A i, j \in DOMAIN entries : i < j => entries[i].sequence < entries[j].sequence

\* The stored next number is ignored and worked out anew.
trace_from_json ==
    /\ \E saved \in file :
          /\ Ascending(saved.trace.entries)
          /\ trace' = [entries |-> saved.trace.entries,
                       next_sequence |-> IF saved.trace.entries = << >> THEN 0
                                         ELSE Last(saved.trace.entries).sequence + 1]
          /\ kept' = saved.kept
    /\ UNCHANGED <<streamVars, published, journal, snapshots, file>>
-----------------------------------------------------------------------------
\* The hash of a record is modelled by all that is hashed.
integrity(rec) == <<rec.sequence, rec.event, rec.previous_integrity>>

AuditRecord(sequence, event, previous) ==
    [sequence |-> sequence, event |-> event, previous_integrity |-> previous,
     integrity |-> <<sequence, event, previous>>]

Tip(records) == IF records = << >> THEN << >> ELSE Last(records).integrity

append ==
    /\ Number
    /\ journal' = [records |-> Append(journal.records,
                          AuditRecord(journal.next_sequence, published', Tip(journal.records))),
                   next_sequence |-> journal.next_sequence + 1]
    /\ kept' = Append(kept, published')
    /\ UNCHANGED <<streamVars, trace, snapshots, file>>

\* Mutant: the numbers go on where they were.
RetainKeepsNumbering(max_records) ==
    /\ Len(journal.records) > max_records
    /\ LET last == SubSeq(journal.records, Len(journal.records) - max_records + 1,
                          Len(journal.records))
           chain[i \in 0 .. max_records] == IF i = 0 THEN << >> ELSE
               Append(chain[i - 1], AuditRecord(i - 1, last[i].event, Tip(chain[i - 1])))
       IN journal' = [journal EXCEPT !.records = chain[max_records]]
    /\ kept' = SubSeq(kept, Len(kept) - max_records + 1, Len(kept))
    /\ UNCHANGED <<streamVars, published, trace, snapshots, file>>

\* The oldest records go; the rest are numbered and chained anew.
retain_last(max_records) ==
    /\ Len(journal.records) > max_records
    /\ LET last == SubSeq(journal.records, Len(journal.records) - max_records + 1,
                          Len(journal.records))
           chain[i \in 0 .. max_records] == IF i = 0 THEN << >> ELSE
               Append(chain[i - 1], AuditRecord(i - 1, last[i].event, Tip(chain[i - 1])))
       IN journal' = [records |-> chain[max_records], next_sequence |-> max_records]
    /\ kept' = SubSeq(kept, Len(kept) - max_records + 1, Len(kept))
    /\ UNCHANGED <<streamVars, published, trace, snapshots, file>>

verify_integrity(j) ==
    /\ \A i \in DOMAIN j.records :
          /\ j.records[i].sequence = i - 1
          /\ j.records[i].previous_integrity = Tip(SubSeq(j.records, 1, i - 1))
          /\ integrity(j.records[i]) = j.records[i].integrity
    /\ j.next_sequence = Len(j.records)

save_journal ==
    /\ file' = {[journal |-> journal, kept |-> kept]}
    /\ UNCHANGED <<streamVars, published, trace, journal, snapshots, kept>>

\* A journal that does not verify is refused.
journal_from_json ==
    /\ \E saved \in file : /\ verify_integrity(saved.journal)
                           /\ journal' = saved.journal /\ kept' = saved.kept
    /\ UNCHANGED <<streamVars, published, trace, snapshots, file>>
-----------------------------------------------------------------------------
\* The store keeps the snapshots with the highest ids.  The id may be older
\* than what is stored: an out-of-order snapshot can be the one evicted.
insert(id) ==
    /\ Number
    /\ LET ids == snapshots.ids \cup {id}
       IN snapshots' = [snapshots EXCEPT !.ids =
                           IF Cardinality(ids) > snapshots.capacity THEN ids \ {Min(ids)} ELSE ids]
    /\ kept' = Append(kept, id)
    /\ UNCHANGED <<streamVars, trace, journal, file>>

save_snapshots ==
    /\ file' = {[snapshots |-> snapshots, kept |-> kept]}
    /\ UNCHANGED <<streamVars, published, trace, journal, snapshots, kept>>

snapshots_from_json ==
    /\ \E saved \in file : snapshots' = saved.snapshots /\ kept' = saved.kept
    /\ UNCHANGED <<streamVars, published, trace, journal, file>>
-----------------------------------------------------------------------------
StreamNext == publish \/ drain \/ drain_with_loss
DiffStreamNext == publish_diff \/ next_generation \/ drain_diffs \/ drain_diffs_with_loss
TraceNext == record \/ save_trace \/ trace_from_json
AuditNext == append \/ (\E n \in 0 .. 2 : retain_last(n)) \/ save_journal \/ journal_from_json
SnapshotNext == (\E id \in 1 .. MaxPublished : insert(id)) \/ save_snapshots \/ snapshots_from_json
-----------------------------------------------------------------------------
(* What a drain answers can be relied on: an answer without loss is exactly  *)
(* what was published since the drain before, in order, however often the    *)
(* stream overflowed and was drained in between; a loss is always announced, *)
(* and what comes with it is the newest part of what was published.          *)
DrainIsHonest ==
    [][LET since == [i \in 1 .. published - drained |-> drained + i]
       IN published' = published /\ drained' = published /\ (stream' # stream \/ diffs' # diffs \/ batch' # batch) =>
             /\ batch'.ok <=> batch'.items = since
             /\ IsSuffix(batch'.items, since)
             /\ batch'.ok <=> batch'.dropped = 0]_journalVars

(* The records in memory are what was recorded, in order, after any mixture  *)
(* of appends, retention, saves and restores: the trace is numbered without  *)
(* repetition and goes on above its last number, the journal verifies (or it *)
(* could not be read back, and its replay would answer an error), and the    *)
(* store holds the highest of the ids it was given, as many as it may.       *)
RecordsAreKept ==
    /\ trace.entries # << >> =>
          /\ [i \in DOMAIN trace.entries |-> trace.entries[i].event] = kept
          /\ Ascending(trace.entries)
          /\ trace.next_sequence = Last(trace.entries).sequence + 1
    /\ journal.records # << >> =>
          [i \in DOMAIN journal.records |-> journal.records[i].event] = kept
    /\ verify_integrity(journal)
    /\ snapshots.ids # {} =>
          LET given == Range(kept)
          IN /\ snapshots.ids \subseteq given
             /\ Cardinality(snapshots.ids) = Min({snapshots.capacity, Cardinality(given)})
             /\ \A a \in snapshots.ids, b \in given \ snapshots.ids : b < a
=============================================================================
