------------------------------- MODULE EventStore -------------------------------
(***************************************************************************)
(* The append-only event log (events.jsonl) that lives beside the          *)
(* snapshots: append, append_once, append_many_once, the watermark a       *)
(* snapshot records and its reconciliation.                                *)
(*                                                                         *)
(* Every operation runs under the log's file lock, so one action is one    *)
(* operation, or the part of it the disk holds when the process dies.      *)
(* The log is a sequence of chunks between newlines; a byte offset that    *)
(* follows a newline is the number of chunks before it.  An event is named *)
(* by its signature (the values of its identity keys).                     *)
(***************************************************************************)
EXTENDS Naturals, Sequences, FiniteSets

CONSTANTS Events,     \* signatures of the events written
          Multiline,  \* events whose text holds a separator that splitlines() breaks at
                      \* and that json.dumps(ensure_ascii=False) leaves as it is
          Plain,      \* events also written by append(), which looks for no signature
          Torn,       \* how a write the process died in may end, of TornKinds
          NoEvent,    \* in the place of an event, for a chunk that holds none
          MaxBatch,   \* bound on the events of one batch
          MaxLog      \* bound on the chunks in the log

\* A torn write ends in an incomplete JSON text, inside a multi-byte character, or
\* after a whole text, just before its newline.
TornKinds == {"fragment", "half_character", "event"}

ASSUME EventStoreAssumption ==
    /\ Multiline \subseteq Events /\ Plain \subseteq Events
    /\ Torn \subseteq TornKinds /\ MaxBatch \in Nat /\ MaxLog \in Nat

VARIABLES log,        \* chunks of events.jsonl
          acked,      \* events whose append, or append_once, returned
          watermark   \* complete chunks when the last snapshot was taken

vars == <<log, acked, watermark>>

Chunk(kind, e, ended) == [kind |-> kind, event |-> e, ended |-> ended]

EventLine(e) == Chunk("event", e, TRUE)

Init == log = <<>> /\ acked = {} /\ watermark = 0

---------------------------------------------------------------------------

\* Mutant: an unterminated tail is truncated.
AppendedOverTail(events) ==
    SelectSeq(log, LAMBDA chunk : chunk.ended) \o [i \in DOMAIN events |-> EventLine(events[i])]

\* _append_unlocked: an unterminated tail is closed with a newline and followed by a
\* quarantine marker, then come the payloads.
Appended(events) ==
    LET n    == Len(log)
        tail == n > 0 /\ ~log[n].ended
        base == IF tail THEN Append([log EXCEPT ![n].ended = TRUE], Chunk("marker", NoEvent, TRUE))
                        ELSE log
    IN IF events = <<>> THEN log ELSE base \o [i \in DOMAIN events |-> EventLine(events[i])]

\* _replay_unlocked: read_text raises on a half character; splitlines() breaks a
\* multi-line event into pieces that are not JSON; every other event is yielded, the
\* one that lacks only its newline included.
Readable == \A i \in DOMAIN log : log[i].kind # "half_character"

Replay == {log[i].event : i \in {k \in DOMAIN log : log[k].kind = "event"
                                                  /\ log[k].event \notin Multiline}}

\* The n-th smallest of a finite set of numbers, and the part of a sequence at such a set.
Nth(S, n) == CHOOSE i \in S : Cardinality({k \in S : k <= i}) = n
At(events, S) == [n \in 1..Cardinality(S) |-> events[Nth(S, n)]]

\* Mutant: signatures of the batch itself are not remembered.
UnseenBefore(events) == At(events, {i \in DOMAIN events : events[i] \notin Replay})

\* The events of a batch that append_many_once keeps: no signature seen before.
Unseen(events) ==
    LET seen    == Replay
        kept(i) == events[i] \notin seen /\ \A k \in 1..(i - 1) : events[k] # events[i]
    IN At(events, {i \in DOMAIN events : kept(i)})

Fits(chunks) == Len(chunks) <= MaxLog

\* A call that was asked to log a batch writes these events of it and returns.
Write(events, batch) ==
    /\ Fits(Appended(events))
    /\ log' = Appended(events)
    /\ acked' = acked \cup {batch[i] : i \in DOMAIN batch}
    /\ UNCHANGED watermark

\* append_once and append_many_once replay the log first; they raise when it cannot
\* be decoded.
AppendOnce(events) == Readable /\ Write(Unseen(events), events)

\* The process dies in the write: the disk holds a prefix of it - of the newline that
\* closes an old tail, the marker and the payloads - the last chunk of which may be torn.
Tear(events, kind) ==
    LET full == Appended(events)
    IN /\ Fits(full)
       /\ \E n \in Len(log)..Len(full) :
             \/ log' = SubSeq(full, 1, n)
             \/ /\ n < Len(full)
                /\ log' = Append(SubSeq(full, 1, n),
                                 IF kind = "event" THEN [full[n + 1] EXCEPT !.ended = FALSE]
                                                   ELSE Chunk(kind, NoEvent, FALSE))
       /\ UNCHANGED <<acked, watermark>>

CrashInAppendOnce(events, kind) ==
    Readable /\ Unseen(events) # <<>> /\ Tear(Unseen(events), kind)

\* _committed_offset_unlocked: the chunks up to the last newline.
CommittedOffset == IF log # <<>> /\ ~log[Len(log)].ended THEN Len(log) - 1 ELSE Len(log)

\* NexusSnapshotTransaction.commit records the watermark of its generation.
TakeWatermark == watermark' = CommittedOffset /\ UNCHANGED <<log, acked>>

Batches == UNION {[1..n -> Events] : n \in 1..MaxBatch}

\* append() writes without looking for a signature.
AppendEvent(e) == Write(<<e>>, <<e>>)

CrashInAppend(e, kind) == Tear(<<e>>, kind)

Next == \/ \E b \in Batches : AppendOnce(b)
        \/ \E b \in Batches, k \in Torn : CrashInAppendOnce(b, k)
        \/ \E e \in Plain : AppendEvent(e)
        \/ \E e \in Plain, k \in Torn : CrashInAppend(e, k)
        \/ TakeWatermark

Spec == Init /\ [][Next]_vars

---------------------------------------------------------------------------
(* reconcile: a read-only audit of the log against a watermark *)

Class(i) == IF ~log[i].ended \/ log[i].kind \in {"fragment", "half_character"} THEN "truncated"
            ELSE IF i <= watermark THEN "committed" ELSE "post-snapshot"

---------------------------------------------------------------------------
(* Properties *)

TypeOK ==
    /\ log \in Seq([kind : TornKinds \cup {"marker"}, event : Events \cup {NoEvent},
                    ended : BOOLEAN])
    /\ Len(log) <= MaxLog
    /\ acked \subseteq Events
    /\ watermark \in 0..MaxLog

\* "preventing duplicate final progress/pipeline events for the same logical round"
\* (event_store.py:35-36): an identity that only append_once writes is logged at most once,
\* retries after torn writes included - unless its text holds a separator that the replay
\* breaks it at, so that append_once does not find it again.
LoggedOnce ==
    \A i, k \in DOMAIN log :
        /\ log[i].kind = "event" /\ log[k].kind = "event"
        /\ log[i].event = log[k].event /\ log[i].event \notin Plain \cup Multiline
        => i = k

Logged == {log[i].event : i \in {k \in DOMAIN log : log[k].kind = "event"}}

\* An event whose append returned, also one that append_once found in the log and did not
\* write again, stays in the log whole for ever, whatever later writes and crashes do to
\* the end of the file.
AckedEventsStay == acked \subseteq Logged

\* A snapshot's audit is stable: what reconcile reports as committed or as written after
\* the snapshot is never rewritten, and never moves back across a later watermark.
AuditOnlyAdvances ==
    [][\A i \in DOMAIN log : Class(i) # "truncated" =>
          /\ i \in DOMAIN log' /\ log'[i] = log[i]
          /\ Class(i)' = IF Class(i) = "committed" \/ i <= watermark' THEN "committed"
                                                                     ELSE "post-snapshot"]_vars

---------------------------------------------------------------------------
(* The inductive invariant behind the properties *)

\* Only the last chunk may lack its newline, and a chunk of an event names it.
OnlyTheTailIsTorn ==
    \A i \in DOMAIN log : /\ i < Len(log) => log[i].ended
                          /\ log[i].kind = "event" => log[i].event \in Events

IInv == TypeOK /\ OnlyTheTailIsTorn /\ LoggedOnce /\ AckedEventsStay
==================================================================================
