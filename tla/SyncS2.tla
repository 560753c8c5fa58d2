-------------------------------- MODULE SyncS2 --------------------------------
(***************************************************************************)
(* The sync-s2 provider: pushes in chunks that S2 accepts, pulls over SSE  *)
(* with a retry of the whole read, and a live pull that reads to the tail, *)
(* then tails, and reconnects behind its last item whenever the tail ends. *)
(***************************************************************************)
EXTENDS SyncClient, Totals

\* The metered bytes of the events from lo to hi.
Metered(lo, hi) == Total([k \in lo..hi |-> Weight[k]])

\* Mutant of Fits: the bytes of the event about to be added are not counted.
FitsBefore(lo, hi) ==
    /\ hi - lo < MaxRecords
    /\ Metered(lo, hi - 1) <= MaxBytes

Fits(lo, hi) ==
    /\ hi - lo < MaxRecords
    /\ Metered(lo, hi) <= MaxBytes

\* Chunks are filled in order: one ends at to when the next event does not fit.
IsChunk(lo, to, hi) ==
    /\ to > lo => Fits(lo, to)
    /\ to < hi => ~Fits(lo, to + 1)

\* push: one event above the limit refuses the batch before anything is sent.
S2Push(p, n) ==
    /\ provider = "s2" /\ ~push[p].on
    /\ acked[p] + n <= MaxEvents
    /\ \A k \in (acked[p] + 1)..(acked[p] + n) : Weight[k] <= MaxBytes
    /\ \E to \in (acked[p] + 1)..(acked[p] + n) :
          /\ IsChunk(acked[p] + 1, to, acked[p] + n)
          /\ push' = [push EXCEPT ![p] =
                         [on |-> TRUE, at |-> acked[p] + 1, to |-> to, hi |-> acked[p] + n,
                          tries |-> Retries, sent |-> FALSE]]
    /\ UNCHANGED <<provider, log, shape, acked, late, pullVars, faults>>

\* The proxy appends the chunk, wherever the stream ends by then.
S2Append(p) ==
    /\ provider = "s2" /\ push[p].on /\ ~push[p].sent
    /\ Appended(p, push[p].at, push[p].to)
    /\ push' = [push EXCEPT ![p].sent = TRUE]
    /\ UNCHANGED <<provider, shape, acked, late, pullVars, faults>>

\* Mutant of S2NextChunk: the next chunk does not wait for the answer.
S2NextChunkEarly(p) ==
    /\ provider = "s2" /\ push[p].on /\ push[p].to < push[p].hi
    /\ \E to \in (push[p].to + 1)..push[p].hi :
          /\ IsChunk(push[p].to + 1, to, push[p].hi)
          /\ push' = [push EXCEPT ![p].at = push[p].to + 1, ![p].to = to,
                                  ![p].tries = Retries, ![p].sent = FALSE]
    /\ UNCHANGED <<provider, log, shape, acked, late, pullVars, faults>>

\* The answer arrives and there is another chunk.
S2NextChunk(p) ==
    /\ provider = "s2" /\ push[p].on /\ push[p].sent /\ push[p].to < push[p].hi
    /\ \E to \in (push[p].to + 1)..push[p].hi :
          /\ IsChunk(push[p].to + 1, to, push[p].hi)
          /\ push' = [push EXCEPT ![p].at = push[p].to + 1, ![p].to = to,
                                  ![p].tries = Retries, ![p].sent = FALSE]
    /\ UNCHANGED <<provider, log, shape, acked, late, pullVars, faults>>

\* The answer to the last chunk arrives: the push has succeeded.  The code
\* decodes `success' of the answer and never tests it, so this takes the proxy
\* to answer 200 only when S2 has appended.
S2Acked(p) ==
    /\ provider = "s2" /\ push[p].on /\ push[p].sent /\ push[p].to = push[p].hi
    /\ push' = [push EXCEPT ![p] = Idle]
    /\ acked' = [acked EXCEPT ![p] = push[p].hi]
    /\ UNCHANGED <<provider, log, shape, late, pullVars, faults>>

\* Mutants of S2PushFails: the schedule is never exhausted, or a chunk that
\* failed for good counts as sent.
S2PushFailsAgain(p) ==
    /\ provider = "s2" /\ push[p].on
    /\ Fault
    /\ GaveUp(p)
    /\ push' = [push EXCEPT ![p].tries = @ - 1, ![p].sent = FALSE]
    /\ UNCHANGED <<provider, log, shape, acked, pullVars>>

S2PushFailsQuietly(p) ==
    /\ provider = "s2" /\ push[p].on
    /\ Fault
    /\ GaveUp(p)
    /\ push' = IF push[p].tries > 0
                  THEN [push EXCEPT ![p].tries = @ - 1, ![p].sent = FALSE]
                  ELSE [push EXCEPT ![p].sent = TRUE]
    /\ UNCHANGED <<provider, log, shape, acked, pullVars>>

\* The request fails or its answer is lost: the chunk is sent again, and the
\* push fails when the schedule is exhausted.
S2PushFails(p) ==
    /\ provider = "s2" /\ push[p].on
    /\ Fault
    /\ GaveUp(p)
    /\ push' = IF push[p].tries > 0
                  THEN [push EXCEPT ![p].tries = @ - 1, ![p].sent = FALSE]
                  ELSE [push EXCEPT ![p] = Idle]
    /\ UNCHANGED <<provider, log, shape, acked, pullVars>>

\* A request the client has given up is processed after all: nothing fences it.
S2LateAppend(p) ==
    /\ provider = "s2"
    /\ \E r \in late[p] :
          /\ Appended(p, r[1], r[2])
          /\ late' = [late EXCEPT ![p] = @ \ {r}]
    /\ UNCHANGED <<provider, shape, acked, push, pullVars, faults>>

\* S2 itself adds a record that has no body.
S2Command ==
    /\ provider = "s2" /\ Len(log) < MaxLog
    /\ log' = Append(log, NoBody)
    /\ UNCHANGED <<provider, shape, pushVars, pullVars, faults>>
-----------------------------------------------------------------------------
Reading(c) == provider = "s2" /\ pull[c].on /\ ~inbox[c].full

\* The number of the last record in the set, 0 when it is empty.
IsLast(i, records) ==
    /\ i \in records \cup {0}
    /\ \A j \in records : j <= i

\* Mutant of S2Batch: the record behind the cursor is left out.
S2BatchSkips(c, hi) ==
    /\ Reading(c) /\ hi - pull[c].pos \in 1..MaxPage
    /\ LET events == Decoded(pull[c].pos + 2, hi) IN
          \E last \in events \cup {0} :
              /\ IsLast(last, events)
              /\ inbox' = [inbox EXCEPT ![c] = Item(events, last, 0)]
              /\ pull' = [pull EXCEPT ![c].pos = hi, ![c].last = last,
                                      ![c].emitted = TRUE, ![c].tries = Retries]
    /\ UNCHANGED <<provider, log, shape, pushVars, got, cursor, faults>>

\* A batch frame with the records up to hi; those without a body are dropped,
\* and the item may be empty for it.
S2Batch(c, hi) ==
    /\ Reading(c) /\ hi - pull[c].pos \in 1..MaxPage
    /\ LET events == Decoded(pull[c].pos + 1, hi) IN
          \E last \in events \cup {0} :
              /\ IsLast(last, events)
              /\ inbox' = [inbox EXCEPT ![c] = Item(events, last, 0)]
              /\ pull' = [pull EXCEPT ![c].pos = hi, ![c].last = last,
                                      ![c].emitted = TRUE, ![c].tries = Retries]
    /\ UNCHANGED <<provider, log, shape, pushVars, got, cursor, faults>>

\* Mutant of NextCursor: the tail is wherever the stream ends by now.
NextCursorAtTail(c) == Len(log)

\* The cursor behind the last item, or where the pass began if that was empty.
NextCursor(c) == IF pull[c].last = 0 THEN pull[c].from ELSE pull[c].last

\* A stream that ends without an item gives an empty one.
EmitIfEmpty(c) ==
    inbox' = IF pull[c].emitted THEN inbox
                                ELSE [inbox EXCEPT ![c] = Item({}, 0, 0)]

\* Mutant of S2ReadEnds: a page that is not full is taken for the last one.
S2ReadEndsEarly(c) ==
    /\ Reading(c) /\ ~pull[c].tail
    /\ EmitIfEmpty(c)
    /\ pull' = [pull EXCEPT ![c] =
                   IF pull[c].live
                      THEN [@ EXCEPT !.tail = TRUE, !.from = NextCursor(c),
                                     !.pos = NextCursor(c), !.last = 0,
                                     !.emitted = FALSE, !.tries = Retries]
                      ELSE Off]
    /\ UNCHANGED <<provider, log, shape, pushVars, got, cursor, faults>>

\* The read reaches the tail (wait = 0): the pull ends, or goes on to tail.
S2ReadEnds(c) ==
    /\ Reading(c) /\ ~pull[c].tail /\ pull[c].pos = Len(log)
    /\ EmitIfEmpty(c)
    /\ pull' = [pull EXCEPT ![c] =
                   IF pull[c].live
                      THEN [@ EXCEPT !.tail = TRUE, !.from = NextCursor(c),
                                     !.pos = NextCursor(c), !.last = 0,
                                     !.emitted = FALSE, !.tries = Retries]
                      ELSE Off]
    /\ UNCHANGED <<provider, log, shape, pushVars, got, cursor, faults>>

\* The tail is closed without an error, with or without records left to read:
\* the pull reconnects.
S2TailEnds(c) ==
    /\ Reading(c) /\ pull[c].tail
    /\ IF pull[c].pos < Len(log) THEN Fault ELSE UNCHANGED faults
    /\ EmitIfEmpty(c)
    /\ pull' = [pull EXCEPT ![c].from = NextCursor(c), ![c].pos = NextCursor(c),
                            ![c].last = 0, ![c].emitted = FALSE, ![c].tries = Retries]
    /\ UNCHANGED <<provider, log, shape, pushVars, got, cursor>>

\* The request or the stream fails: the pass is read again from where it began,
\* and the pull fails when the schedule is exhausted.
S2ReadFails(c) ==
    /\ Reading(c)
    /\ Fault
    /\ pull' = IF pull[c].tries > 0
                  THEN [pull EXCEPT ![c].pos = pull[c].from, ![c].tries = @ - 1]
                  ELSE [pull EXCEPT ![c] = Off]
    /\ UNCHANGED <<provider, log, shape, pushVars, got, cursor, inbox>>

S2Next ==
    \/ \E p \in Pushers :
          \/ \E n \in 1..MaxEvents : S2Push(p, n)
          \/ S2Append(p) \/ S2NextChunk(p) \/ S2Acked(p)
          \/ S2PushFails(p) \/ S2LateAppend(p)
    \/ S2Command
    \/ \E c \in Pullers :
          \/ \E hi \in 1..Len(log) : S2Batch(c, hi)
          \/ S2ReadEnds(c) \/ S2TailEnds(c) \/ S2ReadFails(c)
=============================================================================
