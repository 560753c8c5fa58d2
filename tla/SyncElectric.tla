----------------------------- MODULE SyncElectric -----------------------------
(***************************************************************************)
(* The sync-electric provider: a push is one request that the table takes  *)
(* or refuses as a whole, and a pull unfolds requests for the shape of the *)
(* table, each from the offset and handle that the answer before it named. *)
(***************************************************************************)
EXTENDS SyncClient

\* push: the batch as it is, in one request.
ElectricPush(p, n) ==
    /\ provider = "electric" /\ ~push[p].on
    /\ acked[p] + n <= MaxEvents
    /\ push' = [push EXCEPT ![p] =
                   [on |-> TRUE, at |-> acked[p] + 1, to |-> acked[p] + n,
                    hi |-> acked[p] + n, tries |-> 0, sent |-> FALSE]]
    /\ UNCHANGED <<provider, log, shape, acked, late, pullVars, faults>>

\* The table takes all the rows of a batch, or none when it has one of them.
Inserted(p, lo, hi) ==
    /\ \A k \in lo..hi : ~InLog(Event(p, k))
    /\ Appended(p, lo, hi)

ElectricInsert(p) ==
    /\ provider = "electric" /\ push[p].on /\ ~push[p].sent
    /\ Inserted(p, push[p].at, push[p].to)
    /\ push' = [push EXCEPT ![p].sent = TRUE]
    /\ UNCHANGED <<provider, shape, acked, late, pullVars, faults>>

ElectricAcked(p) ==
    /\ provider = "electric" /\ push[p].on /\ push[p].sent
    /\ acked' = [acked EXCEPT ![p] = push[p].to]
    /\ push' = [push EXCEPT ![p] = Idle]
    /\ UNCHANGED <<provider, log, shape, late, pullVars, faults>>

\* The batch is refused, the request fails or its answer is lost: the push fails.
ElectricPushFails(p) ==
    /\ provider = "electric" /\ push[p].on
    /\ Fault
    /\ GaveUp(p)
    /\ push' = [push EXCEPT ![p] = Idle]
    /\ UNCHANGED <<provider, log, shape, acked, pullVars>>

ElectricLateInsert(p) ==
    /\ provider = "electric"
    /\ \E r \in late[p] :
          /\ Inserted(p, r[1], r[2])
          /\ late' = [late EXCEPT ![p] = @ \ {r}]
    /\ UNCHANGED <<provider, shape, acked, push, pullVars, faults>>

\* Electric drops the shape and builds it anew, under another handle.
ElectricRotates ==
    /\ provider = "electric" /\ shape < MaxShapes
    /\ shape' = shape + 1
    /\ UNCHANGED <<provider, log, pushVars, pullVars, faults>>
-----------------------------------------------------------------------------
Asking(c) == provider = "electric" /\ pull[c].on /\ ~inbox[c].full

\* The handle of the request names a shape that Electric still has.
KnownHandle(c) == pull[c].handle \in {0, shape}

\* 200 with rows: every event carries the offset where the page ends.
ElectricPage(c, hi) ==
    /\ Asking(c) /\ KnownHandle(c) /\ hi - pull[c].from \in 1..MaxPage
    /\ inbox' = [inbox EXCEPT ![c] = Item(Decoded(pull[c].from + 1, hi), hi, shape)]
    /\ pull' = [pull EXCEPT ![c].from = hi, ![c].pos = hi, ![c].handle = shape,
                            ![c].emitted = TRUE]
    /\ UNCHANGED <<provider, log, shape, pushVars, got, cursor, faults>>

\* An answer without events ends a pull that is not live and has emitted;
\* otherwise it is passed on, and the pull goes on at the cursor it names.
NoEvents(c, off, handle) ==
    /\ IF pull[c].live \/ ~pull[c].emitted
          THEN /\ inbox' = [inbox EXCEPT ![c] = Item({}, off, handle)]
               /\ pull' = [pull EXCEPT ![c].from = off, ![c].pos = off,
                                       ![c].handle = handle, ![c].emitted = TRUE]
          ELSE /\ pull' = [pull EXCEPT ![c] = Off]
               /\ UNCHANGED inbox
    /\ UNCHANGED <<provider, log, shape, pushVars, got, cursor, faults>>

\* 200 with control messages only, or 204 when the long poll is over.
ElectricUpToDate(c) ==
    /\ Asking(c) /\ KnownHandle(c) /\ pull[c].from = Len(log)
    /\ NoEvents(c, pull[c].from, shape)

\* 400: there is no table yet.  The cursor is dropped.  The code reads every 400
\* like this; the model takes Electric to send one for no other reason.
ElectricNoTable(c) ==
    /\ Asking(c) /\ log = <<>>
    /\ NoEvents(c, 0, 0)

\* 409: the handle is of a shape that is gone.  The pull dies, and with the
\* cursor the engine has stored so does every later one.
ElectricShapeGone(c) ==
    /\ Asking(c) /\ ~KnownHandle(c)
    /\ pull' = [pull EXCEPT ![c] = Off]
    /\ UNCHANGED <<provider, log, shape, pushVars, got, cursor, inbox, faults>>

\* 401, another status, a row that was updated or deleted, or no answer.
ElectricReadFails(c) ==
    /\ Asking(c)
    /\ Fault
    /\ pull' = [pull EXCEPT ![c] = Off]
    /\ UNCHANGED <<provider, log, shape, pushVars, got, cursor, inbox>>

ElectricNext ==
    \/ \E p \in Pushers :
          \/ \E n \in 1..MaxEvents : ElectricPush(p, n)
          \/ ElectricInsert(p) \/ ElectricAcked(p)
          \/ ElectricPushFails(p) \/ ElectricLateInsert(p)
    \/ ElectricRotates
    \/ \E c \in Pullers :
          \/ \E hi \in 1..Len(log) : ElectricPage(c, hi)
          \/ ElectricUpToDate(c) \/ ElectricNoTable(c)
          \/ ElectricShapeGone(c) \/ ElectricReadFails(c)
=============================================================================
