------------------------------ MODULE SyncClient ------------------------------
(***************************************************************************)
(* The state shared by the two sync providers (sync-s2 and sync-electric)  *)
(* of one store, and the LiveStore engine around them, which is external:  *)
(* it starts a pull from the cursor it has stored, stores the events of a  *)
(* pull item together with their cursor before it asks for the next item,  *)
(* pushes its events in order from the first one not acknowledged, and may *)
(* crash or drop a pull at any time.                                       *)
(*                                                                         *)
(* Pulling and pushing share nothing in the providers, so a client that    *)
(* does both is one puller and one pusher here.  The log of the backend    *)
(* numbers its records from 1 (S2 counts from 0); a cursor is the number   *)
(* of the last record seen, 0 when there is none.  An event is <<p, k>>,   *)
(* the k-th event that pusher p has to push.                               *)
(***************************************************************************)
EXTENDS Naturals, Sequences, SequencesExt, FiniteSetsExt

CONSTANTS
    Pushers, Pullers,
    NoBody,      \* a record without an event: S2's own command records
    Weight,      \* Weight[k]: the metered bytes of the k-th event of a pusher
    MaxRecords,  \* records that one append may carry
    MaxBytes,    \* metered bytes of a record, and of an append
    Retries,     \* how often the default schedule repeats a request
    MaxEvents,   \* bound on the events of a pusher
    MaxLog,      \* bound on the records of the log
    MaxPage,     \* bound on the records of one page
    MaxFaults,   \* bound on failed requests, dropped tails and crashes
    MaxShapes    \* bound on the shapes that Electric ever builds

ASSUME SyncAssumption ==
    /\ Weight \in [1..MaxEvents -> Nat]
    /\ MaxRecords \in Nat \ {0} /\ MaxBytes \in Nat /\ Retries \in Nat
    /\ MaxEvents \in Nat /\ MaxLog \in Nat /\ MaxPage \in Nat
    /\ MaxFaults \in Nat /\ MaxShapes \in Nat \ {0}
    /\ NoBody \notin Pushers \X Nat

VARIABLES
    provider,    \* "s2" or "electric": the backend of the store
    log,         \* the S2 stream, or the Postgres table in Electric's order
    shape,       \* the shape that Electric serves the table with
    acked,       \* acked[p]: how many events of p a push has acknowledged
    push,        \* the push that p is in
    late,        \* requests that p gave up and the backend may still process
    got,         \* got[c]: the records whose events the engine of c has stored
    cursor,      \* the cursor stored with them
    pull,        \* the pull that c is in
    inbox,       \* the pull item handed to the engine and not yet stored
    faults       \* how many faults there have been

pushVars == <<acked, push, late>>
pullVars == <<got, cursor, pull, inbox>>
vars == <<provider, log, shape, pushVars, pullVars, faults>>
-----------------------------------------------------------------------------
Event(p, k) == <<p, k>>
Events == Pushers \X (1..MaxEvents)

Batch(p, lo, hi) == [i \in 1..(hi + 1 - lo) |-> Event(p, lo + i - 1)]

\* The batch goes behind everything the log has by then.
Appended(p, lo, hi) ==
    /\ Len(log) + hi + 1 - lo <= MaxLog
    /\ log' = log \o Batch(p, lo, hi)

InLog(e) == \E i \in 1..Len(log) : log[i] = e

\* No push.  A push sends the events at..to of those up to hi in one request.
Idle == [on |-> FALSE, at |-> 1, to |-> 0, hi |-> 0, tries |-> 0, sent |-> FALSE]

\* No pull, and no item.
Off == [on |-> FALSE, live |-> FALSE, tail |-> FALSE, from |-> 0, pos |-> 0,
        last |-> 0, emitted |-> FALSE, tries |-> 0, handle |-> 0]
NoItem == [full |-> FALSE, events |-> {}, off |-> 0, handle |-> 0]

Item(events, off, handle) ==
    [full |-> TRUE, events |-> events, off |-> off, handle |-> handle]

\* The records from lo to hi that carry an event.
Decoded(lo, hi) == {i \in lo..hi : log[i] # NoBody}

FromStart == [off |-> 0, handle |-> 0]

Init ==
    /\ provider \in {"s2", "electric"}
    /\ log = <<>>
    /\ shape = 1
    /\ acked = [p \in Pushers |-> 0]
    /\ push = [p \in Pushers |-> Idle]
    /\ late = [p \in Pushers |-> {}]
    /\ got = [c \in Pullers |-> {}]
    /\ cursor = [c \in Pullers |-> FromStart]
    /\ pull = [c \in Pullers |-> Off]
    /\ inbox = [c \in Pullers |-> NoItem]
    /\ faults = 0

Fault ==
    /\ faults < MaxFaults
    /\ faults' = faults + 1
-----------------------------------------------------------------------------
\* The engine stores the item: its events and their cursor in one transaction.
\* The cursor is that of the newest event it has.
Store(c) ==
    /\ inbox[c].full
    /\ got' = [got EXCEPT ![c] = @ \cup inbox[c].events]
    /\ cursor' = IF inbox[c].events # {} /\ inbox[c].off > cursor[c].off
                    THEN [cursor EXCEPT ![c] = [off |-> inbox[c].off,
                                                handle |-> inbox[c].handle]]
                    ELSE cursor
    /\ inbox' = [inbox EXCEPT ![c] = NoItem]
    /\ UNCHANGED <<provider, log, shape, pushVars, pull, faults>>

\* The engine asks for the events behind its cursor, once or for as long as it lives.
StartPull(c, live) ==
    /\ ~pull[c].on /\ ~inbox[c].full
    /\ pull' = [pull EXCEPT ![c] =
                   [Off EXCEPT !.on = TRUE, !.live = live, !.from = cursor[c].off,
                               !.pos = cursor[c].off, !.handle = cursor[c].handle,
                               !.tries = Retries]]
    /\ UNCHANGED <<provider, log, shape, pushVars, got, cursor, inbox, faults>>

\* The client crashes, or drops the pull: an item it has not stored is gone.
Crash(c) ==
    /\ pull[c].on
    /\ Fault
    /\ pull' = [pull EXCEPT ![c] = Off]
    /\ inbox' = [inbox EXCEPT ![c] = NoItem]
    /\ UNCHANGED <<provider, log, shape, pushVars, got, cursor>>

\* What is left of a request whose answer does not come: it may have been
\* processed, it may still be on its way, or it may be lost.
GaveUp(p) ==
    late' = IF push[p].sent THEN late
                            ELSE [late EXCEPT ![p] = @ \cup {<<push[p].at, push[p].to>>}]
=============================================================================
