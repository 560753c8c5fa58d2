---------------------------- MODULE EventDelivery ----------------------------
(***************************************************************************)
(* What a LiveStore sync backend promises the clients of one store: the    *)
(* backend keeps one log that only grows, and what a client has stored of  *)
(* it is always everything up to some record - never an event whose        *)
(* predecessor is missing, never an event lost again.                      *)
(***************************************************************************)
EXTENDS Naturals, Sequences, SequencesExt

CONSTANTS
    Clients,     \* who pulls
    NoEvent      \* a record that carries no event

VARIABLES
    records,     \* the records of the store, in the backend's order
    stored       \* stored[c]: the records whose events client c has stored

abstractVars == <<records, stored>>

\* The records among the first n that carry an event.
EventsUpTo(n) == {i \in 1..n : records[i] # NoEvent}

Init ==
    /\ records = <<>>
    /\ stored = [c \in Clients |-> {}]

\* Writers, and the backend itself, add records behind the ones there are.
Grow ==
    /\ IsPrefix(records, records')
    /\ UNCHANGED stored

\* A client stores every event up to some record it has not gone past yet.
Deliver(c) ==
    \E n \in 0..Len(records) :
        /\ stored[c] \subseteq EventsUpTo(n)
        /\ stored' = [stored EXCEPT ![c] = EventsUpTo(n)]
        /\ UNCHANGED records

Next == Grow \/ \E c \in Clients : Deliver(c)

Spec == Init /\ [][Next]_abstractVars
=============================================================================
