---------------------------- MODULE ThreadPermits ----------------------------
(***************************************************************************)
(* What the Discord bot promises about the threads it creates, whatever    *)
(* the process, its journal and Discord do in between: a request for a     *)
(* thread needs a permit; a message is given another one only when the     *)
(* previous is concluded and a retention period old; a permit is concluded *)
(* once and spent once, so that a request that was answered is never       *)
(* repeated; and nobody is told of a thread that does not exist.           *)
(***************************************************************************)
EXTENDS Naturals

CONSTANTS
    Messages,    \* source messages a thread may be requested for
    Numbers,     \* the numbers 1, 2, ... of the permits of a message
    Retention    \* how far apart two permits of one message are

VARIABLES
    now,
    given,       \* given[m]: how many permits m was given
    permit,      \* permit[m][n]: when it was given, and its request
    open,        \* open[m]: the number of m's permit not yet concluded, or 0
    thread,      \* thread[m]: m has a thread
    told         \* the messages somebody was told have one

abstractVars == <<now, given, permit, open, thread, told>>

Init ==
    /\ now = 0
    /\ given = [m \in Messages |-> 0]
    /\ permit = [m \in Messages |-> [n \in Numbers |-> [claimedAt |-> 0, request |-> "unsent"]]]
    /\ open = [m \in Messages |-> 0]
    /\ thread = [m \in Messages |-> FALSE]
    /\ told = {}

Wait ==
    /\ now' > now
    /\ UNCHANGED <<given, permit, open, thread, told>>

Give(m) ==
    /\ given[m] + 1 \in Numbers /\ open[m] = 0
    /\ \A n \in 1..given[m] : permit[m][n].claimedAt + Retention <= now
    /\ given' = [given EXCEPT ![m] = @ + 1]
    /\ permit' = [permit EXCEPT ![m][given'[m]].claimedAt = now]
    /\ open' = [open EXCEPT ![m] = given'[m]]
    /\ UNCHANGED <<now, thread, told>>

\* A permit allows one request, also after it was concluded; the request is
\* answered once.
Requested(m, n, from, to) ==
    /\ n <= given[m] /\ permit[m][n].request = from
    /\ permit' = [permit EXCEPT ![m][n].request = to]
    /\ UNCHANGED <<now, given, open, told>>

Ask(m, n) == Requested(m, n, "unsent", "inflight") /\ UNCHANGED thread

Refuse(m, n) == Requested(m, n, "inflight", "rejected") /\ UNCHANGED thread

Accept(m, n) ==
    /\ Requested(m, n, "inflight", "accepted")
    /\ ~thread[m] /\ thread' = [thread EXCEPT ![m] = TRUE]

\* Somebody else starts a thread.
Appear(m) ==
    /\ ~thread[m] /\ thread' = [thread EXCEPT ![m] = TRUE]
    /\ UNCHANGED <<now, given, permit, open, told>>

\* Concluding a permit may tell of its thread, and others may be told later.
Tell(m) == thread[m] /\ told' = told \cup {m}

Conclude(m) ==
    /\ open[m] # 0 /\ open' = [open EXCEPT ![m] = 0]
    /\ Tell(m) \/ UNCHANGED told
    /\ UNCHANGED <<now, given, permit, thread>>

TellOnly(m) == Tell(m) /\ UNCHANGED <<now, given, permit, open, thread>>

Next ==
    \/ Wait
    \/ \E m \in Messages :
          \/ Give(m) \/ Appear(m) \/ Conclude(m) \/ TellOnly(m)
          \/ \E n \in Numbers : Ask(m, n) \/ Accept(m, n) \/ Refuse(m, n)

Spec == Init /\ [][Next]_abstractVars
=============================================================================
