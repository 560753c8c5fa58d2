-------------------------- MODULE MCThreadActions --------------------------
(* Small instances of ThreadActions for TLC. *)
EXTENDS ThreadActions

NobodyOperates == \A r \in Operators : run[r].pc = "idle"
NobodyAdministers == \A w \in AdminWorkers : worker[w].pc = "idle"

\* A state constraint.  The Durable Object is checked without operator runs;
\* the Node process with one claim per message and, at any one time, either
\* operator runs or administrative requests.
Sizes ==
    \/ host = "cloudflare" /\ NobodyOperates
    \/ /\ host = "node" /\ \A m \in Messages : issued[m] <= 1
       /\ NobodyOperates \/ NobodyAdministers
=============================================================================
