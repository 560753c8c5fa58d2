--------------------------- MODULE MCDocsAssistant ---------------------------
(* A small instance of DocsAssistant for TLC: a question reserves 2 of the  *)
(* 4 a month may cost, so two fit at once, and a third only after one of    *)
(* them has settled for less or was cancelled.                              *)
EXTENDS DocsAssistant, TLC

CONSTANTS s1, s2, u1, u2

\* Which slot, and which member, does not matter.
Symmetry == Permutations(Slots) \cup Permutations(Members)

MCMemberLimits == [running |-> 1, requests |-> 2, tokens |-> 24]
MCGlobalLimits == [running |-> 2, requests |-> 2, tokens |-> 34]
=============================================================================
