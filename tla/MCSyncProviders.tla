--------------------------- MODULE MCSyncProviders ---------------------------
(* Small instances of SyncProviders for TLC. *)
EXTENDS SyncProviders

\* The third event fills an append: chunks split by number and by size.
MCWeight == <<2, 1, 4>>
=============================================================================
