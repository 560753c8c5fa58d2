---------------------------- MODULE MCDocsRender ----------------------------
(* A small instance of DocsRender for TLC: blank, short, full and too long *)
(* lines, and a short and a long opening of a fence.                       *)
EXTENDS DocsRender

MCLines ==
    {[len |-> n, fence |-> FALSE] : n \in {0, 2, 6, 10, 11}}
        \cup {[len |-> n, fence |-> TRUE] : n \in {3, 5}}
=============================================================================
