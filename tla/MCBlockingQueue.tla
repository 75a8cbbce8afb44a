-------------------------- MODULE MCBlockingQueue --------------------------
(* Instance of BlockingQueue for TLC: one thread that only pushes, two that *)
(* only pop, r, which like the receiver thread of type4_main.cpp pushes and *)
(* pops, one that peeks and one that polls and clears.                     *)
EXTENDS BlockingQueue

CONSTANTS p, c1, c2, r, k, m     \* threads

MCPushers == {p, r}
MCPoppers == {c1, c2, r}
MCPeekers == {k}
MCPollers == {m}
=============================================================================
