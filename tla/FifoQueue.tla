----------------------------- MODULE FifoQueue -----------------------------
(***************************************************************************)
(* What the queue between the file-reading thread and the recognition      *)
(* thread promises, with no threads, lock or condition variable in sight:  *)
(* items leave in the order they entered, each at most once, and none is   *)
(* made up.  BlockingQueue implements this specification (see there);      *)
(* FramePipeline uses its Put and Take as the two queue operations it      *)
(* calls.                                                                  *)
(***************************************************************************)
EXTENDS Sequences

CONSTANT Items          \* the values that may be put in the queue

VARIABLES
    q,                  \* the items in the queue, oldest first
    taken               \* history: the items handed out, in that order

qvars == <<q, taken>>

Init ==
    /\ q = << >>
    /\ taken = << >>

Put(x) ==
    /\ q' = Append(q, x)
    /\ UNCHANGED taken

Take ==
    /\ q # << >>
    /\ q' = Tail(q)
    /\ taken' = Append(taken, Head(q))

Discard ==
    /\ q' = << >>
    /\ UNCHANGED taken

Next == (\E x \in Items : Put(x)) \/ Take \/ Discard

Spec == Init /\ [][Next]_qvars
=============================================================================
