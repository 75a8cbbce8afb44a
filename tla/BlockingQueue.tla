--------------------------- MODULE BlockingQueue ---------------------------
(***************************************************************************)
(* include/BlockingQueue.h: the unbounded queue shared by threads, guarded *)
(* by one std::mutex and one std::condition_variable.                      *)
(*                                                                         *)
(* Every member function holds the mutex from its first line to its return *)
(* or to condvar_.wait, so each such stretch is one atomic step here.      *)
(* wait releases the mutex and joins the wait set in that same step; a     *)
(* thread that was notified, or woken spuriously, takes the mutex again    *)
(* and tests Q_.empty() again in a step of its own, and any other thread   *)
(* may take the mutex first.                                               *)
(*                                                                         *)
(* A thread may have several roles: in type4_main.cpp the receiver thread  *)
(* both pushes and pops.  size(), try_peek() and a try_pop() of an empty   *)
(* queue change nothing and have no action.                                *)
(***************************************************************************)
EXTENDS Naturals, Sequences, FiniteSets

CONSTANTS
    Pushers,            \* threads that call push
    Poppers,            \* threads that call pop
    Peekers,            \* threads that call peek
    Pollers,            \* threads that call try_pop and clear
    PushLimit           \* bound of the model: pushes per pusher

Threads == Pushers \cup Poppers \cup Peekers \cup Pollers

ASSUME ThreadsAssumption == IsFiniteSet(Threads)
ASSUME PushLimitAssumption == PushLimit \in Nat

VARIABLES
    Q,                  \* Q_, oldest item first
    waiting,            \* threads asleep in condvar_.wait
    call,               \* the blocking call a thread is inside of
    sent,               \* pushes made by each pusher, numbers the items
    taken,              \* history: items returned by pop and try_pop
    absorbed            \* history: a peek() that was woken has returned

vars == <<Q, waiting, call, sent, taken, absorbed>>

\* The n-th item a pusher pushes: unique, so that the model tells items apart.
Items == Pushers \X (1 .. PushLimit)

TypeOK ==
    /\ Q \in Seq(Items)
    /\ waiting \subseteq Threads
    /\ call \in [Threads -> {"none", "pop", "peek"}]
    /\ \A t \in waiting : call[t] # "none"
    /\ \A t \in Threads : /\ call[t] = "pop" => t \in Poppers
                          /\ call[t] = "peek" => t \in Peekers
    /\ sent \in [Pushers -> 0 .. PushLimit]
    /\ taken \in Seq(Items)
    /\ absorbed \in BOOLEAN

Init ==
    /\ Q = << >>
    /\ waiting = {}
    /\ call = [t \in Threads |-> "none"]
    /\ sent = [p \in Pushers |-> 0]
    /\ taken = << >>
    /\ absorbed = FALSE

-----------------------------------------------------------------------------
\* The operators named Faulty... are slips the properties below must catch;
\* no action uses them.

FaultyNotifyOnlyWhenEmpty ==
    IF waiting = {} \/ Q # << >>
        THEN UNCHANGED waiting
        ELSE \E t \in waiting : waiting' = waiting \ {t}

\* condvar_.notify_one(): wakes one thread of the wait set, whichever call it
\* is in; lost when nobody waits.
NotifyOne ==
    IF waiting = {} THEN UNCHANGED waiting
                    ELSE \E t \in waiting : waiting' = waiting \ {t}

FaultyPushWithoutNotify(p) ==
    /\ call[p] = "none"
    /\ sent[p] < PushLimit
    /\ Q' = Append(Q, <<p, sent[p] + 1>>)
    /\ sent' = [sent EXCEPT ![p] = @ + 1]
    /\ UNCHANGED <<waiting, call, taken, absorbed>>

\* push(const T &) and push(const T &&) have the same body.
Push(p) ==
    /\ call[p] = "none"
    /\ sent[p] < PushLimit
    /\ Q' = Append(Q, <<p, sent[p] + 1>>)
    /\ sent' = [sent EXCEPT ![p] = @ + 1]
    /\ NotifyOne
    /\ UNCHANGED <<call, taken, absorbed>>

\* A thread holding the mutex at the head of the while loop of pop or peek:
\* it has just called, or it was inside the call and has been woken.
AtLoopHead(t, op) == call[t] \in {"none", op} /\ t \notin waiting

FaultyWaitOutsideCall(t, op) ==
    /\ AtLoopHead(t, op)
    /\ Q = << >>
    /\ waiting' = waiting \cup {t}
    /\ UNCHANGED <<Q, call, sent, taken, absorbed>>

\* The loop finds the queue empty: condvar_.wait(lock).
Wait(t, op) ==
    /\ AtLoopHead(t, op)
    /\ Q = << >>
    /\ call' = [call EXCEPT ![t] = op]
    /\ waiting' = waiting \cup {t}
    /\ UNCHANGED <<Q, sent, taken, absorbed>>

FaultyPopCopiesBack(t) ==
    /\ AtLoopHead(t, "pop")
    /\ Q # << >>
    /\ Q' = Tail(Q)
    /\ taken' = Append(taken, Q[Len(Q)])
    /\ call' = [call EXCEPT ![t] = "none"]
    /\ UNCHANGED <<waiting, sent, absorbed>>

\* The loop ends: Q_.front() is copied, removed and returned.
PopItem(t) ==
    /\ AtLoopHead(t, "pop")
    /\ Q # << >>
    /\ Q' = Tail(Q)
    /\ taken' = Append(taken, Head(Q))
    /\ call' = [call EXCEPT ![t] = "none"]
    /\ UNCHANGED <<waiting, sent, absorbed>>

Pop(t) == Wait(t, "pop") \/ PopItem(t)

\* peek() returns a copy of Q_.front() and leaves it there; it does not pass
\* the notification it consumed on to another waiter.
PeekItem(t) ==
    /\ AtLoopHead(t, "peek")
    /\ Q # << >>
    /\ call' = [call EXCEPT ![t] = "none"]
    /\ absorbed' = (absorbed \/ call[t] = "peek")
    /\ UNCHANGED <<Q, waiting, sent, taken>>

Peek(t) == Wait(t, "peek") \/ PeekItem(t)

TryPop(t) ==
    /\ call[t] = "none"
    /\ Q # << >>
    /\ Q' = Tail(Q)
    /\ taken' = Append(taken, Head(Q))
    /\ UNCHANGED <<waiting, call, sent, absorbed>>

Clear(t) ==
    /\ call[t] = "none"
    /\ Q' = << >>
    /\ UNCHANGED <<waiting, call, sent, taken, absorbed>>

\* condition_variable::wait may return although nobody called notify_one.
SpuriousWakeup(t) ==
    /\ t \in waiting
    /\ waiting' = waiting \ {t}
    /\ UNCHANGED <<Q, call, sent, taken, absorbed>>

Next ==
    \/ \E p \in Pushers : Push(p)
    \/ \E t \in Poppers : Pop(t)
    \/ \E t \in Peekers : Peek(t)
    \/ \E t \in Pollers : TryPop(t) \/ Clear(t)
    \/ \E t \in Threads : SpuriousWakeup(t)

Spec == Init /\ [][Next]_vars

\* The scheduler lets a thread that is inside a call and not asleep run, and a
\* thread that only pops calls pop forever, like the loop of main().  Nothing is
\* assumed of pushers, of when any other thread makes a call, or of spurious
\* wakeups.
FairSpec ==
    /\ Spec
    /\ \A t \in Poppers : WF_vars(call[t] = "pop" /\ Pop(t))
    /\ \A t \in Peekers : WF_vars(call[t] = "peek" /\ Peek(t))
    /\ \A t \in Poppers \ Pushers : WF_vars(Pop(t))

-----------------------------------------------------------------------------
Woken == {t \in Threads : t \notin waiting /\ call[t] # "none"}

(***************************************************************************)
(* No lost wakeup.  As long as some thread sleeps, every item in the queue *)
(* has a thread of its own that is already on its way to it: notify_one    *)
(* after each push is enough, although it wakes one thread only, although  *)
(* a thread that has just arrived may take the item before the woken one   *)
(* does, and although clear() may empty the queue under the woken one.     *)
(* This lasts until a woken peek() returns: it takes no item and wakes     *)
(* nobody, so that an item can then lie beside a sleeping consumer.        *)
(***************************************************************************)
NoLostWakeup ==
    ~absorbed /\ waiting # {} => Len(Q) <= Cardinality(Woken)

(***************************************************************************)
(* No producer is reordered.  What consumers have been handed, followed by *)
(* what the queue still holds, has the items of each pusher in the order   *)
(* in which it pushed them and each at most once, however the pushers      *)
(* interleave, whoever takes the items and whenever clear() comes between. *)
(***************************************************************************)
Entered == taken \o Q
PushOrder ==
    \A i, j \in DOMAIN Entered :
        i < j /\ Entered[i][1] = Entered[j][1] => Entered[i][2] < Entered[j][2]

(***************************************************************************)
(* The queue with its lock, waiting threads, spurious wakeups and stolen   *)
(* items implements the plain queue: first in first out, every item handed *)
(* out at most once, peek and a blocked call without effect.               *)
(***************************************************************************)
Fifo == INSTANCE FifoQueue WITH q <- Q
ImplementsFifo == Fifo!Spec

(***************************************************************************)
(* Every item pushed leaves the queue again: a push wakes a sleeping       *)
(* consumer even when its notification is consumed by a thread that finds  *)
(* the queue empty again.  Again a woken peek() may spoil it.              *)
(***************************************************************************)
InQueue(x) == \E i \in DOMAIN Q : Q[i] = x
EveryItemLeaves ==
    \A x \in Items : InQueue(x) ~> ~InQueue(x) \/ absorbed
=============================================================================
