------------------------ MODULE BlockingQueueProofs ------------------------
(* Proofs about BlockingQueue, for every set of threads and every bound.   *)
EXTENDS BlockingQueue, FiniteSetTheorems, SequenceTheorems, TLAPS

(***************************************************************************)
(* Type correctness: Q_ only ever holds pushed items, and a thread in the  *)
(* wait set of the condition variable is inside pop or peek.               *)
(***************************************************************************)
THEOREM TypeCorrect == Spec => []TypeOK
<1>1. Init => TypeOK
  <2> SUFFICES ASSUME Init PROVE TypeOK
    OBVIOUS
  <2>1. absorbed \in BOOLEAN
    BY Zenon DEF Init
  <2>2. /\ Q = << >> /\ taken = << >> /\ waiting = {}
        /\ call = [t \in Threads |-> "none"]
        /\ sent = [p \in Pushers |-> 0]
    BY DEF Init
  <2>3. QED
    BY <2>1, <2>2, PushLimitAssumption, EmptySeq DEF TypeOK
<1>2. TypeOK /\ [Next]_vars => TypeOK'
  <2> SUFFICES ASSUME TypeOK, [Next]_vars PROVE TypeOK'
    OBVIOUS
  <2> USE DEF TypeOK
  <2>1. ASSUME NEW p \in Pushers, Push(p) PROVE TypeOK'
    <3>1. p \in Threads /\ <<p, sent[p] + 1>> \in Items
      BY <2>1, PushLimitAssumption DEF Push, Items, Threads
    <3>2. Q' \in Seq(Items)
      BY <2>1, <3>1, AppendProperties DEF Push
    <3>3. /\ waiting' \subseteq waiting
          /\ UNCHANGED <<call, taken, absorbed>>
      BY <2>1 DEF Push, NotifyOne
    <3>4. sent' \in [Pushers -> 0 .. PushLimit]
      BY <2>1, PushLimitAssumption DEF Push
    <3>5. QED
      BY <3>2, <3>3, <3>4
  <2>2. ASSUME NEW t \in Threads, NEW op \in {"pop", "peek"}, Wait(t, op),
               IF op = "pop" THEN t \in Poppers ELSE t \in Peekers
        PROVE  TypeOK'
    BY <2>2 DEF Wait, AtLoopHead
  <2>3. ASSUME NEW t \in Threads, PopItem(t) PROVE TypeOK'
    <3>1. Q' \in Seq(Items) /\ taken' \in Seq(Items)
      BY <2>3, HeadTailProperties, AppendProperties DEF PopItem
    <3>2. QED
      BY <2>3, <3>1 DEF PopItem, AtLoopHead
  <2>4. ASSUME NEW t \in Threads, PeekItem(t) PROVE TypeOK'
    BY <2>4 DEF PeekItem, AtLoopHead
  <2>5. ASSUME NEW t \in Threads, TryPop(t) PROVE TypeOK'
    <3>1. Q' \in Seq(Items) /\ taken' \in Seq(Items)
      BY <2>5, HeadTailProperties, AppendProperties DEF TryPop
    <3>2. QED
      BY <2>5, <3>1 DEF TryPop
  <2>6. ASSUME NEW t \in Threads, Clear(t) PROVE TypeOK'
    BY <2>6, EmptySeq DEF Clear
  <2>7. ASSUME NEW t \in Threads, SpuriousWakeup(t) PROVE TypeOK'
    BY <2>7 DEF SpuriousWakeup
  <2>8. ASSUME UNCHANGED vars PROVE TypeOK'
    BY <2>8 DEF vars
  <2> QED
    BY <2>1, <2>2, <2>3, <2>4, <2>5, <2>6, <2>7, <2>8
       DEF Next, Pop, Peek, Threads
<1>3. QED
  BY <1>1, <1>2, PTL DEF Spec

-----------------------------------------------------------------------------
(***************************************************************************)
(* notify_one of push is enough: while a thread sleeps, each queued item   *)
(* has a woken thread coming to it, until a woken peek() returns.  The     *)
(* property is inductive on top of the types: a push wakes one sleeper for *)
(* the item it adds, a thread that stops being woken takes an item, and a  *)
(* thread falls asleep only when the queue is empty.                       *)
(***************************************************************************)
THEOREM WakeupsSuffice == Spec => []NoLostWakeup
<1>1. Init => NoLostWakeup
  BY DEF Init, NoLostWakeup
<1>2. TypeOK /\ NoLostWakeup /\ [Next]_vars => NoLostWakeup'
  <2> SUFFICES ASSUME TypeOK, NoLostWakeup, [Next]_vars,
                      ~absorbed', waiting' # {}
               PROVE  Len(Q') <= Cardinality(Woken')
    BY DEF NoLostWakeup
  <2> USE DEF TypeOK
  <2>0. /\ IsFiniteSet(Woken) /\ Cardinality(Woken) \in Nat
        /\ IsFiniteSet(Woken') /\ Cardinality(Woken') \in Nat
    <3>1. Woken \subseteq Threads /\ Woken' \subseteq Threads
      BY DEF Woken
    <3>2. QED
      BY <3>1, ThreadsAssumption, FS_Subset, FS_CardinalityType
  <2>1. ASSUME NEW p \in Pushers, Push(p)
        PROVE  Len(Q') <= Cardinality(Woken')
    <3>1. p \in Threads /\ <<p, sent[p] + 1>> \in Items
      BY <2>1, PushLimitAssumption DEF Push, Items, Threads
    <3>2. Len(Q) \in Nat /\ Len(Q') = Len(Q) + 1
      BY <2>1, <3>1, AppendProperties, LenProperties DEF Push
    <3>3. waiting # {} /\ call' = call /\ ~absorbed
      BY <2>1 DEF Push, NotifyOne
    <3>4. PICK t \in waiting : waiting' = waiting \ {t}
      BY <2>1, <3>3 DEF Push, NotifyOne
    <3>5. t \notin Woken /\ Woken' = Woken \cup {t}
      BY <3>3, <3>4 DEF Woken
    <3>6. Cardinality(Woken') = Cardinality(Woken) + 1
      BY <3>5, <2>0, FS_AddElement
    <3>7. QED
      BY <3>2, <3>3, <3>6, <2>0 DEF NoLostWakeup
  <2>2. ASSUME NEW t, NEW op, Wait(t, op)
        PROVE  Len(Q') <= Cardinality(Woken')
    <3>1. Q' = << >>
      BY <2>2 DEF Wait
    <3>2. QED
      BY <3>1, <2>0, EmptySeq
  <2>3. ASSUME NEW t \in Poppers, PopItem(t)
        PROVE  Len(Q') <= Cardinality(Woken')
    <3>1. Len(Q) \in Nat /\ Len(Q') = Len(Q) - 1
      BY <2>3, HeadTailProperties, LenProperties DEF PopItem
    <3>2. ~absorbed /\ waiting # {} /\ Woken' = Woken \ {t}
      BY <2>3 DEF PopItem, AtLoopHead, Woken
    <3>3. Cardinality(Woken \ {t}) =
            IF t \in Woken THEN Cardinality(Woken) - 1 ELSE Cardinality(Woken)
      BY <2>0, FS_RemoveElement
    <3>4. QED
      BY <3>1, <3>2, <3>3, <2>0 DEF NoLostWakeup
  <2>4. ASSUME NEW t \in Pollers, TryPop(t)
        PROVE  Len(Q') <= Cardinality(Woken')
    <3>1. Len(Q) \in Nat /\ Len(Q') = Len(Q) - 1
      BY <2>4, HeadTailProperties, LenProperties DEF TryPop
    <3>2. ~absorbed /\ waiting # {} /\ Woken' = Woken
      BY <2>4 DEF TryPop, Woken
    <3>3. QED
      BY <3>1, <3>2, <2>0 DEF NoLostWakeup
  <2>5. ASSUME NEW t \in Pollers, Clear(t)
        PROVE  Len(Q') <= Cardinality(Woken')
    <3>1. Q' = << >>
      BY <2>5 DEF Clear
    <3>2. QED
      BY <3>1, <2>0, EmptySeq
  <2>6. ASSUME NEW t \in Threads, SpuriousWakeup(t)
        PROVE  Len(Q') <= Cardinality(Woken')
    <3>1. ~absorbed /\ waiting # {} /\ Q' = Q
      BY <2>6, Zenon DEF SpuriousWakeup
    <3>2. Woken' = Woken \cup {t}
      BY <2>6 DEF SpuriousWakeup, Woken
    <3>3. Cardinality(Woken') >= Cardinality(Woken)
      <4>1. Cardinality(Woken \cup {t}) =
              IF t \in Woken THEN Cardinality(Woken) ELSE Cardinality(Woken) + 1
        BY <2>0, FS_AddElement
      <4>2. QED
        BY <4>1, <3>2, <2>0
    <3>4. Len(Q) <= Cardinality(Woken) /\ Len(Q) \in Nat
      BY <3>1, LenProperties DEF NoLostWakeup
    <3>5. QED
      BY <3>1, <3>3, <3>4, <2>0
  <2>7. ASSUME NEW t \in Peekers, PeekItem(t)
        PROVE  Len(Q') <= Cardinality(Woken')
    <3>1. ~absorbed /\ call[t] # "peek"
      BY <2>7, Zenon DEF PeekItem
    <3>2. call[t] = "none" /\ t \in Threads
      BY <2>7, <3>1 DEF PeekItem, AtLoopHead, Threads
    <3>3. call' = call
      BY <2>7, <3>2 DEF PeekItem
    <3>4. ~absorbed /\ waiting # {} /\ Q' = Q /\ Woken' = Woken
      BY <2>7, <3>1, <3>3 DEF PeekItem, Woken
    <3>5. QED
      BY <3>4 DEF NoLostWakeup
  <2>8. CASE UNCHANGED vars
    <3>1. ~absorbed /\ waiting # {} /\ Q' = Q /\ Woken' = Woken
      BY <2>8 DEF vars, Woken
    <3>2. QED
      BY <3>1 DEF NoLostWakeup
  <2>9. QED
    BY <2>1, <2>2, <2>3, <2>4, <2>5, <2>6, <2>7, <2>8 DEF Next, Pop, Peek
<1>3. QED
  BY <1>1, <1>2, TypeCorrect, PTL DEF Spec

-----------------------------------------------------------------------------
(* The order of each pusher's items.                                       *)

\* No item was entered before it was pushed.
Numbered ==
    \A i \in 1 .. Len(Entered) : Entered[i][2] <= sent[Entered[i][1]]
Ascending ==
    \A i, j \in 1 .. Len(Entered) :
        i < j /\ Entered[i][1] = Entered[j][1] => Entered[i][2] < Entered[j][2]
OrderInv == Numbered /\ Ascending

LEMMA EnteredType ==
    ASSUME TypeOK
    PROVE  /\ Entered \in Seq(Items) /\ Len(Entered) \in Nat
           /\ DOMAIN Entered = 1 .. Len(Entered)
           /\ \A i \in 1 .. Len(Entered) :
                 /\ Entered[i][1] \in Pushers /\ Entered[i][2] \in Nat
                 /\ sent[Entered[i][1]] \in Nat
<1>1. Entered \in Seq(Items)
  BY ConcatProperties DEF Entered, TypeOK
<1>2. \A x \in Items : x[1] \in Pushers /\ x[2] \in Nat /\ sent[x[1]] \in Nat
  BY PushLimitAssumption DEF Items, TypeOK
<1>3. Len(Entered) \in Nat /\ DOMAIN Entered = 1 .. Len(Entered)
  BY <1>1, LenProperties
<1>4. \A i \in 1 .. Len(Entered) : Entered[i] \in Items
  BY <1>1, ElementOfSeq
<1>5. QED
  BY <1>1, <1>2, <1>3, <1>4

\* An item that is taken goes from the head of Q to the end of taken.
LEMMA TakeKeepsEntered ==
    ASSUME TypeOK, Q # << >>, Q' = Tail(Q), taken' = Append(taken, Head(Q))
    PROVE  Entered' = Entered
<1>1. Q \in Seq(Items) /\ taken \in Seq(Items) /\ Head(Q) \in Items
  BY HeadTailProperties DEF TypeOK
<1>2. taken' = taken \o <<Head(Q)>> /\ <<Head(Q)>> \in Seq(Items)
  BY <1>1, AppendIsConcat
<1>3. <<Head(Q)>> \o Tail(Q) = Q
  <2>1. SubSeq(Q, 1, Len(Q)) = <<Q[1]>> \o SubSeq(Q, 2, Len(Q))
    BY <1>1, EmptySeq, LenProperties, SubSeqRecursiveFirst
  <2>2. SubSeq(Q, 1, Len(Q)) = Q /\ SubSeq(Q, 2, Len(Q)) = Tail(Q)
    BY <1>1, SubSeqFull, TailIsSubSeq
  <2>3. QED
    BY <1>1, <2>1, <2>2
<1>4. (taken \o <<Head(Q)>>) \o Tail(Q) = taken \o (<<Head(Q)>> \o Tail(Q))
  <2>1. Tail(Q) \in Seq(Items)
    BY <1>1, HeadTailProperties
  <2>2. QED
    BY <1>1, <1>2, <2>1, ConcatAssociative
<1>5. QED
  BY <1>2, <1>3, <1>4 DEF Entered

\* Items enter at the end, with the next number of their pusher.
LEMMA PushKeepsOrder ==
    ASSUME TypeOK, OrderInv, NEW p \in Pushers, Push(p) PROVE OrderInv'
<1> DEFINE x == <<p, sent[p] + 1>>
<1>1. x \in Items /\ sent[p] \in Nat
  BY PushLimitAssumption DEF Push, Items, TypeOK
<1>2. Entered' = Append(Entered, x)
  <2>1. /\ Q \in Seq(Items) /\ taken \in Seq(Items) /\ <<x>> \in Seq(Items)
        /\ Q' = Append(Q, x) /\ taken' = taken
    BY <1>1 DEF TypeOK, Push
  <2>2. Q' = Q \o <<x>> /\ Append(Entered, x) = Entered \o <<x>>
    BY <1>1, <2>1, EnteredType, AppendIsConcat
  <2>3. taken \o (Q \o <<x>>) = (taken \o Q) \o <<x>>
    BY <2>1, ConcatAssociative
  <2>4. QED
    BY <2>1, <2>2, <2>3 DEF Entered
<1>3. /\ Len(Entered') = Len(Entered) + 1 /\ Entered'[Len(Entered) + 1] = x
      /\ \A i \in 1 .. Len(Entered) : Entered'[i] = Entered[i]
  BY <1>1, <1>2, EnteredType, AppendProperties
<1>4. \A i \in 1 .. Len(Entered') : i \in 1 .. Len(Entered) \/ i = Len(Entered) + 1
  BY <1>3, EnteredType
<1>5. /\ \A r \in Pushers : sent[r] \in Nat /\ sent'[r] \in Nat /\ sent[r] <= sent'[r]
      /\ sent'[p] = sent[p] + 1
  BY <1>1 DEF Push, TypeOK
<1>6. x[1] = p /\ x[2] = sent[p] + 1
  OBVIOUS
<1> HIDE DEF x
<1>7. Numbered'
  <2> SUFFICES ASSUME NEW i \in 1 .. Len(Entered')
               PROVE  Entered'[i][2] <= sent'[Entered'[i][1]]
    BY DEF Numbered
  <2>1. CASE i \in 1 .. Len(Entered)
    <3>1. Entered'[i] = Entered[i] /\ Entered[i][2] <= sent[Entered[i][1]]
      BY <1>3, <2>1 DEF OrderInv, Numbered
    <3>2. QED
      BY <1>5, <2>1, <3>1, EnteredType
  <2>2. CASE i = Len(Entered) + 1
    BY <1>1, <1>3, <1>5, <1>6, <2>2
  <2>3. QED
    BY <1>4, <2>1, <2>2
<1>8. Ascending'
  <2> SUFFICES ASSUME NEW i \in 1 .. Len(Entered'), NEW j \in 1 .. Len(Entered'),
                      i < j, Entered'[i][1] = Entered'[j][1]
               PROVE  Entered'[i][2] < Entered'[j][2]
    BY DEF Ascending
  <2>1. i \in 1 .. Len(Entered)
    BY <1>3, EnteredType
  <2>2. CASE j \in 1 .. Len(Entered)
    BY <1>3, <2>1, <2>2 DEF OrderInv, Ascending
  <2>3. CASE j = Len(Entered) + 1
    <3>1. Entered'[i] = Entered[i] /\ Entered'[j] = x
      BY <1>3, <2>1, <2>3
    <3>2. Entered[i][2] <= sent[p] /\ Entered[i][2] \in Nat
      BY <1>6, <2>1, <3>1, EnteredType DEF OrderInv, Numbered
    <3>3. QED
      BY <1>1, <1>6, <3>1, <3>2
  <2>4. QED
    BY <1>4, <2>2, <2>3
<1>9. QED
  BY <1>7, <1>8 DEF OrderInv

(***************************************************************************)
(* The items of each pusher leave the queue in the order they were pushed, *)
(* for any number of pushing, popping, polling and clearing threads.       *)
(***************************************************************************)
THEOREM PushersKeepOrder == Spec => []PushOrder
<1>1. Init => OrderInv
  <2>1. Init => Entered = << >>
    BY DEF Init, Entered
  <2>2. QED
    BY <2>1 DEF OrderInv, Numbered, Ascending
<1>2. TypeOK /\ OrderInv /\ [Next]_vars => OrderInv'
  <2> SUFFICES ASSUME TypeOK, OrderInv, [Next]_vars PROVE OrderInv'
    OBVIOUS
  <2>1. ASSUME UNCHANGED <<Entered, sent>> PROVE OrderInv'
    BY <2>1 DEF OrderInv, Numbered, Ascending
  <2>2. ASSUME NEW t, PopItem(t) \/ TryPop(t) PROVE OrderInv'
    BY <2>1, <2>2, TakeKeepsEntered DEF PopItem, TryPop
  <2>3. ASSUME NEW t, Clear(t) PROVE OrderInv'
    <3>1. taken \in Seq(Items) /\ Q \in Seq(Items) /\ Entered' = taken
          /\ UNCHANGED sent
      BY <2>3, ConcatEmptySeq DEF Clear, Entered, TypeOK
    <3>2. /\ Len(Entered') <= Len(Entered) /\ Len(Entered') \in Nat
          /\ \A i \in 1 .. Len(Entered') : Entered'[i] = Entered[i]
      BY <3>1, ConcatProperties, LenProperties DEF Entered
    <3>3. \A i \in 1 .. Len(Entered') : i \in 1 .. Len(Entered)
      BY <3>2, EnteredType
    <3>4. QED
      BY <3>1, <3>2, <3>3 DEF OrderInv, Numbered, Ascending
  <2>4. ASSUME NEW t, NEW op, \/ Wait(t, op)
                             \/ PeekItem(t)
                             \/ SpuriousWakeup(t)
        PROVE  OrderInv'
    BY <2>1, <2>4 DEF Wait, PeekItem, SpuriousWakeup, Entered
  <2>5. CASE UNCHANGED vars
    BY <2>1, <2>5 DEF vars, Entered
  <2>6. QED
    BY <2>2, <2>3, <2>4, <2>5, PushKeepsOrder DEF Next, Pop, Peek
<1>3. TypeOK /\ OrderInv => PushOrder
  BY EnteredType DEF OrderInv, Ascending, PushOrder
<1>4. QED
  BY <1>1, <1>2, <1>3, TypeCorrect, PTL DEF Spec

-----------------------------------------------------------------------------
(***************************************************************************)
(* The class implements the plain FIFO queue: pushing is Put, returning    *)
(* from pop and a successful try_pop are Take, clear is Discard, and       *)
(* everything a waiting, woken or peeking thread does is invisible.        *)
(***************************************************************************)
THEOREM RefinesFifo == Spec => ImplementsFifo
<1>1. Init => Fifo!Init
  BY DEF Init, Fifo!Init
<1>2. TypeOK /\ [Next]_vars => [Fifo!Next]_(Fifo!qvars)
  <2> SUFFICES ASSUME TypeOK, [Next]_vars, ~UNCHANGED Fifo!qvars
               PROVE  Fifo!Next
    OBVIOUS
  \* Waiting, waking up and peeking leave Q and taken alone.
  <2>1. \/ \E p \in Pushers : Push(p)
        \/ \E t \in Threads : PopItem(t) \/ TryPop(t)
        \/ \E t \in Threads : Clear(t)
    BY DEF Next, Pop, Wait, Peek, PeekItem, SpuriousWakeup, Threads, vars,
       Fifo!qvars
  <2>2. ASSUME NEW p \in Pushers, Push(p)
        PROVE  \E x \in Items : Fifo!Put(x)
    <3>1. <<p, sent[p] + 1>> \in Items
      BY <2>2, PushLimitAssumption DEF Push, Items, TypeOK
    <3>2. Fifo!Put(<<p, sent[p] + 1>>)
      BY <2>2 DEF Push, Fifo!Put
    <3>3. QED
      BY <3>1, <3>2
  <2>3. ASSUME NEW t \in Threads, PopItem(t) \/ TryPop(t) PROVE Fifo!Take
    BY <2>3 DEF PopItem, TryPop, Fifo!Take
  <2>4. ASSUME NEW t \in Threads, Clear(t) PROVE Fifo!Discard
    BY <2>4 DEF Clear, Fifo!Discard
  <2> QED
    BY <2>1, <2>2, <2>3, <2>4 DEF Fifo!Next
<1>3. QED
  BY <1>1, <1>2, TypeCorrect, PTL DEF Spec, ImplementsFifo, Fifo!Spec
=============================================================================
