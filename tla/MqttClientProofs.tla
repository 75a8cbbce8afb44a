-------------------------- MODULE MqttClientProofs -------------------------
(***************************************************************************)
(* Proofs about MqttClient, for every size of the buffer, the headers and  *)
(* the messages, and for any number of them.                               *)
(*                                                                         *)
(* First, no message and no header ever overwrites another.  What carries  *)
(* it is that the messages ascend, which mqtt_mq_clean relies on when it   *)
(* moves them, and which Layout does not say of messages that are not      *)
(* neighbours.                                                             *)
(*                                                                         *)
(* Then, the broker gets whole messages, in the order of the calls, and no *)
(* answer of its own is unknown to the client.  What carries that is the   *)
(* shape of the queue as long as nothing is late (Flow): what was sent,    *)
(* then what was not, with send_offset in the first of those, and the      *)
(* answers that are still owed in the order of the messages that await     *)
(* them; and, always, that what was published and did not arrive is in the *)
(* queue still, in the order of the calls (Pending).                       *)
(***************************************************************************)
EXTENDS MqttClient, WellFoundedInduction, FiniteSetTheorems, TLAPS

Queue == [msgs : Seq(Message), curr : Nat]

Ascends(q) ==
    \A i \in DOMAIN q.msgs :
        /\ q.msgs[i].start + q.msgs[i].size <= q.curr
        /\ \A j \in DOMAIN q.msgs :
             i < j => q.msgs[i].start + q.msgs[i].size <= q.msgs[j].start

Sound(q) == q \in Queue /\ Fits(q) /\ Ascends(q) /\ (q.msgs = << >> => q.curr = 0)

IInv == Sound(mq) /\ offset \in Nat /\ accepted \in Nat

-----------------------------------------------------------------------------
\* A set of natural numbers that is not empty has a least member: the CHOOSE
\* in Clean and in FirstDue chooses one.
LEMMA LeastExists ==
  ASSUME NEW S, S \subseteq Nat, S # {}
  PROVE  \E x \in S : \A y \in S : x <= y
<1>1. PICK x \in S : \A y \in S : ~(<<y, x>> \in OpToRel(<, Nat))
      BY NatLessThanWellFounded, WFMin
<1>2. \A y \in S : y \in Nat /\ x \in Nat /\ ~(y < x)
      BY <1>1 DEF OpToRel
<1> QED BY <1>2

LEMMA ProductIsMonotonic ==
  ASSUME NEW h \in Nat, NEW a \in Nat, NEW b \in Nat, a <= b
  PROVE  h * a <= h * b /\ h * a \in Nat /\ h * b \in Nat
OBVIOUS

\* A message registered where there is room for it and its header fits.
LEMMA RegisterSound ==
  ASSUME NEW q, Sound(q), NEW kind \in Kinds, NEW id \in Nat,
         NEW size \in Nat \ {0}, size <= Room(q)
  PROVE  Sound(Register(q, kind, id, size))
<1> DEFINE r == Register(q, kind, id, size)
           n == Len(q.msgs)
<1>1. /\ q.msgs \in Seq(Message) /\ q.curr \in Nat /\ n \in Nat
      /\ \A i \in DOMAIN q.msgs : q.msgs[i] \in Message
      BY DEF Sound, Queue
<1>2. r.msgs \in Seq(Message) /\ r.curr = q.curr + size /\ r \in Queue
      BY <1>1 DEF Register, Queue, Message
<1>3. /\ Len(r.msgs) = n + 1
      /\ \A i \in 1 .. n : r.msgs[i] = q.msgs[i]
      /\ r.msgs[n + 1].start = q.curr /\ r.msgs[n + 1].size = size
      BY <1>1, <1>2 DEF Register
<1> HIDE DEF r
<1>4. r.curr + Header * Len(r.msgs) <= BufSize
  <2>1. Header * (n + 1) \in Nat  BY <1>1, SizeAssumption
  <2>2. size <= BufSize - Header * (n + 1) - q.curr  BY DEF Room
  <2> HIDE DEF n
  <2> QED BY <1>1, <1>2, <1>3, <2>1, <2>2, SizeAssumption
<1>0. DOMAIN q.msgs = 1 .. n /\ DOMAIN r.msgs = 1 .. n + 1
      BY <1>1, <1>2, <1>3
<1> HIDE DEF n
<1>5. \A i \in 1 .. n : /\ r.msgs[i].start \in Nat /\ r.msgs[i].size \in Nat
                        /\ q.msgs[i].start \in Nat /\ q.msgs[i].size \in Nat
      BY <1>0, <1>1, <1>3 DEF Message
<1>6. \A i \in 1 .. n :
        /\ q.msgs[i].start + q.msgs[i].size <= q.curr
        /\ \A j \in 1 .. n :
             i < j => q.msgs[i].start + q.msgs[i].size <= q.msgs[j].start
        /\ i = 1 => q.msgs[i].start = 0
        /\ q.msgs[i].start + q.msgs[i].size =
             IF i = n THEN q.curr ELSE q.msgs[i + 1].start
      BY <1>0 DEF Sound, Ascends, Fits, n
<1>7. n \in Nat /\ q.curr \in Nat /\ r.curr = q.curr + size
      BY <1>1, <1>2
<1>8. Ascends(r)
  <2>1. ASSUME NEW i \in 1 .. n
        PROVE  /\ r.msgs[i].start + r.msgs[i].size <= r.curr
               /\ r.msgs[i].start + r.msgs[i].size <= r.msgs[n + 1].start
               /\ \A j \in 1 .. n :
                    i < j => r.msgs[i].start + r.msgs[i].size <= r.msgs[j].start
    <3>1. /\ r.msgs[i] = q.msgs[i]
          /\ q.msgs[i].start \in Nat /\ q.msgs[i].size \in Nat
          BY <1>3, <1>5
    <3>2. q.msgs[i].start + q.msgs[i].size <= q.curr
          BY <1>6
    <3>3. \A j \in 1 .. n :
            i < j => q.msgs[i].start + q.msgs[i].size <= q.msgs[j].start
          BY <1>6
    <3>4. q.msgs[i].start + q.msgs[i].size <= r.curr
          BY <3>1, <3>2, <1>7
    <3>5. \A j \in 1 .. n : r.msgs[j] = q.msgs[j]
          BY <1>3
    <3> QED BY <3>1, <3>2, <3>3, <3>4, <3>5, <1>3
  <2>2. r.msgs[n + 1].start + r.msgs[n + 1].size <= r.curr
        BY <1>3, <1>7
  <2>3. \A i \in 1 .. n + 1 : i \in 1 .. n \/ i = n + 1
        BY <1>7
  <2>4. \A j \in 1 .. n + 1 : ~(n + 1 < j)
        BY <1>7
  <2> QED BY <2>1, <2>2, <2>3, <2>4, <1>0 DEF Ascends
<1>9. ASSUME NEW i \in 1 .. n + 1
      PROVE  /\ i = 1 => r.msgs[i].start = 0
             /\ r.msgs[i].start + r.msgs[i].size =
                  IF i = n + 1 THEN r.curr ELSE r.msgs[i + 1].start
  <2>1. CASE i = n + 1
    <3>1. n = 0 => q.curr = 0  BY <1>1 DEF Sound, n
    <3> QED BY <2>1, <3>1, <1>3, <1>7
  <2>2. CASE i # n + 1
    <3>1. i \in 1 .. n /\ i # n + 1  BY <2>2, <1>7
    <3>2. r.msgs[i] = q.msgs[i]       BY <3>1, <1>3
    <3>3. CASE i = n
          BY <3>1, <3>2, <3>3, <1>3, <1>6
    <3>4. CASE i # n
      <4>1. i + 1 \in 1 .. n             BY <3>1, <3>4, <1>7
      <4>2. r.msgs[i + 1] = q.msgs[i + 1]  BY <4>1, <1>3
      <4> QED BY <3>1, <3>2, <3>4, <4>2, <1>6
    <3> QED BY <3>3, <3>4
  <2> QED BY <2>1, <2>2
<1>10. r.msgs # << >>
       BY <1>3, <1>7
<1>11. Fits(r)
       BY <1>0, <1>3, <1>4, <1>9 DEF Fits
<1> QED BY <1>2, <1>8, <1>10, <1>11 DEF Sound, r

\* mqtt_mq_clean moves the messages it keeps to the start of the buffer.
LEMMA CleanSound ==
  ASSUME NEW q, Sound(q)
  PROVE  Sound(Clean(q))
<1> DEFINE Open == {i \in DOMAIN q.msgs : q.msgs[i].state # "complete"}
           head == CHOOSE i \in Open : \A j \in Open : i <= j
           gone == q.msgs[head].start
           n    == Len(q.msgs)
           m    == n - head + 1
           c    == Clean(q)
<1>1. /\ q.msgs \in Seq(Message) /\ q.curr \in Nat /\ n \in Nat
      /\ DOMAIN q.msgs = 1 .. n
      /\ q.curr + Header * n <= BufSize
      BY DEF Sound, Queue, Fits
<1>2. CASE Open = {}
  <2>1. c = [msgs |-> << >>, curr |-> 0]  BY <1>2 DEF Clean
  <2>2. c \in Queue /\ Len(c.msgs) = 0 /\ DOMAIN c.msgs = {}
        BY <2>1 DEF Queue
  <2>3. c.curr + Header * Len(c.msgs) <= BufSize
        BY <2>1, <2>2, SizeAssumption
  <2> QED BY <2>1, <2>2, <2>3 DEF Sound, Fits, Ascends
<1>3. CASE Open # {}
  <2>1. head \in 1 .. n
    <3>1. Open \subseteq Nat  BY <1>1
    <3>2. \E i \in Open : \A j \in Open : i <= j
          BY <1>3, <3>1, LeastExists
    <3>3. head \in Open  BY <3>2
    <3> QED BY <3>3, <1>1
  <2>2. /\ c.msgs = [i \in 1 .. m |-> [q.msgs[head + i - 1] EXCEPT !.start = @ - gone]]
        /\ c.curr = q.curr - gone
        /\ c = [msgs |-> c.msgs, curr |-> c.curr]
        BY <1>3 DEF Clean
  <2> HIDE DEF head, c
  <2>3. m \in 1 .. n /\ \A i \in 1 .. m : head + i - 1 \in head .. n /\ head + i - 1 \in 1 .. n
        BY <2>1, <1>1
  <2>4. \A i \in 1 .. n : /\ q.msgs[i] \in Message
                          /\ q.msgs[i].start \in Nat /\ q.msgs[i].size \in Nat
    <3>1. \A i \in 1 .. n : q.msgs[i] \in Message  BY <1>1
    <3> QED BY <3>1 DEF Message
  <2>5. \A i \in 1 .. n :
          /\ q.msgs[i].start + q.msgs[i].size <= q.curr
          /\ \A j \in 1 .. n :
               i < j => q.msgs[i].start + q.msgs[i].size <= q.msgs[j].start
          /\ q.msgs[i].start + q.msgs[i].size =
               IF i = n THEN q.curr ELSE q.msgs[i + 1].start
        BY <1>1 DEF Sound, Ascends, Fits
  <2>6. gone \in Nat /\ gone <= q.curr /\ \A i \in head .. n : gone <= q.msgs[i].start
    <3>1. gone \in Nat /\ q.msgs[head].size \in Nat  BY <2>1, <2>4
    <3>2. gone <= q.curr
          BY <2>1, <2>5, <3>1, <1>1
    <3>3. ASSUME NEW i \in head .. n PROVE gone <= q.msgs[i].start
      <4>1. i \in 1 .. n /\ (i = head \/ head < i)  BY <2>1, <1>1
      <4>2. CASE i = head  BY <4>2, <3>1
      <4>3. CASE head < i
            BY <4>1, <4>3, <2>1, <2>4, <2>5, <3>1
      <4> QED BY <4>1, <4>2, <4>3
    <3> QED BY <3>1, <3>2, <3>3
  <2> HIDE DEF gone
  <2>7. ASSUME NEW i \in 1 .. m
        PROVE  /\ c.msgs[i] \in Message
               /\ c.msgs[i].start = q.msgs[head + i - 1].start - gone
               /\ c.msgs[i].size = q.msgs[head + i - 1].size
    <3>1. /\ q.msgs[head + i - 1] \in Message
          /\ q.msgs[head + i - 1].start - gone \in Nat
          BY <2>3, <2>4, <2>6
    <3>2. c.msgs[i] = [q.msgs[head + i - 1] EXCEPT !.start = @ - gone]
          BY <2>2
    <3> QED BY <3>1, <3>2 DEF Message
  <2>8. /\ c.msgs \in Seq(Message) /\ Len(c.msgs) = m /\ DOMAIN c.msgs = 1 .. m
        /\ c \in Queue
    <3>1. c.msgs \in [1 .. m -> Message]  BY <2>2, <2>7
    <3>2. m \in Nat                       BY <2>3, <1>1
    <3>3. c.msgs \in Seq(Message) /\ Len(c.msgs) = m  BY <3>1, <3>2
    <3>4. c.curr \in Nat                  BY <2>2, <2>6, <1>1
    <3> QED BY <3>1, <3>3, <3>4, <2>2 DEF Queue
  <2>9. c.curr + Header * Len(c.msgs) <= BufSize
    <3>1. Header * m <= Header * n /\ Header * m \in Nat /\ Header * n \in Nat
          BY <2>3, <1>1, ProductIsMonotonic, SizeAssumption
    <3>2. c.curr <= q.curr /\ c.curr \in Int  BY <2>2, <2>6, <1>1
    <3>3. Len(c.msgs) = m                     BY <2>8
    <3> HIDE DEF m, n
    <3> QED BY <3>1, <3>2, <3>3, <1>1, SizeAssumption
  <2>10. ASSUME NEW i \in 1 .. m
         PROVE  /\ c.msgs[i].start + c.msgs[i].size <= c.curr
                /\ \A j \in 1 .. m :
                     i < j => c.msgs[i].start + c.msgs[i].size <= c.msgs[j].start
    <3>1. ASSUME NEW j \in 1 .. m, i < j
          PROVE  c.msgs[i].start + c.msgs[i].size <= c.msgs[j].start
      <4>1. head + i - 1 < head + j - 1  BY <3>1, <2>1
      <4>2. q.msgs[head + i - 1].start + q.msgs[head + i - 1].size
              <= q.msgs[head + j - 1].start
            BY <4>1, <2>3, <2>5
      <4>3. /\ c.msgs[i].start = q.msgs[head + i - 1].start - gone
            /\ c.msgs[i].size = q.msgs[head + i - 1].size
            /\ c.msgs[j].start = q.msgs[head + j - 1].start - gone
            BY <2>7
      <4>4. /\ q.msgs[head + i - 1].start \in Nat
            /\ q.msgs[head + i - 1].size \in Nat
            /\ q.msgs[head + j - 1].start \in Nat
            BY <2>3, <2>4
      <4>5. gone \in Nat  BY <2>6
      <4> DEFINE x == q.msgs[head + i - 1]
                 y == q.msgs[head + j - 1]
      <4>6. /\ x.start + x.size <= y.start
            /\ x.start \in Nat /\ x.size \in Nat /\ y.start \in Nat
            /\ c.msgs[i].start = x.start - gone /\ c.msgs[i].size = x.size
            /\ c.msgs[j].start = y.start - gone
            BY <4>2, <4>3, <4>4
      <4> HIDE DEF x, y
      <4> QED BY <4>5, <4>6
    <3>2. q.msgs[head + i - 1].start + q.msgs[head + i - 1].size <= q.curr
          BY <2>3, <2>5
    <3>3. c.msgs[i].start + c.msgs[i].size <= c.curr
          BY <3>2, <2>2, <2>3, <2>4, <2>6, <2>7, <1>1
    <3> QED BY <3>1, <3>3
  <2>11. ASSUME NEW i \in 1 .. m
         PROVE  /\ i = 1 => c.msgs[i].start = 0
                /\ c.msgs[i].start + c.msgs[i].size =
                     IF i = m THEN c.curr ELSE c.msgs[i + 1].start
    <3>1. i = 1 => c.msgs[i].start = 0
          BY <2>1, <2>4, <2>7 DEF gone
    <3>2. CASE i = m
      <4>1. head + i - 1 = n  BY <3>2, <2>1, <1>1
      <4>2. q.msgs[n].start + q.msgs[n].size = q.curr  BY <2>3, <2>5, <4>1
      <4>3. /\ c.msgs[i].start = q.msgs[n].start - gone
            /\ c.msgs[i].size = q.msgs[n].size
            BY <2>7, <4>1
      <4>4. n \in 1 .. n /\ q.msgs[n].start \in Nat /\ q.msgs[n].size \in Nat
            BY <2>1, <2>4, <1>1
      <4> QED BY <3>1, <3>2, <4>2, <4>3, <4>4, <2>2, <2>6, <1>1
    <3>3. CASE i # m
      <4>1. i + 1 \in 1 .. m /\ head + i - 1 # n /\ head + (i + 1) - 1 = (head + i - 1) + 1
            BY <3>3, <2>1, <2>3, <1>1
      <4>2. q.msgs[head + i - 1].start + q.msgs[head + i - 1].size
              = q.msgs[head + (i + 1) - 1].start
            BY <4>1, <2>3, <2>5
      <4>3. /\ c.msgs[i].start = q.msgs[head + i - 1].start - gone
            /\ c.msgs[i].size = q.msgs[head + i - 1].size
            /\ c.msgs[i + 1].start = q.msgs[head + (i + 1) - 1].start - gone
            BY <4>1, <2>7
      <4>4. /\ q.msgs[head + i - 1].start \in Nat
            /\ q.msgs[head + i - 1].size \in Nat
            BY <2>3, <2>4
      <4>5. gone \in Nat  BY <2>6
      <4> DEFINE x == q.msgs[head + i - 1]
                 y == q.msgs[head + (i + 1) - 1]
                 z == c.msgs[i + 1]
      <4>6. /\ x.start + x.size = y.start
            /\ x.start \in Nat /\ x.size \in Nat
            /\ c.msgs[i].start = x.start - gone /\ c.msgs[i].size = x.size
            /\ z.start = y.start - gone
            BY <4>2, <4>3, <4>4
      <4> HIDE DEF x, y, z
      <4>7. c.msgs[i].start + c.msgs[i].size = z.start
            BY <4>5, <4>6
      <4> QED BY <3>1, <3>3, <4>7 DEF z
    <3> QED BY <3>2, <3>3
  <2>12. c.msgs # << >>   BY <2>3, <2>8
  <2>13. Ascends(c)       BY <2>8, <2>10 DEF Ascends
  <2>14. Fits(c)          BY <2>8, <2>9, <2>11 DEF Fits
  <2> QED BY <2>8, <2>12, <2>13, <2>14 DEF Sound, c
<1> QED BY <1>2, <1>3

LEMMA TryPackSound ==
  ASSUME NEW q, Sound(q), NEW kind \in Kinds, NEW id \in Nat,
         NEW size \in Nat \ {0}, TryPack(q, kind, id, size)
  PROVE  Sound(mq')
<1>1. Sound(Clean(q))  BY CleanSound
<1>2. CASE size <= Room(q)
      BY <1>2, RegisterSound DEF TryPack
<1>3. CASE ~(size <= Room(q)) /\ size <= Room(Clean(q))
  <2>1. Sound(Register(Clean(q), kind, id, size))
        BY <1>1, <1>3, RegisterSound
  <2> QED BY <1>3, <2>1 DEF TryPack
<1>4. CASE ~(size <= Room(q)) /\ ~(size <= Room(Clean(q)))
      BY <1>1, <1>4 DEF TryPack
<1> QED BY <1>2, <1>3, <1>4

\* Whatever else changes in the messages, the queue stays sound as long as
\* they lie where they lay.
LEMMA SamePlacesSound ==
  ASSUME NEW q, Sound(q), NEW ms, ms \in [DOMAIN q.msgs -> Message],
         \A i \in DOMAIN q.msgs : /\ ms[i].start = q.msgs[i].start
                                  /\ ms[i].size = q.msgs[i].size
  PROVE  Sound([q EXCEPT !.msgs = ms])
<1> DEFINE r == [q EXCEPT !.msgs = ms]
<1>1. q.msgs \in Seq(Message) /\ q \in Queue
      BY DEF Sound, Queue
<1>2. /\ ms \in Seq(Message) /\ Len(ms) = Len(q.msgs)
      /\ DOMAIN ms = DOMAIN q.msgs /\ DOMAIN q.msgs = 1 .. Len(q.msgs)
      BY <1>1
<1>3. r.msgs = ms /\ r.curr = q.curr /\ r \in Queue
      BY <1>1, <1>2 DEF Queue
<1> HIDE DEF r
<1>4. ms = << >> => q.msgs = << >>  BY <1>1, <1>2
<1>5. Ascends(r)  BY <1>2, <1>3 DEF Sound, Ascends
<1>6. Fits(r)
  <2>1. \A i \in DOMAIN q.msgs : i # Len(q.msgs) => i + 1 \in DOMAIN q.msgs
        BY <1>1, <1>2
  <2> QED BY <1>2, <1>3, <2>1 DEF Sound, Fits
<1> QED BY <1>3, <1>4, <1>5, <1>6 DEF Sound, r

LEMMA SentBeforeSound ==
  ASSUME Sound(mq), NEW k, NEW out \in Nat
  PROVE  Sound(SentBefore(k, out))
<1> DEFINE ms == SentBefore(k, out).msgs
<1>1. \A i \in DOMAIN mq.msgs : mq.msgs[i] \in Message
      BY DEF Sound, Queue
<1>2. mq \in Queue  BY DEF Sound
<1>3. /\ DOMAIN ms = DOMAIN mq.msgs
      /\ \A i \in DOMAIN mq.msgs :
           ms[i] = IF i \in Due /\ i < k THEN Sent(mq.msgs[i])
                   ELSE IF i = k THEN [mq.msgs[i] EXCEPT !.out = out]
                   ELSE mq.msgs[i]
      /\ ms = [i \in DOMAIN mq.msgs |-> ms[i]]
      /\ SentBefore(k, out) = [mq EXCEPT !.msgs = ms]
      BY <1>2 DEF SentBefore, Queue
<1> HIDE DEF ms
<1>4. ASSUME NEW i \in DOMAIN mq.msgs
      PROVE  /\ ms[i] \in Message
             /\ ms[i].start = mq.msgs[i].start /\ ms[i].size = mq.msgs[i].size
  <2>1. mq.msgs[i] \in Message  BY <1>1
  <2>2. LET m == Sent(mq.msgs[i])
        IN  m \in Message /\ m.start = mq.msgs[i].start /\ m.size = mq.msgs[i].size
        BY <2>1 DEF Message, Sent
  <2>3. LET m == [mq.msgs[i] EXCEPT !.out = out]
        IN  m \in Message /\ m.start = mq.msgs[i].start /\ m.size = mq.msgs[i].size
        BY <2>1 DEF Message
  <2> QED BY <1>3, <2>1, <2>2, <2>3
<1>5. ms \in [DOMAIN mq.msgs -> Message]  BY <1>3, <1>4
<1> QED BY <1>3, <1>4, <1>5, SamePlacesSound

LEMMA SetStateSound ==
  ASSUME Sound(mq), NEW i \in DOMAIN mq.msgs, NEW state \in {"late", "complete"}
  PROVE  Sound([mq EXCEPT !.msgs[i].state = state])
<1> DEFINE ms == [mq.msgs EXCEPT ![i].state = state]
<1>1. \A j \in DOMAIN mq.msgs : mq.msgs[j] \in Message
      BY DEF Sound, Queue
<1>2. \A j \in DOMAIN mq.msgs : /\ ms[j] \in Message
                                /\ ms[j].start = mq.msgs[j].start
                                /\ ms[j].size = mq.msgs[j].size
      BY <1>1 DEF Message
<1>3. ms \in [DOMAIN mq.msgs -> Message]
      BY <1>1, <1>2 DEF Sound, Queue
<1>4. Sound([mq EXCEPT !.msgs = ms])
      BY <1>2, <1>3, SamePlacesSound
<1>5. [mq EXCEPT !.msgs = ms] = [mq EXCEPT !.msgs[i].state = state]
      OBVIOUS
<1> QED BY <1>4, <1>5

LEMMA KeepAliveSound ==
  ASSUME NEW q, Sound(q), KeepAlive(q)
  PROVE  Sound(mq')
<1>1. CASE mq' = q  BY <1>1
<1>2. CASE TryPack(q, "ping", 0, PingSize)
  <2>1. "ping" \in Kinds /\ 0 \in Nat /\ PingSize \in Nat \ {0}
        BY SizeAssumption DEF Kinds
  <2> QED BY <1>2, <2>1, TryPackSound
<1> QED BY <1>1, <1>2 DEF KeepAlive

-----------------------------------------------------------------------------
LEMMA InitIInv == Init => IInv
<1> SUFFICES ASSUME Init PROVE IInv
    OBVIOUS
<1> DEFINE empty == [msgs |-> << >>, curr |-> 0]
<1>1. Len(empty.msgs) = 0 /\ DOMAIN empty.msgs = {} /\ empty \in Queue
      BY DEF Queue
<1>2. Header * 0 = 0 /\ Header * 1 = Header  BY SizeAssumption
<1>3. Sound(empty)
      BY <1>1, <1>2, SizeAssumption DEF Sound, Fits, Ascends
<1>4. ConnectSize <= Room(empty)
  <2>1. Header * (Len(empty.msgs) + 1) = Header  BY <1>1, <1>2
  <2>2. Room(empty) = BufSize - Header           BY <2>1, SizeAssumption DEF Room
  <2> QED BY <2>2, SizeAssumption
<1>5. "connect" \in Kinds /\ 0 \in Nat /\ ConnectSize \in Nat \ {0}
      BY SizeAssumption DEF Kinds
<1>6. Sound(Register(empty, "connect", 0, ConnectSize))
      BY <1>3, <1>4, <1>5, RegisterSound
<1> QED BY <1>6 DEF Init, IInv

LEMMA NextIInv == IInv /\ [Next]_vars => IInv'
<1> SUFFICES ASSUME IInv, [Next]_vars PROVE IInv'
    OBVIOUS
<1>0. Sound(mq) /\ offset \in Nat /\ accepted \in Nat
      BY DEF IInv
<1>a. Start \in Nat  BY <1>0 DEF Start
<1>1. ASSUME NEW size \in PublishSizes, Publish(size) PROVE IInv'
  <2>1. /\ "publish" \in Kinds /\ accepted + 1 \in Nat /\ size \in Nat \ {0}
        /\ TryPack(mq, "publish", accepted + 1, size)
        BY <1>0, <1>1, SizeAssumption DEF Kinds, Publish
  <2>2. Sound(mq')  BY <1>0, <2>1, TryPackSound
  <2>3. offset' = offset /\ accepted' \in Nat  BY <1>0, <1>1 DEF Publish
  <2> QED BY <1>0, <2>2, <2>3 DEF IInv
<1>2. CASE SendAll
  <2>1. CASE Due = {}
        BY <1>0, <1>2, <2>1, KeepAliveSound DEF SendAll, IInv
  <2>2. CASE Due # {}
    <3>1. Sound(SentBefore(Len(mq.msgs) + 1, 0))  BY <1>0, SentBeforeSound
    <3> QED BY <1>0, <1>2, <2>2, <3>1 DEF SendAll, IInv
  <2> QED BY <2>1, <2>2
<1>3. CASE SendWrong
      BY <1>0, <1>3 DEF SendWrong, IInv
<1>4. ASSUME NEW k \in Due, SendPart(k) PROVE IInv'
  <2> DEFINE from == IF k = FirstDue THEN Start ELSE 0
  <2>1. mq \in Queue /\ mq.msgs[k] \in Message
        BY <1>0 DEF Sound, Queue, Due
  <2>2. mq.msgs[k].size \in Nat /\ from \in Nat  BY <2>1, <1>a DEF Message
  <2>3. PICK out \in from .. mq.msgs[k].size - 1 :
           /\ offset' = out
           /\ IF k = FirstDue
                THEN KeepAlive(SentBefore(k, out))
                ELSE mq' = SentBefore(k, out) /\ UNCHANGED error
        BY <1>4 DEF SendPart
  <2> HIDE DEF from
  <2>4. out \in Nat  BY <2>2
  <2>5. Sound(SentBefore(k, out))  BY <1>0, <2>4, SentBeforeSound
  <2>6. Sound(mq')  BY <2>3, <2>5, KeepAliveSound
  <2>7. accepted' = accepted  BY <1>4 DEF SendPart
  <2> QED BY <1>0, <2>3, <2>4, <2>6, <2>7 DEF IInv
<1>5. ASSUME NEW k \in Due, SendFails(k) PROVE IInv'
  <2>1. mq \in Queue /\ mq.msgs[k] \in Message
        BY <1>0 DEF Sound, Queue, Due
  <2>2. mq.msgs[k].out \in Nat  BY <2>1 DEF Message
  <2>3. Sound(SentBefore(k, mq.msgs[k].out))  BY <1>0, <2>2, SentBeforeSound
  <2>4. offset' \in Nat  BY <1>5, <1>a DEF SendFails
  <2> QED BY <1>0, <1>5, <2>3, <2>4 DEF SendFails, IInv
<1>6. CASE Recv
  <2> DEFINE kind  == Head(owed)
             Found == {i \in DOMAIN mq.msgs : /\ mq.msgs[i].kind = kind
                                              /\ mq.msgs[i].state # "complete"}
  <2>1. CASE Find(kind) = 0
        BY <1>0, <1>6, <2>1 DEF Recv, IInv
  <2>2. CASE Find(kind) # 0
    <3>1. Found # {}  BY <2>2 DEF Find
    <3>2. Found \subseteq Nat
      <4>1. mq.msgs \in Seq(Message)  BY <1>0 DEF Sound, Queue
      <4> QED BY <4>1
    <3>3. \E i \in Found : \A j \in Found : i <= j  BY <3>1, <3>2, LeastExists
    <3>4. Find(kind) \in DOMAIN mq.msgs  BY <3>1, <3>3 DEF Find
    <3>5. Sound([mq EXCEPT !.msgs[Find(kind)].state = "complete"])
          BY <1>0, <3>4, SetStateSound
    <3> QED BY <1>0, <1>6, <2>2, <3>5 DEF Recv, IInv
  <2> QED BY <2>1, <2>2
<1>7. CASE RecvFails
      BY <1>0, <1>7 DEF RecvFails, IInv
<1>8. ASSUME NEW i \in DOMAIN mq.msgs, Expire(i) PROVE IInv'
  <2>1. Sound([mq EXCEPT !.msgs[i].state = "late"])  BY <1>0, SetStateSound
  <2> QED BY <1>0, <1>8, <2>1 DEF Expire, IInv
<1>9. CASE UNCHANGED vars
      BY <1>0, <1>9 DEF vars, IInv
<1> QED BY <1>1, <1>2, <1>3, <1>4, <1>5, <1>6, <1>7, <1>8, <1>9 DEF Next

\* Messages and headers keep their places in the buffer, whatever their sizes
\* and that of the buffer, and the buffer is never written past its end.
THEOREM NothingIsOverwritten == Spec => []Layout
<1>1. IInv => Layout  BY DEF IInv, Sound, Layout
<1> QED BY <1>1, InitIInv, NextIInv, PTL DEF Spec

-----------------------------------------------------------------------------
\* The place of the first message that is to be sent, when nothing is late.
IsFirst(q, i) ==
    /\ q.msgs[i].state = "unsent"
    /\ \A j \in DOMAIN q.msgs : j < i => q.msgs[j].state # "unsent"

SentFirst(q) ==
    \A i, j \in DOMAIN q.msgs :
        q.msgs[i].state = "unsent" /\ i < j => q.msgs[j].state = "unsent"

Begun(q, off) ==
    /\ (\A i \in DOMAIN q.msgs : q.msgs[i].state # "unsent") => off = 0
    /\ \A i \in DOMAIN q.msgs : q.msgs[i].out = IF IsFirst(q, i) THEN off ELSE 0

\* The answers that are to come, o, are those awaited, in the order of the queue:
\* w says of each where the message is that awaits it.
Matches(q, o, w) ==
    /\ w \in [1 .. Len(o) -> DOMAIN q.msgs]
    /\ \A m, n \in 1 .. Len(o) : m < n => w[m] < w[n]
    /\ \A n \in 1 .. Len(o) : /\ q.msgs[w[n]].state = "awaiting"
                              /\ q.msgs[w[n]].kind = o[n]
    /\ \A i \in DOMAIN q.msgs :
         q.msgs[i].state = "awaiting" => \E n \in 1 .. Len(o) : w[n] = i

Flow(q, off, o) ==
    /\ \A i \in DOMAIN q.msgs : q.msgs[i].state # "late"
    /\ SentFirst(q)
    /\ Begun(q, off)
    /\ \E w : Matches(q, o, w)

FlowInv == timeouts = 0 => intact /\ error # "unknown_ack" /\ Flow(mq, offset, owed)

\* The published messages that are still in the queue for a reason.
IsOpen(m) == m.kind = "publish" /\ m.state # "complete"

Pending(q, d, a) ==
    /\ d <= a
    /\ \A i \in DOMAIN q.msgs :
         IsOpen(q.msgs[i]) => /\ q.msgs[i].state = "unsent"
                              /\ q.msgs[i].id \in d + 1 .. a
    /\ \A i, j \in DOMAIN q.msgs :
         IsOpen(q.msgs[i]) /\ IsOpen(q.msgs[j]) /\ i < j
            => q.msgs[i].id < q.msgs[j].id
    /\ \A n \in d + 1 .. a :
         \E i \in DOMAIN q.msgs : IsOpen(q.msgs[i]) /\ q.msgs[i].id = n

Partial(q) == \A i \in DOMAIN q.msgs : q.msgs[i].out < q.msgs[i].size

Answers == {"connect", "ping"}

\* e lists the c members of S in their order.
Lists(e, c, S) ==
    /\ c \in Nat /\ e \in [1 .. c -> S]
    /\ \A m, n \in 1 .. c : m < n => e[m] < e[n]
    /\ \A i \in S : \E n \in 1 .. c : e[n] = i

-----------------------------------------------------------------------------
\* Ascending leaves nothing out.
LEMMA AscendingOnto ==
  ASSUME NEW S, IsFiniteSet(S), S \subseteq Nat, NEW e \in Ascending(S)
  PROVE  Lists(e, Cardinality(S), S)
<1> DEFINE c == Cardinality(S)
<1>1. c \in Nat  BY FS_CardinalityType
<1>2. /\ e \in [1 .. c -> S]
      /\ \A m, n \in 1 .. c : m < n => e[m] < e[n]
      BY DEF Ascending
<1> HIDE DEF c
<1>3. ASSUME NEW m \in 1 .. c, NEW n \in 1 .. c, e[m] = e[n] PROVE m = n
  <2>1. e[m] \in Nat /\ e[n] \in Nat  BY <1>2
  <2>2. ~(m < n) /\ ~(n < m)  BY <1>2, <1>3, <2>1
  <2> QED BY <2>2, <1>1
<1>4. e \in Injection(1 .. c, S)
      BY <1>2, <1>3 DEF Injection, IsInjective
<1>5. Cardinality(1 .. c) = c  BY <1>1, FS_Interval
<1>6. e \in Surjection(1 .. c, S)
  <2>1. Cardinality(1 .. c) = Cardinality(S)  BY <1>5 DEF c
  <2> QED BY <1>4, <2>1, FS_Injection
<1>7. \A i \in S : \E n \in 1 .. c : e[n] = i
      BY <1>6 DEF Surjection
<1> QED BY <1>1, <1>2, <1>7 DEF c, Lists

\* Numbers that increase and leave none out between are successive.
LEMMA CountingUp ==
  ASSUME NEW a \in Nat, NEW m \in Nat, NEW s \in [1 .. m -> Nat],
         \A i, j \in 1 .. m : i < j => s[i] < s[j],
         \A i \in 1 .. m : a < s[i],
         \A i \in 1 .. m : \A v \in a + 1 .. s[i] : \E r \in 1 .. m : s[r] = v
  PROVE  \A i \in 1 .. m : s[i] = a + i
<1> DEFINE Wrong == {i \in 1 .. m : s[i] # a + i}
<1> SUFFICES ASSUME Wrong # {} PROVE FALSE
    OBVIOUS
<1>0. Wrong \subseteq Nat  OBVIOUS
<1> HIDE DEF Wrong
<1>1. PICK i \in Wrong : \A j \in Wrong : i <= j
      BY <1>0, LeastExists
<1> USE DEF Wrong
<1>2. /\ i \in 1 .. m /\ s[i] # a + i /\ s[i] \in Nat
      /\ \A j \in 1 .. m : j < i => s[j] = a + j
      BY <1>1
<1>3. a + i <= s[i]
  <2>1. CASE i = 1  BY <1>2, <2>1
  <2>2. CASE i # 1
    <3>1. i - 1 \in 1 .. m /\ i - 1 < i  BY <1>2, <2>2
    <3>2. s[i - 1] = a + (i - 1) /\ s[i - 1] < s[i]  BY <1>2, <3>1
    <3> QED BY <1>2, <3>2
  <2> QED BY <2>1, <2>2
<1>4. a + i \in a + 1 .. s[i]  BY <1>2, <1>3
<1>5. PICK r \in 1 .. m : s[r] = a + i  BY <1>2, <1>4
<1>6. r # i  BY <1>2, <1>5
<1>7. CASE r < i  BY <1>2, <1>5, <1>7
<1>8. CASE i < r
  <2>1. s[i] < s[r]  BY <1>2, <1>8
  <2> QED BY <1>2, <1>3, <1>5, <2>1
<1> QED BY <1>2, <1>6, <1>7, <1>8

-----------------------------------------------------------------------------
\* What Register, Clean and SentBefore make of the messages, field by field.
LEMMA QueueTyped ==
  ASSUME NEW q, Sound(q)
  PROVE  /\ Len(q.msgs) \in Nat /\ DOMAIN q.msgs = 1 .. Len(q.msgs)
         /\ \A i \in DOMAIN q.msgs :
              /\ q.msgs[i].kind \in Kinds /\ q.msgs[i].id \in Nat
              /\ q.msgs[i].size \in Nat \ {0} /\ q.msgs[i].out \in Nat
              /\ q.msgs[i].state \in {"unsent", "awaiting", "late", "complete"}
<1>1. q.msgs \in Seq(Message)  BY DEF Sound, Queue
<1>2. \A i \in DOMAIN q.msgs : q.msgs[i] \in Message  BY <1>1
<1> QED BY <1>1, <1>2 DEF Message

SameBut(m, l) ==
    m.kind = l.kind /\ m.id = l.id /\ m.size = l.size /\ m.out = l.out
        /\ m.state = l.state

LEMMA RegisterShape ==
  ASSUME NEW q, Sound(q), NEW kind, NEW id, NEW size
  PROVE  LET r == Register(q, kind, id, size)
             n == Len(q.msgs)
         IN  /\ DOMAIN r.msgs = 1 .. n + 1
             /\ \A i \in 1 .. n : r.msgs[i] = q.msgs[i]
             /\ r.msgs[n + 1].kind = kind /\ r.msgs[n + 1].id = id
             /\ r.msgs[n + 1].size = size /\ r.msgs[n + 1].out = 0
             /\ r.msgs[n + 1].state = "unsent"
<1>1. q.msgs \in Seq(Message) /\ Len(q.msgs) \in Nat  BY DEF Sound, Queue
<1> DEFINE m == [kind |-> kind, id |-> id, start |-> q.curr,
                 size |-> size, out |-> 0, state |-> "unsent"]
<1>2. Register(q, kind, id, size).msgs = Append(q.msgs, m)  BY DEF Register
<1>3. /\ m.kind = kind /\ m.id = id /\ m.size = size /\ m.out = 0
      /\ m.state = "unsent"
      OBVIOUS
<1> HIDE DEF m
<1>4. /\ DOMAIN Append(q.msgs, m) = 1 .. Len(q.msgs) + 1
      /\ \A i \in 1 .. Len(q.msgs) : Append(q.msgs, m)[i] = q.msgs[i]
      /\ Append(q.msgs, m)[Len(q.msgs) + 1] = m
      BY <1>1
<1> QED BY <1>2, <1>3, <1>4

LEMMA CleanShape ==
  ASSUME NEW q, Sound(q)
  PROVE  LET c == Clean(q)
             n == Len(q.msgs)
         IN  \E h \in 1 .. n + 1 :
               /\ \A i \in 1 .. h - 1 : q.msgs[i].state = "complete"
               /\ DOMAIN c.msgs = 1 .. n - h + 1
               /\ \A i \in 1 .. n - h + 1 : SameBut(c.msgs[i], q.msgs[h + i - 1])
<1> DEFINE Open == {i \in DOMAIN q.msgs : q.msgs[i].state # "complete"}
           head == CHOOSE i \in Open : \A j \in Open : i <= j
           gone == q.msgs[head].start
           n    == Len(q.msgs)
           c    == Clean(q)
<1>1. n \in Nat /\ DOMAIN q.msgs = 1 .. n  BY QueueTyped
<1>2. CASE Open = {}
  <2>1. DOMAIN c.msgs = {}  BY <1>2 DEF Clean
  <2>2. \A i \in 1 .. n : q.msgs[i].state = "complete"  BY <1>1, <1>2
  <2> HIDE DEF c, Open, head, gone
  <2>3. n + 1 \in 1 .. n + 1 /\ 1 .. (n + 1) - 1 = 1 .. n /\ 1 .. n - (n + 1) + 1 = {}
        BY <1>1
  <2> HIDE DEF n
  <2> QED BY <2>1, <2>2, <2>3 DEF c, n
<1>3. CASE Open # {}
  <2>1. Open \subseteq Nat  BY <1>1
  <2>2. head \in Open /\ \A j \in Open : head <= j
    <3>1. \E i \in Open : \A j \in Open : i <= j
          BY <1>3, <2>1, LeastExists
    <3> QED BY <3>1
  <2>3. c.msgs = [i \in 1 .. n - head + 1 |->
                    [q.msgs[head + i - 1] EXCEPT !.start = @ - gone]]
        BY <1>3 DEF Clean
  <2> HIDE DEF head, c, gone
  <2>4. head \in 1 .. n  BY <2>2, <1>1
  <2>5. \A i \in 1 .. head - 1 : q.msgs[i].state = "complete"
    <3> SUFFICES ASSUME NEW i \in 1 .. head - 1, q.msgs[i].state # "complete"
                 PROVE  FALSE
        OBVIOUS
    <3>1. i \in 1 .. n /\ i < head  BY <2>4, <1>1
    <3> QED BY <3>1, <1>1, <2>2
  <2>6. DOMAIN c.msgs = 1 .. n - head + 1  BY <2>3
  <2>7. ASSUME NEW i \in 1 .. n - head + 1
        PROVE  SameBut(c.msgs[i], q.msgs[head + i - 1])
    <3>1. head + i - 1 \in DOMAIN q.msgs  BY <2>4, <1>1
    <3>2. q.msgs[head + i - 1] \in Message
          BY <3>1 DEF Sound, Queue
    <3>3. c.msgs[i] = [q.msgs[head + i - 1] EXCEPT !.start = @ - gone]
          BY <2>3
    <3> QED BY <3>2, <3>3 DEF Message, SameBut
  <2>8. head \in 1 .. n + 1  BY <2>4, <1>1
  <2> QED BY <2>5, <2>6, <2>7, <2>8 DEF c, n
<1> QED BY <1>2, <1>3

LEMMA SentShape ==
  ASSUME Sound(mq), NEW k, NEW out
  PROVE  LET ms == SentBefore(k, out).msgs
         IN  /\ DOMAIN ms = DOMAIN mq.msgs
             /\ \A i \in DOMAIN mq.msgs :
                  /\ ms[i].kind = mq.msgs[i].kind /\ ms[i].id = mq.msgs[i].id
                  /\ ms[i].size = mq.msgs[i].size
                  /\ ms[i].state =
                       IF i \in Due /\ i < k
                         THEN IF mq.msgs[i].kind = "publish" THEN "complete"
                                                             ELSE "awaiting"
                         ELSE mq.msgs[i].state
                  /\ ms[i].out = IF i \in Due /\ i < k THEN 0
                                 ELSE IF i = k THEN out ELSE mq.msgs[i].out
<1> DEFINE ms == SentBefore(k, out).msgs
<1>1. mq \in Queue /\ \A i \in DOMAIN mq.msgs : mq.msgs[i] \in Message
      BY DEF Sound, Queue
<1>2. /\ DOMAIN ms = DOMAIN mq.msgs
      /\ \A i \in DOMAIN mq.msgs :
           ms[i] = IF i \in Due /\ i < k THEN Sent(mq.msgs[i])
                   ELSE IF i = k THEN [mq.msgs[i] EXCEPT !.out = out]
                   ELSE mq.msgs[i]
      BY <1>1 DEF SentBefore, Queue
<1> HIDE DEF ms
<1>3. ASSUME NEW i \in DOMAIN mq.msgs
      PROVE  /\ ms[i].kind = mq.msgs[i].kind /\ ms[i].id = mq.msgs[i].id
             /\ ms[i].size = mq.msgs[i].size
             /\ ms[i].state =
                  IF i \in Due /\ i < k
                    THEN IF mq.msgs[i].kind = "publish" THEN "complete"
                                                        ELSE "awaiting"
                    ELSE mq.msgs[i].state
             /\ ms[i].out = IF i \in Due /\ i < k THEN 0
                            ELSE IF i = k THEN out ELSE mq.msgs[i].out
  <2>1. mq.msgs[i] \in Message  BY <1>1
  <2>2. CASE i \in Due /\ i < k
        BY <1>2, <2>1, <2>2 DEF Sent, Message
  <2>3. CASE ~(i \in Due /\ i < k) /\ i = k
    <3>1. ms[i] = [mq.msgs[i] EXCEPT !.out = out]  BY <1>2, <2>3
    <3> QED BY <2>1, <2>3, <3>1 DEF Message
  <2>4. CASE ~(i \in Due /\ i < k) /\ i # k
    <3>1. ms[i] = mq.msgs[i]  BY <1>2, <2>4
    <3> QED BY <2>4, <3>1
  <2> QED BY <2>2, <2>3, <2>4
<1> QED BY <1>2, <1>3 DEF ms

-----------------------------------------------------------------------------
\* Flow, Pending and Partial survive what is done to the queue.
LEMMA RegisterKeeps ==
  ASSUME NEW q, Sound(q), NEW kind \in Kinds, NEW id \in Nat,
         NEW size \in Nat \ {0}, NEW off, NEW o, NEW d \in Nat, NEW a \in Nat,
         NEW b \in Nat, b = IF kind = "publish" THEN a + 1 ELSE a,
         kind = "publish" => id = b
  PROVE  LET r == Register(q, kind, id, size)
         IN  /\ Flow(q, off, o) => Flow(r, off, o)
             /\ Pending(q, d, a) => Pending(r, d, b)
             /\ Partial(q) => Partial(r)
<1> DEFINE r == Register(q, kind, id, size)
           n == Len(q.msgs)
<1>1. /\ n \in Nat /\ DOMAIN q.msgs = 1 .. n
      /\ \A i \in 1 .. n : q.msgs[i].id \in Nat
      /\ \A i \in 1 .. n : q.msgs[i].size \in Nat /\ q.msgs[i].out \in Nat
      BY QueueTyped
<1>2. /\ DOMAIN r.msgs = 1 .. n + 1
      /\ \A i \in 1 .. n : r.msgs[i] = q.msgs[i]
      /\ r.msgs[n + 1].kind = kind /\ r.msgs[n + 1].id = id
      /\ r.msgs[n + 1].size = size /\ r.msgs[n + 1].out = 0
      /\ r.msgs[n + 1].state = "unsent"
      BY RegisterShape
<1> HIDE DEF r, n
<1>3. /\ \A i \in 1 .. n + 1 : i \in 1 .. n \/ i = n + 1
      /\ 1 .. n \subseteq 1 .. n + 1 /\ n + 1 \in 1 .. n + 1
      /\ \A i \in 1 .. n : i < n + 1 /\ ~(n + 1 < i)
      BY <1>1
<1>4. ASSUME Flow(q, off, o) PROVE Flow(r, off, o)
  <2>1. \A i \in DOMAIN r.msgs : r.msgs[i].state # "late"
        BY <1>1, <1>2, <1>3, <1>4 DEF Flow
  <2>2. SentFirst(r)
    <3> SUFFICES ASSUME NEW i \in DOMAIN r.msgs, NEW j \in DOMAIN r.msgs,
                        r.msgs[i].state = "unsent", i < j
                 PROVE  r.msgs[j].state = "unsent"
        BY DEF SentFirst
    <3>1. CASE j = n + 1  BY <3>1, <1>2
    <3>2. CASE j # n + 1
      <4>1. i \in 1 .. n /\ j \in 1 .. n  BY <3>2, <1>1, <1>2
      <4> QED BY <4>1, <1>1, <1>2, <1>4 DEF Flow, SentFirst
    <3> QED BY <3>1, <3>2
  <2>3. Begun(r, off)
    <3>1. \A i \in 1 .. n : IsFirst(r, i) <=> IsFirst(q, i)
          BY <1>1, <1>2, <1>3 DEF IsFirst
    <3>2. IsFirst(r, n + 1) <=> \A j \in 1 .. n : q.msgs[j].state # "unsent"
      <4>1. \A j \in 1 .. n + 1 : j < n + 1 <=> j \in 1 .. n
            BY <1>1
      <4>2. IsFirst(r, n + 1) <=>
              \A j \in 1 .. n + 1 : j \in 1 .. n => r.msgs[j].state # "unsent"
            BY <4>1, <1>2 DEF IsFirst
      <4>3. \A j \in 1 .. n : r.msgs[j].state = q.msgs[j].state
            BY <1>2
      <4> QED BY <4>2, <4>3, <1>3
    <3>3. \A i \in 1 .. n : r.msgs[i].out = IF IsFirst(r, i) THEN off ELSE 0
          BY <3>1, <1>1, <1>2, <1>4 DEF Flow, Begun
    <3>4. r.msgs[n + 1].out = IF IsFirst(r, n + 1) THEN off ELSE 0
          BY <3>2, <1>1, <1>2, <1>4 DEF Flow, Begun
    <3> QED BY <3>3, <3>4, <1>2, <1>3 DEF Begun
  <2>4. PICK w : Matches(q, o, w)  BY <1>4 DEF Flow
  <2>5. Matches(r, o, w)
    <3>1. /\ w \in [1 .. Len(o) -> 1 .. n]
          /\ \A l \in 1 .. Len(o) : w[l] \in 1 .. n
          BY <2>4, <1>1 DEF Matches
    <3>2. w \in [1 .. Len(o) -> DOMAIN r.msgs]
          BY <3>1, <1>2, <1>3
    <3>3. \A l \in 1 .. Len(o) : /\ r.msgs[w[l]].state = "awaiting"
                                 /\ r.msgs[w[l]].kind = o[l]
          BY <2>4, <3>1, <1>2 DEF Matches
    <3>4. \A i \in DOMAIN r.msgs :
            r.msgs[i].state = "awaiting" => \E l \in 1 .. Len(o) : w[l] = i
      <4> SUFFICES ASSUME NEW i \in DOMAIN r.msgs, r.msgs[i].state = "awaiting"
                   PROVE  \E l \in 1 .. Len(o) : w[l] = i
          OBVIOUS
      <4>1. i \in 1 .. n  BY <1>2, <1>3
      <4> QED BY <4>1, <2>4, <1>1, <1>2 DEF Matches
    <3> QED BY <2>4, <3>2, <3>3, <3>4 DEF Matches
  <2> QED BY <2>1, <2>2, <2>3, <2>5 DEF Flow
<1>5. ASSUME Pending(q, d, a) PROVE Pending(r, d, b)
  <2>1. d <= b /\ a <= b /\ b <= a + 1  BY <1>5 DEF Pending
  <2>2. \A i \in 1 .. n : /\ IsOpen(r.msgs[i]) <=> IsOpen(q.msgs[i])
                          /\ r.msgs[i].id = q.msgs[i].id
        BY <1>2
  <2>3. IsOpen(r.msgs[n + 1]) <=> kind = "publish"  BY <1>2 DEF IsOpen
  <2>4. \A i \in 1 .. n : IsOpen(r.msgs[i]) =>
            r.msgs[i].state = "unsent" /\ r.msgs[i].id \in d + 1 .. a
        BY <1>1, <1>2, <1>5 DEF Pending
  <2>5. \A i \in DOMAIN r.msgs : IsOpen(r.msgs[i]) =>
            r.msgs[i].state = "unsent" /\ r.msgs[i].id \in d + 1 .. b
    <3>1. \A i \in 1 .. n : IsOpen(r.msgs[i]) =>
              r.msgs[i].state = "unsent" /\ r.msgs[i].id \in d + 1 .. b
          BY <2>1, <2>4
    <3>2. IsOpen(r.msgs[n + 1]) => r.msgs[n + 1].id = a + 1 /\ b = a + 1
          BY <2>3, <1>2
    <3>3. IsOpen(r.msgs[n + 1]) => r.msgs[n + 1].id \in d + 1 .. b
          BY <3>2, <1>5 DEF Pending
    <3> QED BY <3>1, <3>3, <1>2, <1>3
  <2>6. ASSUME NEW i \in DOMAIN r.msgs, NEW j \in DOMAIN r.msgs,
               IsOpen(r.msgs[i]), IsOpen(r.msgs[j]), i < j
        PROVE  r.msgs[i].id < r.msgs[j].id
    <3>0. i \in 1 .. n  BY <2>6, <1>1, <1>2
    <3>1. CASE j = n + 1
      <4>1. r.msgs[i].id \in d + 1 .. a  BY <2>4, <2>6, <3>0
      <4>2. r.msgs[j].id = a + 1  BY <2>3, <2>6, <3>1, <1>2
      <4> QED BY <4>1, <4>2
    <3>2. CASE j # n + 1
      <4>1. j \in 1 .. n  BY <3>2, <1>2, <1>3
      <4> QED BY <2>2, <2>6, <3>0, <4>1, <1>1, <1>5 DEF Pending
    <3> QED BY <3>1, <3>2
  <2>7. ASSUME NEW v \in d + 1 .. b
        PROVE  \E i \in DOMAIN r.msgs : IsOpen(r.msgs[i]) /\ r.msgs[i].id = v
    <3>1. CASE v \in d + 1 .. a
      <4>1. PICK i \in 1 .. n : IsOpen(q.msgs[i]) /\ q.msgs[i].id = v
            BY <3>1, <1>1, <1>5 DEF Pending
      <4> QED BY <4>1, <2>2, <1>2, <1>3
    <3>2. CASE v \notin d + 1 .. a
      <4>1. v = b /\ kind = "publish"  BY <3>2, <2>1
      <4> QED BY <4>1, <2>3, <1>2, <1>3
    <3> QED BY <3>1, <3>2
  <2> QED BY <2>1, <2>5, <2>6, <2>7 DEF Pending
<1>6. Partial(q) => Partial(r)
      BY <1>1, <1>2, <1>3 DEF Partial
<1> QED BY <1>4, <1>5, <1>6 DEF r

LEMMA CleanKeeps ==
  ASSUME NEW q, Sound(q), NEW off, NEW o, NEW d \in Nat, NEW a \in Nat
  PROVE  /\ Flow(q, off, o) => Flow(Clean(q), off, o)
         /\ Pending(q, d, a) => Pending(Clean(q), d, a)
         /\ Partial(q) => Partial(Clean(q))
<1> DEFINE c == Clean(q)
           n == Len(q.msgs)
<1>1. n \in Nat /\ DOMAIN q.msgs = 1 .. n  BY QueueTyped
<1>2. PICK h \in 1 .. n + 1 :
          /\ \A i \in 1 .. h - 1 : q.msgs[i].state = "complete"
          /\ DOMAIN c.msgs = 1 .. n - h + 1
          /\ \A i \in 1 .. n - h + 1 : SameBut(c.msgs[i], q.msgs[h + i - 1])
      BY CleanShape
<1> HIDE DEF c, n
<1> DEFINE from(i) == h + i - 1
           to(i)   == i - (h - 1)
<1>3. /\ \A i \in DOMAIN c.msgs :
           /\ i \in Int
           /\ from(i) \in DOMAIN q.msgs /\ from(i) \in Int
           /\ SameBut(c.msgs[i], q.msgs[from(i)])
      /\ \A i, j \in DOMAIN c.msgs : i < j <=> from(i) < from(j)
      /\ \A i \in DOMAIN q.msgs :
           \/ i < h /\ q.msgs[i].state = "complete"
           \/ to(i) \in DOMAIN c.msgs /\ from(to(i)) = i
  <2>1. \A i \in 1 .. n - h + 1 : h + i - 1 \in 1 .. n  BY <1>1
  <2>2. \A i \in 1 .. n : i < h => i \in 1 .. h - 1  BY <1>1
  <2>3. \A i \in 1 .. n : ~(i < h) =>
            i - (h - 1) \in 1 .. n - h + 1 /\ h + (i - (h - 1)) - 1 = i
        BY <1>1
  <2>4. \A i, j \in 1 .. n - h + 1 : i < j <=> h + i - 1 < h + j - 1
        BY <1>1
  <2> QED BY <2>1, <2>2, <2>3, <2>4, <1>1, <1>2
<1>4. \A i, j \in DOMAIN q.msgs :
          q.msgs[i].state # "complete" /\ q.msgs[j].state # "complete"
             => (i < j <=> to(i) < to(j)) /\ (to(i) = to(j) => i = j)
      BY <1>1
<1>5. h \in Int  BY <1>1
<1> HIDE DEF from, to
<1>6. ASSUME Flow(q, off, o) PROVE Flow(c, off, o)
  <2>1. \A i \in DOMAIN c.msgs : c.msgs[i].state # "late"
        BY <1>3, <1>6 DEF Flow, SameBut
  <2>2. SentFirst(c)
        BY <1>3, <1>6 DEF Flow, SentFirst, SameBut
  <2>3. Begun(c, off)
    <3>1. (\A i \in DOMAIN c.msgs : c.msgs[i].state # "unsent") =>
             \A i \in DOMAIN q.msgs : q.msgs[i].state # "unsent"
          BY <1>3 DEF SameBut
    <3>2. ASSUME NEW i \in DOMAIN c.msgs
          PROVE  IsFirst(c, i) <=> IsFirst(q, from(i))
      <4>1. c.msgs[i].state = q.msgs[from(i)].state  BY <1>3 DEF SameBut
      <4>2. ASSUME IsFirst(c, i), NEW j \in DOMAIN q.msgs, j < from(i)
            PROVE  q.msgs[j].state # "unsent"
        <5>1. CASE q.msgs[j].state = "complete"  BY <5>1
        <5>2. CASE q.msgs[j].state # "complete"
          <6>1. to(j) \in DOMAIN c.msgs /\ from(to(j)) = j  BY <5>2, <1>3
          <6>2. to(j) < i  BY <6>1, <4>2, <1>3
          <6>3. c.msgs[to(j)].state = q.msgs[j].state  BY <6>1, <1>3 DEF SameBut
          <6> QED BY <6>1, <6>2, <6>3, <4>2 DEF IsFirst
        <5> QED BY <5>1, <5>2
      <4>3. ASSUME IsFirst(q, from(i)), NEW j \in DOMAIN c.msgs, j < i
            PROVE  c.msgs[j].state # "unsent"
        <5>1. from(j) < from(i) /\ from(j) \in DOMAIN q.msgs  BY <4>3, <1>3
        <5> QED BY <5>1, <4>3, <1>3 DEF IsFirst, SameBut
      <4> QED BY <4>1, <4>2, <4>3 DEF IsFirst
    <3>3. \A i \in DOMAIN c.msgs : c.msgs[i].out = q.msgs[from(i)].out
          BY <1>3 DEF SameBut
    <3> QED BY <3>1, <3>2, <3>3, <1>3, <1>6 DEF Flow, Begun
  <2>4. PICK w : Matches(q, o, w)  BY <1>6 DEF Flow
  <2> DEFINE x == [l \in 1 .. Len(o) |-> to(w[l])]
  <2>5. \A l \in 1 .. Len(o) :
            /\ w[l] \in DOMAIN q.msgs /\ q.msgs[w[l]].state = "awaiting"
            /\ q.msgs[w[l]].kind = o[l]
            /\ to(w[l]) \in DOMAIN c.msgs /\ from(to(w[l])) = w[l]
        BY <2>4, <1>3 DEF Matches
  <2>6. x \in [1 .. Len(o) -> DOMAIN c.msgs]  BY <2>5
  <2>7. \A l, m \in 1 .. Len(o) : l < m => x[l] < x[m]
    <3>1. \A l, m \in 1 .. Len(o) : l < m => w[l] < w[m]  BY <2>4 DEF Matches
    <3> QED BY <3>1, <2>5, <1>3
  <2>8. \A l \in 1 .. Len(o) : /\ c.msgs[x[l]].state = "awaiting"
                               /\ c.msgs[x[l]].kind = o[l]
    <3>1. \A l \in 1 .. Len(o) : SameBut(c.msgs[to(w[l])], q.msgs[w[l]])
          BY <2>5, <1>3
    <3> QED BY <3>1, <2>5 DEF SameBut
  <2>9. ASSUME NEW i \in DOMAIN c.msgs, c.msgs[i].state = "awaiting"
        PROVE  \E l \in 1 .. Len(o) : x[l] = i
    <3>1. from(i) \in DOMAIN q.msgs /\ q.msgs[from(i)].state = "awaiting"
          BY <2>9, <1>3 DEF SameBut
    <3>2. PICK l \in 1 .. Len(o) : w[l] = from(i)
          BY <3>1, <2>4 DEF Matches
    <3>3. to(from(i)) = i
          BY <1>3, <1>5 DEF to, from
    <3> QED BY <3>2, <3>3
  <2> HIDE DEF x
  <2>10. Matches(c, o, x)  BY <2>6, <2>7, <2>8, <2>9 DEF Matches
  <2> QED BY <2>1, <2>2, <2>3, <2>10 DEF Flow
<1>7. ASSUME Pending(q, d, a) PROVE Pending(c, d, a)
  <2>1. \A i \in DOMAIN c.msgs :
            /\ from(i) \in DOMAIN q.msgs
            /\ IsOpen(c.msgs[i]) <=> IsOpen(q.msgs[from(i)])
            /\ c.msgs[i].id = q.msgs[from(i)].id
            /\ c.msgs[i].state = q.msgs[from(i)].state
        BY <1>3 DEF SameBut, IsOpen
  <2>2. \A i, j \in DOMAIN c.msgs : i < j => from(i) < from(j)
        BY <1>3
  <2>3. \A i \in DOMAIN q.msgs : IsOpen(q.msgs[i]) =>
            to(i) \in DOMAIN c.msgs /\ from(to(i)) = i
        BY <1>3 DEF IsOpen
  <2> QED BY <2>1, <2>2, <2>3, <1>7 DEF Pending
<1>8. Partial(q) => Partial(c)
      BY <1>3 DEF Partial, SameBut
<1> QED BY <1>6, <1>7, <1>8 DEF c

\* What Deliver appends, place by place.
DeliveredGrows(k) ==
    \E c, p : /\ Lists(p, c, Payload(k))
              /\ Len(delivered') = Len(delivered) + c
              /\ \A n \in 1 .. Len(delivered) : delivered'[n] = delivered[n]
              /\ \A n \in 1 .. c :
                   delivered'[Len(delivered) + n] = mq.msgs[p[n]].id

OwedGrows(k) ==
    \E c, a : /\ Lists(a, c, Asking(k))
              /\ Len(owed') = Len(owed) + c
              /\ \A n \in 1 .. Len(owed) : owed'[n] = owed[n]
              /\ \A n \in 1 .. c :
                   owed'[Len(owed) + n] = mq.msgs[a[n]].kind

LEMMA DeliverShape ==
  ASSUME Sound(mq), NEW k, Deliver(k),
         delivered \in Seq(Nat), owed \in Seq(Answers)
  PROVE  /\ delivered' \in Seq(Nat) /\ owed' \in Seq(Answers)
         /\ DeliveredGrows(k) /\ OwedGrows(k)
<1>1. /\ Len(mq.msgs) \in Nat /\ DOMAIN mq.msgs = 1 .. Len(mq.msgs)
      /\ \A i \in DOMAIN mq.msgs : mq.msgs[i].id \in Nat /\ mq.msgs[i].kind \in Kinds
      BY QueueTyped
<1>2. IsFiniteSet(DOMAIN mq.msgs)  BY <1>1, FS_Interval
<1>3. Payload(k) \subseteq DOMAIN mq.msgs /\ Asking(k) \subseteq DOMAIN mq.msgs
      BY DEF Due, Payload, Asking
<1>4. PICK p \in Ascending(Payload(k)), a \in Ascending(Asking(k)) :
         /\ delivered' = delivered \o [n \in DOMAIN p |-> mq.msgs[p[n]].id]
         /\ owed' = owed \o [n \in DOMAIN a |-> mq.msgs[a[n]].kind]
      BY DEF Deliver
<1>5. IsFiniteSet(Payload(k)) /\ IsFiniteSet(Asking(k))
      BY <1>2, <1>3, FS_Subset
<1>6. Payload(k) \subseteq Nat /\ Asking(k) \subseteq Nat  BY <1>1, <1>3
<1>7. Lists(p, Cardinality(Payload(k)), Payload(k))
      BY <1>5, <1>6, AscendingOnto
<1>8. Lists(a, Cardinality(Asking(k)), Asking(k))
      BY <1>5, <1>6, AscendingOnto
<1>9. PICK b \in Nat : Lists(p, b, Payload(k)) /\ DOMAIN p = 1 .. b
      BY <1>7 DEF Lists
<1>10. PICK c \in Nat : Lists(a, c, Asking(k)) /\ DOMAIN a = 1 .. c
      BY <1>8 DEF Lists
<1>11. PICK s \in Seq(Nat) : /\ Len(s) = b /\ delivered' = delivered \o s
                             /\ \A n \in 1 .. b : s[n] = mq.msgs[p[n]].id
  <2> DEFINE s == [n \in 1 .. b |-> mq.msgs[p[n]].id]
  <2>1. delivered' = delivered \o s  BY <1>4, <1>9
  <2>2. \A n \in 1 .. b : mq.msgs[p[n]].id \in Nat
        BY <1>1, <1>3, <1>9 DEF Lists
  <2>3. s \in Seq(Nat) /\ Len(s) = b /\ \A n \in 1 .. b : s[n] = mq.msgs[p[n]].id
        BY <2>2
  <2> HIDE DEF s
  <2> QED BY <2>1, <2>3
<1>12. PICK t \in Seq(Answers) : /\ Len(t) = c /\ owed' = owed \o t
                                 /\ \A n \in 1 .. c : t[n] = mq.msgs[a[n]].kind
  <2> DEFINE t == [n \in 1 .. c |-> mq.msgs[a[n]].kind]
  <2>1. owed' = owed \o t  BY <1>4, <1>10
  <2>2. \A n \in 1 .. c : mq.msgs[a[n]].kind \in Answers
    <3>1. \A i \in Asking(k) : mq.msgs[i].kind \in Answers
          BY <1>1, <1>3 DEF Asking, Kinds, Answers
    <3> QED BY <3>1, <1>10 DEF Lists
  <2>3. t \in Seq(Answers) /\ Len(t) = c /\ \A n \in 1 .. c : t[n] = mq.msgs[a[n]].kind
        BY <2>2
  <2> HIDE DEF t
  <2> QED BY <2>1, <2>3
<1>13. /\ delivered' \in Seq(Nat) /\ Len(delivered') = Len(delivered) + b
       /\ \A n \in 1 .. Len(delivered) : delivered'[n] = delivered[n]
       /\ \A n \in 1 .. b : delivered'[Len(delivered) + n] = s[n]
  <2>1. Len(s) = b /\ delivered' = delivered \o s  BY <1>11
  <2>2. Len(s) = b  BY <2>1
  <2>3. delivered \o s \in Seq(Nat)  OBVIOUS
  <2>4. Len(delivered \o s) = Len(delivered) + b
    <3>1. Len(delivered \o s) = Len(delivered) + Len(s)  OBVIOUS
    <3> QED BY <3>1, <2>2, Zenon
  <2>5. \A n \in 1 .. Len(delivered) : (delivered \o s)[n] = delivered[n]  OBVIOUS
  <2>6. \A n \in 1 .. b : (delivered \o s)[Len(delivered) + n] = s[n]
    <3>1. \A n \in 1 .. Len(s) : (delivered \o s)[Len(delivered) + n] = s[n]  OBVIOUS
    <3> QED BY <3>1, <2>2, Zenon
  <2> QED BY <2>1, <2>3, <2>4, <2>5, <2>6, Zenon
<1>14. /\ owed' \in Seq(Answers) /\ Len(owed') = Len(owed) + c
       /\ \A n \in 1 .. Len(owed) : owed'[n] = owed[n]
       /\ \A n \in 1 .. c : owed'[Len(owed) + n] = t[n]
  <2>1. Len(t) = c /\ owed' = owed \o t  BY <1>12
  <2>2. Len(t) = c  BY <2>1
  <2>3. owed \o t \in Seq(Answers)  OBVIOUS
  <2>4. Len(owed \o t) = Len(owed) + c
    <3>1. Len(owed \o t) = Len(owed) + Len(t)  OBVIOUS
    <3> QED BY <3>1, <2>2, Zenon
  <2>5. \A n \in 1 .. Len(owed) : (owed \o t)[n] = owed[n]  OBVIOUS
  <2>6. \A n \in 1 .. c : (owed \o t)[Len(owed) + n] = t[n]
    <3>1. \A n \in 1 .. Len(t) : (owed \o t)[Len(owed) + n] = t[n]  OBVIOUS
    <3> QED BY <3>1, <2>2, Zenon
  <2> QED BY <2>1, <2>3, <2>4, <2>5, <2>6, Zenon
<1>15. /\ \A n \in 1 .. b : delivered'[Len(delivered) + n] = mq.msgs[p[n]].id
       /\ \A n \in 1 .. c : owed'[Len(owed) + n] = mq.msgs[a[n]].kind
       BY <1>11, <1>12, <1>13, <1>14, Zenon
<1> DEFINE Pubs(e, x) ==
             /\ Lists(x, e, Payload(k))
             /\ Len(delivered') = Len(delivered) + e
             /\ \A n \in 1 .. Len(delivered) : delivered'[n] = delivered[n]
             /\ \A n \in 1 .. e : delivered'[Len(delivered) + n] = mq.msgs[x[n]].id
           Asks(e, x) ==
             /\ Lists(x, e, Asking(k))
             /\ Len(owed') = Len(owed) + e
             /\ \A n \in 1 .. Len(owed) : owed'[n] = owed[n]
             /\ \A n \in 1 .. e : owed'[Len(owed) + n] = mq.msgs[x[n]].kind
<1>16. Pubs(b, p) /\ Asks(c, a)
       BY <1>9, <1>10, <1>13, <1>14, <1>15, Zenon
<1>17. (\E e, x : Pubs(e, x)) /\ (\E e, x : Asks(e, x))
  <2> HIDE DEF Pubs, Asks
  <2> QED BY <1>16, Zenon
<1>18. DeliveredGrows(k)  BY <1>17 DEF DeliveredGrows
<1>19. OwedGrows(k)       BY <1>17 DEF OwedGrows
<1> QED BY <1>13, <1>14, <1>18, <1>19, Zenon

\* What reaches the broker is what comes next in the order of the calls, and
\* the rest is in the queue still.
LEMMA SentKeepsPending ==
  ASSUME Sound(mq), NEW k \in Nat, NEW out, Deliver(k),
         delivered \in Seq(Nat), owed \in Seq(Answers), accepted \in Nat,
         DeliveredInOrder,
         Pending(mq, Len(delivered), accepted)
  PROVE  /\ delivered' \in Seq(Nat) /\ DeliveredInOrder'
         /\ Pending(SentBefore(k, out), Len(delivered'), accepted)
<1> DEFINE q == SentBefore(k, out)
           d == Len(delivered)
           payload == Payload(k)
<1>1. /\ DOMAIN mq.msgs \subseteq Nat
      /\ \A i \in DOMAIN mq.msgs : mq.msgs[i].id \in Nat
      BY QueueTyped
<1>2. /\ DOMAIN q.msgs = DOMAIN mq.msgs
      /\ \A i \in DOMAIN mq.msgs :
           /\ q.msgs[i].kind = mq.msgs[i].kind /\ q.msgs[i].id = mq.msgs[i].id
           /\ q.msgs[i].state =
                IF i \in Due /\ i < k
                  THEN IF mq.msgs[i].kind = "publish" THEN "complete"
                                                      ELSE "awaiting"
                  ELSE mq.msgs[i].state
      BY SentShape
<1>3. delivered' \in Seq(Nat) /\ DeliveredGrows(k)  BY DeliverShape
<1>4. PICK c, p : /\ Lists(p, c, payload)
                  /\ Len(delivered') = d + c
                  /\ \A n \in 1 .. d : delivered'[n] = delivered[n]
                  /\ \A n \in 1 .. c : delivered'[d + n] = mq.msgs[p[n]].id
      BY <1>3 DEF DeliveredGrows
<1>5. /\ c \in Nat /\ p \in [1 .. c -> payload]
      /\ \A m, n \in 1 .. c : m < n => p[m] < p[n]
      /\ \A i \in payload : \E n \in 1 .. c : p[n] = i
      BY <1>4 DEF Lists
<1>6. c \in Nat  BY <1>5
<1> USE <1>6
<1>7. d \in Nat  OBVIOUS
<1> HIDE DEF q, d
<1>8. \A i \in DOMAIN mq.msgs :
          i \in payload <=> IsOpen(mq.msgs[i]) /\ i < k
  <2>1. \A i \in DOMAIN mq.msgs :
            IsOpen(mq.msgs[i]) => mq.msgs[i].state = "unsent"
        BY DEF Pending
  <2> QED BY <2>1 DEF IsOpen, Due, IsDue, Payload
<1>9. payload \subseteq DOMAIN mq.msgs  BY DEF Due, Payload
<1> HIDE DEF payload
<1> DEFINE s == [n \in 1 .. c |-> mq.msgs[p[n]].id]
<1>10. \A n \in 1 .. c : /\ p[n] \in payload /\ p[n] \in DOMAIN mq.msgs
                         /\ IsOpen(mq.msgs[p[n]]) /\ p[n] < k
                         /\ s[n] = mq.msgs[p[n]].id /\ s[n] \in Nat
                         /\ d < s[n] /\ s[n] <= accepted
  <2>1. \A n \in 1 .. c : /\ p[n] \in payload /\ p[n] \in DOMAIN mq.msgs
                          /\ IsOpen(mq.msgs[p[n]]) /\ p[n] < k
                          /\ s[n] = mq.msgs[p[n]].id /\ s[n] \in Nat
        BY <1>1, <1>5, <1>8, <1>9
  <2>2. \A i \in DOMAIN mq.msgs :
            IsOpen(mq.msgs[i]) => mq.msgs[i].id \in d + 1 .. accepted
        BY DEF Pending, d
  <2>3. \A n \in 1 .. c : s[n] \in d + 1 .. accepted  BY <2>1, <2>2
  <2> QED BY <2>1, <2>3, <1>7
<1>11. \A i \in 1 .. c : s[i] = d + i
  <2>1. s \in [1 .. c -> Nat]  BY <1>10
  <2>2. \A i, j \in 1 .. c : i < j => s[i] < s[j]
        BY <1>5, <1>10 DEF Pending
  <2>3. ASSUME NEW i \in 1 .. c, NEW v \in d + 1 .. s[i]
        PROVE  \E r \in 1 .. c : s[r] = v
    <3>1. v \in d + 1 .. accepted  BY <1>10, <1>7
    <3>2. PICK j \in DOMAIN mq.msgs : IsOpen(mq.msgs[j]) /\ mq.msgs[j].id = v
          BY <3>1 DEF Pending, d
    <3>3. ~(p[i] < j)
      <4>1. p[i] < j => mq.msgs[p[i]].id < mq.msgs[j].id
            BY <3>2, <1>10 DEF Pending
      <4>2. v <= s[i] /\ v \in Int  BY <1>7, <1>10
      <4> QED BY <4>1, <4>2, <3>2, <1>10
    <3>4. j < k  BY <3>3, <1>1, <1>10
    <3>5. j \in payload  BY <3>2, <3>4, <1>8
    <3>6. PICK r \in 1 .. c : p[r] = j  BY <3>5, <1>5
    <3> QED BY <3>2, <3>6, <1>10
  <2>4. \A i \in 1 .. c : d < s[i]  BY <1>10
  <2> HIDE DEF s
  <2> QED BY <2>1, <2>2, <2>3, <2>4, <1>7, CountingUp
<1>12. /\ delivered' \in Seq(Nat) /\ Len(delivered') = d + c
       /\ \A i \in 1 .. d : delivered'[i] = delivered[i]
       /\ \A i \in 1 .. c : delivered'[d + i] = s[i]
       BY <1>3, <1>4, <1>10
<1> HIDE DEF s
<1>13. DeliveredInOrder'
  <2>1. DOMAIN delivered' = 1 .. d + c  BY <1>12
  <2>2. \A i \in 1 .. d : delivered[i] = i  BY DEF DeliveredInOrder, d
  <2>3. ASSUME NEW i \in 1 .. d + c PROVE delivered'[i] = i
    <3>1. CASE i \in 1 .. d  BY <3>1, <2>2, <1>12
    <3>2. CASE i \notin 1 .. d
      <4>1. i - d \in 1 .. c /\ i = d + (i - d)  BY <3>2, <1>7
      <4> QED BY <4>1, <1>11, <1>12
    <3> QED BY <3>1, <3>2
  <2> QED BY <2>1, <2>3 DEF DeliveredInOrder
<1>14. Pending(q, d + c, accepted)
  <2>1. d + c <= accepted
    <3>1. CASE c = 0  BY <3>1, <1>7 DEF Pending, d
    <3>2. CASE c # 0
      <4>1. c \in 1 .. c  BY <3>2
      <4> QED BY <4>1, <1>10, <1>11
    <3> QED BY <3>1, <3>2
  <2>2. \A i \in DOMAIN mq.msgs :
            /\ IsOpen(q.msgs[i]) <=> IsOpen(mq.msgs[i]) /\ ~(i < k)
            /\ IsOpen(q.msgs[i]) => q.msgs[i].state = mq.msgs[i].state
    <3>1. \A i \in DOMAIN mq.msgs : i \in payload => ~IsOpen(q.msgs[i])
          BY <1>2 DEF IsOpen, payload, Payload
    <3>2. \A i \in DOMAIN mq.msgs : mq.msgs[i].kind = "publish" =>
              (i \in payload <=> i \in Due /\ i < k)
          BY DEF payload, Payload
    <3>3. \A i \in DOMAIN mq.msgs :
              mq.msgs[i].kind = "publish" /\ i \notin payload
                => q.msgs[i].state = mq.msgs[i].state
          BY <3>2, <1>2
    <3> QED BY <3>1, <3>3, <1>2, <1>8 DEF IsOpen
  <2>3. ASSUME NEW i \in DOMAIN q.msgs, IsOpen(q.msgs[i])
        PROVE  q.msgs[i].state = "unsent" /\ q.msgs[i].id \in d + c + 1 .. accepted
    <3>1. /\ IsOpen(mq.msgs[i]) /\ ~(i < k) /\ q.msgs[i].id = mq.msgs[i].id
          /\ q.msgs[i].state = mq.msgs[i].state
          BY <2>2, <2>3, <1>2
    <3>2. mq.msgs[i].state = "unsent" /\ mq.msgs[i].id \in d + 1 .. accepted
          BY <3>1, <2>3, <1>2 DEF Pending, d
    <3>3. CASE c = 0  BY <3>1, <3>2, <3>3, <1>7
    <3>4. CASE c # 0
      <4>1. c \in 1 .. c  BY <3>4
      <4>2. p[c] < i  BY <4>1, <3>1, <1>1, <1>2, <1>10
      <4>3. mq.msgs[p[c]].id < mq.msgs[i].id
            BY <4>1, <4>2, <3>1, <1>2, <1>10 DEF Pending
      <4>4. d + c < mq.msgs[i].id  BY <4>1, <4>3, <1>10, <1>11
      <4> QED BY <4>4, <3>1, <3>2, <1>7
    <3> QED BY <3>3, <3>4
  <2>4. \A i, j \in DOMAIN q.msgs :
            IsOpen(q.msgs[i]) /\ IsOpen(q.msgs[j]) /\ i < j
               => q.msgs[i].id < q.msgs[j].id
        BY <2>2, <1>2 DEF Pending
  <2>5. ASSUME NEW n \in d + c + 1 .. accepted
        PROVE  \E i \in DOMAIN q.msgs : IsOpen(q.msgs[i]) /\ q.msgs[i].id = n
    <3>1. n \in d + 1 .. accepted  BY <1>7
    <3>2. PICK i \in DOMAIN mq.msgs : IsOpen(mq.msgs[i]) /\ mq.msgs[i].id = n
          BY <3>1 DEF Pending, d
    <3>3. ~(i < k)
      <4> SUFFICES ASSUME i < k PROVE FALSE
          OBVIOUS
      <4>1. PICK r \in 1 .. c : p[r] = i  BY <3>2, <1>5, <1>8
      <4>2. n = d + r  BY <4>1, <3>2, <1>10, <1>11
      <4> QED BY <4>2, <1>7
    <3> QED BY <3>2, <3>3, <2>2, <1>2
  <2> QED BY <2>1, <2>3, <2>4, <2>5 DEF Pending
<1> QED BY <1>12, <1>13, <1>14 DEF q

\* As long as nothing is late: send_offset is in the message the sending has
\* come to, and the new debts of the broker come after the old ones.
LEMMA SentKeepsFlow ==
  ASSUME Sound(mq), NEW k \in Nat, k \in Due \/ k = Len(mq.msgs) + 1,
         NEW out \in Nat, Deliver(k),
         delivered \in Seq(Nat), owed \in Seq(Answers),
         Flow(mq, offset, owed)
  PROVE  Flow(SentBefore(k, out), IF k \in Due THEN out ELSE 0, owed')
<1> DEFINE q == SentBefore(k, out)
           off == IF k \in Due THEN out ELSE 0
<1>1. /\ Len(mq.msgs) \in Nat /\ DOMAIN mq.msgs = 1 .. Len(mq.msgs)
      /\ DOMAIN mq.msgs \subseteq Nat
      BY QueueTyped
<1>2. /\ DOMAIN q.msgs = DOMAIN mq.msgs
      /\ \A i \in DOMAIN mq.msgs :
           /\ q.msgs[i].kind = mq.msgs[i].kind
           /\ q.msgs[i].state =
                IF i \in Due /\ i < k
                  THEN IF mq.msgs[i].kind = "publish" THEN "complete"
                                                      ELSE "awaiting"
                  ELSE mq.msgs[i].state
           /\ q.msgs[i].out = IF i \in Due /\ i < k THEN 0
                              ELSE IF i = k THEN out ELSE mq.msgs[i].out
      BY SentShape
<1> HIDE DEF q
<1>3. \A i \in DOMAIN mq.msgs : i \in Due <=> mq.msgs[i].state = "unsent"
      BY DEF Flow, Due, IsDue
<1>4. k \in Due => k \in DOMAIN mq.msgs /\ mq.msgs[k].state = "unsent"
      BY <1>3 DEF Due
<1>5. k \notin Due => \A i \in DOMAIN mq.msgs : i < k
      BY <1>1
<1>6. \A i \in DOMAIN mq.msgs :
          q.msgs[i].state = "unsent" <=> mq.msgs[i].state = "unsent" /\ ~(i < k)
      BY <1>2, <1>3
<1>7. \A i \in DOMAIN q.msgs : q.msgs[i].state # "late"
      BY <1>2 DEF Flow
<1>8. SentFirst(q)
      BY <1>1, <1>2, <1>6 DEF Flow, SentFirst
<1>9. Begun(q, off)
  <2>1. (\A i \in DOMAIN q.msgs : q.msgs[i].state # "unsent") => off = 0
        BY <1>1, <1>2, <1>4, <1>6
  <2>2. \A i \in DOMAIN mq.msgs : IsFirst(q, i) <=> k \in Due /\ i = k
    <3>1. CASE k \in Due
      <4>1. \A i \in DOMAIN mq.msgs : k < i => ~IsFirst(q, i)
            BY <3>1, <1>1, <1>2, <1>4, <1>6 DEF IsFirst
      <4>2. \A i \in DOMAIN mq.msgs : i < k => ~IsFirst(q, i)
            BY <1>6 DEF IsFirst
      <4>3. IsFirst(q, k)
            BY <3>1, <1>1, <1>2, <1>4, <1>6 DEF IsFirst
      <4> QED BY <4>1, <4>2, <4>3, <3>1, <1>1, <1>4
    <3>2. CASE k \notin Due
          BY <3>2, <1>5, <1>6 DEF IsFirst
    <3> QED BY <3>1, <3>2
  <2>3. ASSUME NEW i \in DOMAIN mq.msgs
        PROVE  q.msgs[i].out = IF IsFirst(q, i) THEN off ELSE 0
    <3>1. CASE i = k
          BY <3>1, <2>2, <1>2, <1>5
    <3>2. CASE i # k
      <4>1. CASE i \in Due /\ i < k
            BY <4>1, <3>2, <2>2, <1>2
      <4>2. CASE ~(i \in Due /\ i < k)
        <5>1. ~IsFirst(mq, i)
          <6>1. CASE i < k  BY <6>1, <4>2, <1>3 DEF IsFirst
          <6>2. CASE ~(i < k)
            <7>1. k < i /\ k \in DOMAIN mq.msgs /\ mq.msgs[k].state = "unsent"
                  BY <6>2, <3>2, <1>1, <1>4, <1>5
            <7> QED BY <7>1 DEF IsFirst
          <6> QED BY <6>1, <6>2
        <5>2. mq.msgs[i].out = 0  BY <5>1 DEF Flow, Begun
        <5> QED BY <5>2, <4>2, <3>2, <2>2, <1>2
      <4> QED BY <4>1, <4>2
    <3> QED BY <3>1, <3>2
  <2> HIDE DEF off
  <2> QED BY <2>1, <2>3, <1>2 DEF Begun
<1>10. owed' \in Seq(Answers) /\ OwedGrows(k)  BY DeliverShape
<1>11. PICK c, a : /\ Lists(a, c, Asking(k))
                   /\ Len(owed') = Len(owed) + c
                   /\ \A n \in 1 .. Len(owed) : owed'[n] = owed[n]
                   /\ \A n \in 1 .. c :
                        owed'[Len(owed) + n] = mq.msgs[a[n]].kind
       BY <1>10 DEF OwedGrows
<1> DEFINE d == Len(owed)
<1>12. PICK w : Matches(mq, owed, w)  BY DEF Flow
<1>13. d \in Nat /\ c \in Nat  BY <1>11 DEF Lists
<1>14. /\ Len(owed') = d + c
       /\ \A n \in 1 .. d : owed'[n] = owed[n]
       /\ \A n \in 1 .. c : owed'[d + n] = mq.msgs[a[n]].kind
       BY <1>11
<1>15. /\ \A n \in 1 .. d : /\ w[n] \in DOMAIN mq.msgs
                            /\ mq.msgs[w[n]].state = "awaiting"
                            /\ mq.msgs[w[n]].kind = owed[n]
       /\ \A m, n \in 1 .. d : m < n => w[m] < w[n]
       /\ \A i \in DOMAIN mq.msgs :
            mq.msgs[i].state = "awaiting" => \E n \in 1 .. d : w[n] = i
       BY <1>12 DEF Matches
<1>16. /\ \A n \in 1 .. c : a[n] \in Asking(k)
       /\ \A m, n \in 1 .. c : m < n => a[m] < a[n]
       /\ \A i \in Asking(k) : \E n \in 1 .. c : a[n] = i
       BY <1>11 DEF Lists
<1>17. \A i : i \in Asking(k) <=>
           /\ i \in DOMAIN mq.msgs /\ mq.msgs[i].state = "unsent"
           /\ i < k /\ mq.msgs[i].kind # "publish"
       BY <1>3 DEF Asking, Due
<1> HIDE DEF d, off
<1> DEFINE x == [n \in 1 .. d + c |-> IF n \in 1 .. d THEN w[n] ELSE a[n - d]]
<1>18. /\ \A n \in 1 .. d + c : n \in 1 .. d \/ (n \notin 1 .. d /\ n - d \in 1 .. c)
       /\ \A n \in 1 .. d : x[n] = w[n]
       /\ \A n \in 1 .. d + c : n \notin 1 .. d => x[n] = a[n - d]
       /\ \A n \in 1 .. c : d + n \in 1 .. d + c /\ x[d + n] = a[n]
       /\ 1 .. d \subseteq 1 .. d + c
       BY <1>13
<1>19. ASSUME NEW n \in 1 .. d + c
       PROVE  /\ x[n] \in DOMAIN q.msgs /\ q.msgs[x[n]].state = "awaiting"
              /\ q.msgs[x[n]].kind = owed'[n]
  <2>1. CASE n \in 1 .. d
    <3>1. /\ w[n] \in DOMAIN mq.msgs /\ mq.msgs[w[n]].state = "awaiting"
          /\ mq.msgs[w[n]].kind = owed[n] /\ w[n] \notin Due
          BY <2>1, <1>3, <1>15
    <3> QED BY <3>1, <2>1, <1>2, <1>14, <1>18
  <2>2. CASE n \notin 1 .. d
    <3>1. n - d \in 1 .. c /\ x[n] = a[n - d] /\ d + (n - d) = n
          BY <2>2, <1>13, <1>18
    <3>2. a[n - d] \in Asking(k)  BY <3>1, <1>16
    <3>3. /\ a[n - d] \in DOMAIN mq.msgs /\ a[n - d] \in Due /\ a[n - d] < k
          /\ mq.msgs[a[n - d]].kind # "publish"
          BY <3>2, <1>3, <1>17
    <3>4. owed'[n] = mq.msgs[a[n - d]].kind  BY <3>1, <1>14
    <3> QED BY <3>1, <3>3, <3>4, <1>2
  <2> QED BY <2>1, <2>2
<1>20. ASSUME NEW m \in 1 .. d + c, NEW n \in 1 .. d + c, m < n
       PROVE  x[m] < x[n]
  <2>1. CASE n \in 1 .. d
    <3>1. m \in 1 .. d  BY <2>1, <1>20, <1>13
    <3> QED BY <3>1, <2>1, <1>15, <1>18, <1>20
  <2>2. CASE m \in 1 .. d /\ n \notin 1 .. d
    <3>1. x[m] = w[m] /\ x[n] = a[n - d] /\ n - d \in 1 .. c
          BY <2>2, <1>18
    <3>2. w[m] \in DOMAIN mq.msgs /\ mq.msgs[w[m]].state = "awaiting"
          BY <2>2, <1>15
    <3>3. a[n - d] \in DOMAIN mq.msgs /\ mq.msgs[a[n - d]].state = "unsent"
          BY <3>1, <1>16, <1>17
    <3>4. ~(a[n - d] < w[m])
          BY <3>2, <3>3 DEF Flow, SentFirst
    <3>5. a[n - d] # w[m]  BY <3>2, <3>3
    <3>6. w[m] \in Nat /\ a[n - d] \in Nat  BY <3>2, <3>3, <1>1
    <3> HIDE DEF x
    <3> QED BY <3>1, <3>4, <3>5, <3>6
  <2>3. CASE m \notin 1 .. d /\ n \notin 1 .. d
    <3>1. /\ x[m] = a[m - d] /\ m - d \in 1 .. c
          /\ x[n] = a[n - d] /\ n - d \in 1 .. c
          BY <2>3, <1>18
    <3>2. m - d < n - d  BY <1>20, <1>13
    <3> QED BY <3>1, <3>2, <1>16
  <2> QED BY <2>1, <2>2, <2>3
<1>21. ASSUME NEW i \in DOMAIN q.msgs, q.msgs[i].state = "awaiting"
       PROVE  \E n \in 1 .. d + c : x[n] = i
  <2>1. CASE mq.msgs[i].state = "awaiting"
        BY <2>1, <1>2, <1>15, <1>18
  <2>2. CASE mq.msgs[i].state # "awaiting"
    <3>1. i \in Asking(k)  BY <2>2, <1>2, <1>3, <1>17, <1>21
    <3>2. PICK n \in 1 .. c : a[n] = i  BY <3>1, <1>16
    <3>3. d + n \in 1 .. d + c /\ x[d + n] = i  BY <3>2, <1>18
    <3> HIDE DEF x
    <3> QED BY <3>3
  <2> QED BY <2>1, <2>2
<1>22. x \in [1 .. Len(owed') -> DOMAIN q.msgs]  BY <1>14, <1>19
<1>23. 1 .. Len(owed') = 1 .. d + c  BY <1>14
<1> HIDE DEF x
<1>24. Matches(q, owed', x)
       BY <1>19, <1>20, <1>21, <1>22, <1>23 DEF Matches
<1>25. \E v : Matches(q, owed', v)  BY <1>24
<1> QED BY <1>7, <1>8, <1>9, <1>25 DEF Flow, q, off

\* A message is never begun to its end without being sent.
LEMMA SentKeepsPartial ==
  ASSUME Sound(mq), NEW k, NEW out,
         k \in DOMAIN mq.msgs => out < mq.msgs[k].size,
         Partial(mq)
  PROVE  Partial(SentBefore(k, out))
<1>1. /\ DOMAIN SentBefore(k, out).msgs = DOMAIN mq.msgs
      /\ \A i \in DOMAIN mq.msgs :
           /\ SentBefore(k, out).msgs[i].size = mq.msgs[i].size
           /\ SentBefore(k, out).msgs[i].out =
                IF i \in Due /\ i < k THEN 0
                ELSE IF i = k THEN out ELSE mq.msgs[i].out
      BY SentShape
<1>2. \A i \in DOMAIN mq.msgs : 0 < mq.msgs[i].size
      BY QueueTyped
<1> QED BY <1>1, <1>2 DEF Partial

\* MQTT_CLIENT_TRY_PACK, whether the queue is cleaned for it or not.
LEMMA TryPackKeeps ==
  ASSUME NEW q, Sound(q), NEW kind \in Kinds, NEW id \in Nat,
         NEW size \in Nat \ {0}, NEW off, NEW o, NEW d \in Nat, NEW a \in Nat,
         error = "ok", TryPack(q, kind, id, size),
         kind = "publish" => id = a + 1
  PROVE  /\ Flow(q, off, o) => Flow(mq', off, o)
         /\ Partial(q) => Partial(mq')
         /\ Pending(q, d, a) =>
              Pending(mq', d, IF kind = "publish" /\ error' = "ok" THEN a + 1 ELSE a)
         /\ error' \in {"ok", "full"}
<1> DEFINE b == IF kind = "publish" THEN a + 1 ELSE a
<1>1. b \in Nat /\ (kind = "publish" => id = b)  OBVIOUS
<1>2. b = IF kind = "publish" THEN a + 1 ELSE a  OBVIOUS
<1> HIDE DEF b
<1>3. Sound(Clean(q))  BY CleanSound
<1>4. /\ Flow(q, off, o) => Flow(Clean(q), off, o)
      /\ Pending(q, d, a) => Pending(Clean(q), d, a)
      /\ Partial(q) => Partial(Clean(q))
      BY CleanKeeps
<1>5. CASE size <= Room(q)
  <2>1. mq' = Register(q, kind, id, size) /\ error' = "ok"
        BY <1>5 DEF TryPack
  <2>2. LET r == Register(q, kind, id, size)
        IN  /\ Flow(q, off, o) => Flow(r, off, o)
            /\ Pending(q, d, a) => Pending(r, d, b)
            /\ Partial(q) => Partial(r)
        BY <1>1, <1>2, RegisterKeeps
  <2> QED BY <2>1, <2>2, <1>2
<1>6. CASE ~(size <= Room(q)) /\ size <= Room(Clean(q))
  <2>1. mq' = Register(Clean(q), kind, id, size) /\ error' = "ok"
        BY <1>6 DEF TryPack
  <2> DEFINE c == Clean(q)
  <2>2. Sound(c)  BY <1>3
  <2> HIDE DEF c
  <2>3. LET r == Register(c, kind, id, size)
        IN  /\ Flow(c, off, o) => Flow(r, off, o)
            /\ Pending(c, d, a) => Pending(r, d, b)
            /\ Partial(c) => Partial(r)
        BY <2>2, <1>1, <1>2, RegisterKeeps
  <2> QED BY <2>1, <2>3, <1>2, <1>4 DEF c
<1>7. CASE ~(size <= Room(q)) /\ ~(size <= Room(Clean(q)))
  <2>1. mq' = Clean(q) /\ error' = "full"  BY <1>7 DEF TryPack
  <2> QED BY <2>1, <1>4
<1> QED BY <1>5, <1>6, <1>7

LEMMA KeepAliveKeeps ==
  ASSUME NEW q, Sound(q), NEW off, NEW o, NEW d \in Nat, NEW a \in Nat,
         KeepAlive(q)
  PROVE  /\ Flow(q, off, o) => Flow(mq', off, o)
         /\ Partial(q) => Partial(mq')
         /\ Pending(q, d, a) => Pending(mq', d, a)
         /\ error' = error \/ error' = "full"
<1>1. CASE mq' = q /\ UNCHANGED error  BY <1>1
<1>2. CASE error = "ok" /\ TryPack(q, "ping", 0, PingSize)
  <2>1. "ping" \in Kinds /\ 0 \in Nat /\ PingSize \in Nat \ {0} /\ "ping" # "publish"
        BY SizeAssumption DEF Kinds
  <2>2. /\ Flow(q, off, o) => Flow(mq', off, o)
        /\ Partial(q) => Partial(mq')
        /\ Pending(q, d, a) =>
             Pending(mq', d, IF "ping" = "publish" /\ error' = "ok" THEN a + 1 ELSE a)
        /\ error' \in {"ok", "full"}
        BY <1>2, <2>1, TryPackKeeps
  <2> QED BY <1>2, <2>1, <2>2
<1> QED BY <1>1, <1>2 DEF KeepAlive

\* The place that is sent from: as long as nothing is late the bytes that are
\* sent next are those that follow.
LEMMA FlowFollows ==
  ASSUME Sound(mq), Flow(mq, offset, owed), Due # {}
  PROVE  Follows
<1>1. \A i \in DOMAIN mq.msgs : i \in Due <=> mq.msgs[i].state = "unsent"
      BY DEF Flow, Due, IsDue
<1>2. Due \subseteq DOMAIN mq.msgs  BY DEF Due
<1>3. DOMAIN mq.msgs \subseteq Nat  BY QueueTyped
<1>4. Due \subseteq Nat  BY <1>2, <1>3
<1>5. \E i \in Due : \A j \in Due : i <= j  BY <1>4, LeastExists
<1>6. FirstDue \in Due /\ \A j \in Due : FirstDue <= j
      BY <1>5 DEF FirstDue
<1>7. Start = offset
      BY <1>1, <1>2, <1>6 DEF Start
<1>8. ASSUME NEW i \in DOMAIN mq.msgs PROVE IsFirst(mq, i) <=> i = FirstDue
  <2>1. ASSUME IsFirst(mq, i) PROVE i = FirstDue
    <3>1. i \in Due /\ i \in Nat /\ FirstDue \in Nat /\ FirstDue <= i
          BY <2>1, <1>1, <1>3, <1>4, <1>6 DEF IsFirst
    <3>2. ~(FirstDue < i)
          BY <2>1, <1>1, <1>2, <1>6 DEF IsFirst
    <3> QED BY <3>1, <3>2
  <2>2. ASSUME i = FirstDue PROVE IsFirst(mq, i)
    <3>1. mq.msgs[i].state = "unsent"  BY <2>2, <1>1, <1>6
    <3>2. ASSUME NEW j \in DOMAIN mq.msgs, j < i, mq.msgs[j].state = "unsent"
          PROVE  FALSE
      <4>1. j \in Due /\ j \in Nat /\ i \in Nat  BY <3>2, <1>1, <1>3
      <4>2. i <= j  BY <4>1, <2>2, <1>6
      <4> QED BY <4>1, <4>2, <3>2
    <3> QED BY <3>1, <3>2 DEF IsFirst
  <2> QED BY <2>1, <2>2
<1>9. \A i \in DOMAIN mq.msgs :
          mq.msgs[i].out = IF IsFirst(mq, i) THEN offset ELSE 0
      BY DEF Flow, Begun
<1> QED BY <1>7, <1>8, <1>9 DEF Follows

\* An answer is for the message that has awaited one the longest.
LEMMA AckKeeps ==
  ASSUME Sound(mq), owed \in Seq(Answers), owed # << >>,
         Flow(mq, offset, owed)
  PROVE  LET i == Find(Head(owed))
         IN  /\ i # 0
             /\ Flow([mq EXCEPT !.msgs[i].state = "complete"], offset, Tail(owed))
<1> DEFINE kind  == Head(owed)
           Found == {i \in DOMAIN mq.msgs : /\ mq.msgs[i].kind = kind
                                            /\ mq.msgs[i].state # "complete"}
           d     == Len(owed)
<1>1. /\ DOMAIN mq.msgs = 1 .. Len(mq.msgs) /\ DOMAIN mq.msgs \subseteq Nat
      /\ \A i \in DOMAIN mq.msgs :
           mq.msgs[i].state \in {"unsent", "awaiting", "late", "complete"}
      BY QueueTyped
<1>2. PICK w : Matches(mq, owed, w)  BY DEF Flow
<1>3. /\ d \in Nat \ {0} /\ 1 \in 1 .. d /\ kind = owed[1]
      /\ Len(Tail(owed)) = d - 1
      /\ \A n \in 1 .. d - 1 : Tail(owed)[n] = owed[n + 1]
      OBVIOUS
<1>4. /\ \A n \in 1 .. d : /\ w[n] \in DOMAIN mq.msgs
                           /\ mq.msgs[w[n]].state = "awaiting"
                           /\ mq.msgs[w[n]].kind = owed[n]
      /\ \A m, n \in 1 .. d : m < n => w[m] < w[n]
      /\ \A i \in DOMAIN mq.msgs :
           mq.msgs[i].state = "awaiting" => \E n \in 1 .. d : w[n] = i
      BY <1>2 DEF Matches
<1> HIDE DEF d, kind
<1>5. w[1] \in Found  BY <1>3, <1>4
<1>6. ASSUME NEW i \in Found PROVE w[1] <= i
  <2>1. i \in DOMAIN mq.msgs /\ i \in Nat /\ w[1] \in DOMAIN mq.msgs /\ w[1] \in Nat
        BY <1>1, <1>5
  <2>2. mq.msgs[i].state \in {"unsent", "awaiting"}
        BY <2>1, <1>1 DEF Flow
  <2>3. CASE mq.msgs[i].state = "awaiting"
    <3>1. PICK n \in 1 .. d : w[n] = i  BY <2>1, <2>3, <1>4
    <3>2. n = 1 \/ 1 < n  BY <1>3
    <3> QED BY <3>1, <3>2, <2>1, <1>3, <1>4
  <2>4. CASE mq.msgs[i].state = "unsent"
    <3>1. ~(i < w[1])  BY <2>1, <2>4, <1>3, <1>4 DEF Flow, SentFirst
    <3> QED BY <3>1, <2>1
  <2> QED BY <2>2, <2>3, <2>4
<1>7. Find(kind) = w[1]
  <2> DEFINE least == CHOOSE i \in Found : \A j \in Found : i <= j
  <2>1. Find(kind) = least  BY <1>5 DEF Find
  <2>2. least \in Found /\ \A j \in Found : least <= j  BY <1>5, <1>6
  <2>3. Found \subseteq Nat  BY <1>1
  <2> HIDE DEF least, Found
  <2>4. least <= w[1] /\ w[1] <= least /\ least \in Nat /\ w[1] \in Nat
        BY <2>2, <2>3, <1>5, <1>6
  <2>5. least = w[1]  BY <2>4
  <2> QED BY <2>1, <2>5, Zenon
<1> HIDE DEF Found
<1> DEFINE r == [mq EXCEPT !.msgs[w[1]].state = "complete"]
<1>8. w[1] \in DOMAIN mq.msgs /\ w[1] # 0 /\ mq.msgs[w[1]].state = "awaiting"
      BY <1>1, <1>3, <1>4
<1>9. /\ DOMAIN r.msgs = DOMAIN mq.msgs
      /\ \A i \in DOMAIN mq.msgs :
           /\ r.msgs[i].kind = mq.msgs[i].kind /\ r.msgs[i].out = mq.msgs[i].out
           /\ r.msgs[i].state = IF i = w[1] THEN "complete" ELSE mq.msgs[i].state
  <2>1. mq \in Queue /\ \A i \in DOMAIN mq.msgs : mq.msgs[i] \in Message
        BY DEF Sound, Queue
  <2>2. r.msgs = [mq.msgs EXCEPT ![w[1]].state = "complete"]
        BY <2>1 DEF Queue
  <2>3. DOMAIN r.msgs = DOMAIN mq.msgs  BY <2>2
  <2>4. ASSUME NEW i \in DOMAIN mq.msgs
        PROVE  /\ r.msgs[i].kind = mq.msgs[i].kind
               /\ r.msgs[i].out = mq.msgs[i].out
               /\ r.msgs[i].state = IF i = w[1] THEN "complete"
                                                ELSE mq.msgs[i].state
    <3>1. CASE i = w[1]
          BY <3>1, <2>1, <2>2, <1>8 DEF Message
    <3>2. CASE i # w[1]
      <4>1. r.msgs[i] = mq.msgs[i]  BY <3>2, <2>2, <1>8
      <4> QED BY <4>1, <3>2
    <3> QED BY <3>1, <3>2
  <2> QED BY <2>3, <2>4
<1> HIDE DEF r
<1>10. \A i \in DOMAIN mq.msgs :
           r.msgs[i].state = "unsent" <=> mq.msgs[i].state = "unsent"
       BY <1>8, <1>9
<1>11. \A i \in DOMAIN r.msgs : r.msgs[i].state # "late"
       BY <1>9 DEF Flow
<1>12. SentFirst(r)  BY <1>9, <1>10 DEF Flow, SentFirst
<1>13. Begun(r, offset)
  <2>1. \A i \in DOMAIN mq.msgs : IsFirst(r, i) <=> IsFirst(mq, i)
        BY <1>9, <1>10 DEF IsFirst
  <2> QED BY <2>1, <1>9, <1>10 DEF Flow, Begun
<1> DEFINE x == [n \in 1 .. d - 1 |-> w[n + 1]]
<1>14. \A n \in 1 .. d - 1 : n + 1 \in 1 .. d /\ 1 < n + 1 /\ x[n] = w[n + 1]
       BY <1>3
<1>15. ASSUME NEW n \in 1 .. d - 1
       PROVE  /\ x[n] \in DOMAIN r.msgs /\ r.msgs[x[n]].state = "awaiting"
              /\ r.msgs[x[n]].kind = Tail(owed)[n]
  <2>1. n + 1 \in 1 .. d /\ 1 < n + 1 /\ x[n] = w[n + 1]  BY <1>14
  <2>2. w[1] < w[n + 1] /\ w[1] \in Nat  BY <2>1, <1>1, <1>3, <1>4, <1>8
  <2>3. w[n + 1] # w[1]  BY <2>2
  <2>4. /\ w[n + 1] \in DOMAIN mq.msgs /\ mq.msgs[w[n + 1]].state = "awaiting"
        /\ mq.msgs[w[n + 1]].kind = owed[n + 1]
        BY <2>1, <1>4
  <2> QED BY <2>1, <2>3, <2>4, <1>3, <1>9
<1>16. ASSUME NEW m \in 1 .. d - 1, NEW n \in 1 .. d - 1, m < n
       PROVE  x[m] < x[n]
  <2>1. m + 1 < n + 1  BY <1>16
  <2> QED BY <2>1, <1>4, <1>14
<1>17. ASSUME NEW i \in DOMAIN r.msgs, r.msgs[i].state = "awaiting"
       PROVE  \E n \in 1 .. d - 1 : x[n] = i
  <2>1. i \in DOMAIN mq.msgs /\ mq.msgs[i].state = "awaiting" /\ i # w[1]
        BY <1>9, <1>17
  <2>2. PICK n \in 1 .. d : w[n] = i  BY <2>1, <1>4
  <2>3. n - 1 \in 1 .. d - 1 /\ (n - 1) + 1 = n  BY <2>1, <2>2, <1>3
  <2>4. x[n - 1] = i  BY <2>2, <2>3
  <2> HIDE DEF x
  <2> QED BY <2>3, <2>4
<1>18. x \in [1 .. d - 1 -> DOMAIN r.msgs]  BY <1>15
<1> HIDE DEF x
<1>19. Matches(r, Tail(owed), x)
       BY <1>3, <1>15, <1>16, <1>17, <1>18 DEF Matches
<1>20. \E v : Matches(r, Tail(owed), v)  BY <1>19
<1>21. Flow(r, offset, Tail(owed))
       BY <1>11, <1>12, <1>13, <1>20 DEF Flow
<1> QED BY <1>7, <1>8, <1>21 DEF r, kind

\* r is the queue with another state of messages that await an answer.
AnswersOnly(r) ==
    /\ DOMAIN r.msgs = DOMAIN mq.msgs
    /\ \A j \in DOMAIN mq.msgs :
         /\ r.msgs[j].out = mq.msgs[j].out
         /\ r.msgs[j].size = mq.msgs[j].size
         /\ r.msgs[j].id = mq.msgs[j].id
         /\ IsOpen(r.msgs[j]) <=> IsOpen(mq.msgs[j])
         /\ IsOpen(mq.msgs[j]) => r.msgs[j].state = mq.msgs[j].state

\* mqtt_mq_find finds no message that needs no answer.
LEMMA SetStateShape ==
  ASSUME Sound(mq), NEW i \in DOMAIN mq.msgs, mq.msgs[i].kind # "publish",
         NEW state \in {"late", "complete"}
  PROVE  AnswersOnly([mq EXCEPT !.msgs[i].state = state])
<1> DEFINE r == [mq EXCEPT !.msgs[i].state = state]
<1>1. mq \in Queue /\ \A j \in DOMAIN mq.msgs : mq.msgs[j] \in Message
      BY DEF Sound, Queue
<1>2. r.msgs = [mq.msgs EXCEPT ![i].state = state]
      BY <1>1 DEF Queue
<1> HIDE DEF r
<1>3. ASSUME NEW j \in DOMAIN mq.msgs
      PROVE  /\ r.msgs[j].out = mq.msgs[j].out
             /\ r.msgs[j].size = mq.msgs[j].size
             /\ r.msgs[j].id = mq.msgs[j].id
             /\ IsOpen(r.msgs[j]) <=> IsOpen(mq.msgs[j])
             /\ IsOpen(mq.msgs[j]) => r.msgs[j].state = mq.msgs[j].state
  <2>1. CASE j = i
        BY <2>1, <1>1, <1>2 DEF IsOpen, Message
  <2>2. CASE j # i
    <3>1. r.msgs[j] = mq.msgs[j]  BY <2>2, <1>2
    <3> QED BY <3>1
  <2> QED BY <2>1, <2>2
<1>4. DOMAIN r.msgs = DOMAIN mq.msgs  BY <1>2
<1> QED BY <1>3, <1>4 DEF AnswersOnly, r

\* Such a change leaves what waits to be sent alone.
LEMMA AnswersKeep ==
  ASSUME NEW r, AnswersOnly(r), NEW d, NEW a
  PROVE  /\ Pending(mq, d, a) => Pending(r, d, a)
         /\ Partial(mq) => Partial(r)
BY DEF AnswersOnly, Pending, Partial

-----------------------------------------------------------------------------
\* What has passed between the client and the broker, and what of it the queue
\* still has to send or to hear of.
Ranges ==
    /\ error \in {"ok", "full", "failed", "unknown_ack"}
    /\ timeouts \in 0 .. TimeoutLimit
    /\ accepted \in 0 .. PublishLimit
    /\ intact \in BOOLEAN
    /\ delivered \in Seq(Nat) /\ owed \in Seq(Answers)

History ==
    /\ DeliveredInOrder
    /\ Pending(mq, Len(delivered), accepted)
    /\ Partial(mq)

HInv == IInv /\ Ranges /\ History /\ FlowInv

LEMMA InitHInv == Init => HInv
<1> SUFFICES ASSUME Init PROVE HInv
    OBVIOUS
<1> DEFINE m == [kind |-> "connect", id |-> 0, start |-> 0,
                 size |-> ConnectSize, out |-> 0, state |-> "unsent"]
<1>1. mq = [msgs |-> Append(<< >>, m), curr |-> 0 + ConnectSize]
      BY DEF Init, Register
<1>2. mq.msgs = <<m>>  BY <1>1
<1>3. DOMAIN mq.msgs = {1} /\ mq.msgs[1] = m  BY <1>2
<1>4. ConnectSize \in Nat /\ 0 < ConnectSize  BY SizeAssumption
<1>5. Ranges  BY LimitAssumption DEF Init, Ranges
<1>6. History
  <2>1. DeliveredInOrder /\ Len(delivered) = 0 /\ accepted = 0
        BY DEF Init, DeliveredInOrder
  <2>2. Pending(mq, 0, 0)  BY <1>3 DEF Pending, IsOpen
  <2>3. Partial(mq)        BY <1>3, <1>4 DEF Partial
  <2> QED BY <2>1, <2>2, <2>3 DEF History
<1>7. FlowInv
  <2>1. Len(owed) = 0 /\ offset = 0 /\ intact /\ error = "ok"  BY DEF Init
  <2>2. SentFirst(mq)   BY <1>3 DEF SentFirst
  <2>3. Begun(mq, 0)    BY <1>3 DEF Begun, IsFirst
  <2>4. Matches(mq, owed, << >>)  BY <1>3, <2>1 DEF Matches
  <2>5. \E w : Matches(mq, owed, w)  BY <2>4
  <2> QED BY <1>3, <2>1, <2>2, <2>3, <2>5 DEF FlowInv, Flow
<1> QED BY <1>5, <1>6, <1>7, InitIInv DEF HInv

\* The three cases of a call of __mqtt_send that hands bytes over, seen from the
\* queue it leaves.
LEMMA SentKeeps ==
  ASSUME HInv, NEW k \in Nat, k \in Due \/ k = Len(mq.msgs) + 1,
         NEW out \in Nat, k \in DOMAIN mq.msgs => out < mq.msgs[k].size,
         Deliver(k)
  PROVE  LET q == SentBefore(k, out)
         IN  /\ Sound(q)
             /\ delivered' \in Seq(Nat) /\ owed' \in Seq(Answers)
             /\ DeliveredInOrder'
             /\ Pending(q, Len(delivered'), accepted)
             /\ Partial(q)
             /\ timeouts = 0 => Flow(q, IF k \in Due THEN out ELSE 0, owed')
<1>1. /\ Sound(mq) /\ accepted \in Nat
      /\ delivered \in Seq(Nat) /\ owed \in Seq(Answers)
      /\ DeliveredInOrder /\ Partial(mq)
      /\ Pending(mq, Len(delivered), accepted)
      BY DEF HInv, IInv, Ranges, History
<1>2. timeouts = 0 => Flow(mq, offset, owed)
      BY DEF HInv, FlowInv
<1>3. /\ delivered' \in Seq(Nat) /\ DeliveredInOrder'
      /\ Pending(SentBefore(k, out), Len(delivered'), accepted)
      BY <1>1, SentKeepsPending
<1>4. owed' \in Seq(Answers)  BY <1>1, DeliverShape
<1>5. Partial(SentBefore(k, out))  BY <1>1, SentKeepsPartial
<1>6. Sound(SentBefore(k, out))  BY <1>1, SentBeforeSound
<1>7. ASSUME timeouts = 0
      PROVE  Flow(SentBefore(k, out), IF k \in Due THEN out ELSE 0, owed')
      BY <1>1, <1>2, <1>7, SentKeepsFlow
<1> QED BY <1>3, <1>4, <1>5, <1>6, <1>7

LEMMA NextHInv == HInv /\ [Next]_vars => HInv'
<1> SUFFICES ASSUME HInv, [Next]_vars PROVE Ranges' /\ History' /\ FlowInv'
    BY NextIInv DEF HInv
<1>0. /\ Sound(mq) /\ offset \in Nat /\ accepted \in Nat
      /\ error \in {"ok", "full", "failed", "unknown_ack"}
      /\ timeouts \in 0 .. TimeoutLimit /\ timeouts \in Nat
      /\ accepted \in 0 .. PublishLimit
      /\ intact \in BOOLEAN
      /\ delivered \in Seq(Nat) /\ owed \in Seq(Answers)
      /\ DeliveredInOrder /\ Partial(mq)
      /\ Pending(mq, Len(delivered), accepted)
      /\ Len(delivered) \in Nat
      BY LimitAssumption DEF HInv, IInv, Ranges, History
<1>f. timeouts = 0 => intact /\ error # "unknown_ack" /\ Flow(mq, offset, owed)
      BY DEF HInv, FlowInv
<1>s. Start \in Nat  BY <1>0 DEF Start
<1>q. /\ DOMAIN mq.msgs = 1 .. Len(mq.msgs) /\ Len(mq.msgs) \in Nat
      /\ \A i \in DOMAIN mq.msgs :
           /\ mq.msgs[i].size \in Nat \ {0} /\ mq.msgs[i].out \in Nat
           /\ mq.msgs[i].kind \in Kinds
      BY <1>0, QueueTyped
<1>d. Due \subseteq DOMAIN mq.msgs /\ Due \subseteq Nat  BY <1>q DEF Due
<1>1. ASSUME NEW size \in PublishSizes, Publish(size)
      PROVE  Ranges' /\ History' /\ FlowInv'
  <2>1. /\ "publish" \in Kinds /\ accepted + 1 \in Nat /\ size \in Nat \ {0}
        /\ error = "ok" /\ TryPack(mq, "publish", accepted + 1, size)
        BY <1>0, <1>1, SizeAssumption DEF Kinds, Publish
  <2>2. /\ Flow(mq, offset, owed) => Flow(mq', offset, owed)
        /\ Partial(mq) => Partial(mq')
        /\ Pending(mq, Len(delivered), accepted) =>
             Pending(mq', Len(delivered),
                     IF "publish" = "publish" /\ error' = "ok"
                       THEN accepted + 1 ELSE accepted)
        /\ error' \in {"ok", "full"}
        BY <1>0, <2>1, TryPackKeeps
  <2>3. /\ accepted' = IF error' = "ok" THEN accepted + 1 ELSE accepted
        /\ accepted < PublishLimit
        /\ offset' = offset /\ timeouts' = timeouts /\ delivered' = delivered
        /\ owed' = owed /\ intact' = intact
        BY <1>1 DEF Publish
  <2>4. Ranges'  BY <1>0, <2>2, <2>3, LimitAssumption DEF Ranges
  <2>5. History'
    <3>1. Pending(mq', Len(delivered'), accepted')  BY <1>0, <2>2, <2>3
    <3> QED BY <1>0, <2>2, <2>3, <3>1 DEF History, DeliveredInOrder
  <2>6. FlowInv'  BY <1>f, <2>2, <2>3 DEF FlowInv
  <2> QED BY <2>4, <2>5, <2>6
<1>2. CASE SendAll
  <2> DEFINE k == Len(mq.msgs) + 1
             q == SentBefore(k, 0)
  <2>1. k \in Nat /\ k \notin DOMAIN mq.msgs /\ k \notin Due /\ 0 \in Nat
        BY <1>q, <1>d
  <2>2. /\ CanSend /\ Deliver(k)
        /\ timeouts' = timeouts /\ accepted' = accepted /\ intact' = intact
        /\ error \in {"ok", "full"}
        BY <1>2 DEF SendAll, CanSend
  <2>3. /\ Sound(q) /\ delivered' \in Seq(Nat) /\ owed' \in Seq(Answers)
        /\ DeliveredInOrder' /\ Len(delivered') \in Nat
        /\ Pending(q, Len(delivered'), accepted)
        /\ Partial(q)
        /\ timeouts = 0 => Flow(q, 0, owed')
    <3> HIDE DEF k
    <3>1. LET r == SentBefore(k, 0)
          IN  /\ Sound(r)
              /\ delivered' \in Seq(Nat) /\ owed' \in Seq(Answers)
              /\ DeliveredInOrder'
              /\ Pending(r, Len(delivered'), accepted)
              /\ Partial(r)
              /\ timeouts = 0 => Flow(r, IF k \in Due THEN 0 ELSE 0, owed')
          BY <2>1, <2>2, SentKeeps DEF k
    <3> QED BY <3>1
  <2>4. CASE Due = {}
    <3>1. q = mq
      <4>1. \A i \in DOMAIN mq.msgs : i # k  BY <2>1
      <4> HIDE DEF k
      <4>2. [i \in DOMAIN mq.msgs |->
               IF i \in Due /\ i < k THEN Sent(mq.msgs[i])
               ELSE IF i = k THEN [mq.msgs[i] EXCEPT !.out = 0]
               ELSE mq.msgs[i]] = [i \in DOMAIN mq.msgs |-> mq.msgs[i]]
            BY <2>4, <4>1
      <4>3. mq \in Queue /\ mq.msgs \in Seq(Message)  BY <1>0 DEF Sound, Queue
      <4>4. [i \in DOMAIN mq.msgs |-> mq.msgs[i]] = mq.msgs  BY <4>3
      <4>5. q = [mq EXCEPT !.msgs = mq.msgs]  BY <4>2, <4>4 DEF SentBefore
      <4> QED BY <4>3, <4>5 DEF Queue
    <3>2. KeepAlive(mq) /\ offset' = offset  BY <1>2, <2>4 DEF SendAll
    <3>3. timeouts = 0 => offset = 0
      <4>1. \A i \in DOMAIN mq.msgs : mq.msgs[i].state # "unsent"
            BY <2>4 DEF Due, IsDue
      <4> QED BY <4>1, <1>f DEF Flow, Begun
    <3> HIDE DEF q
    <3>4. /\ Flow(mq, 0, owed') => Flow(mq', 0, owed')
          /\ Partial(mq) => Partial(mq')
          /\ Pending(mq, Len(delivered'), accepted) =>
               Pending(mq', Len(delivered'), accepted)
          /\ error' = error \/ error' = "full"
          BY <1>0, <2>3, <3>2, KeepAliveKeeps
    <3>5. Ranges'  BY <1>0, <2>2, <2>3, <3>4 DEF Ranges
    <3>6. History'
          BY <1>0, <2>2, <2>3, <3>1, <3>4 DEF History
    <3>7. FlowInv'
          BY <1>f, <2>2, <2>3, <3>1, <3>2, <3>3, <3>4 DEF FlowInv
    <3> QED BY <3>5, <3>6, <3>7
  <2>5. CASE Due # {}
    <3>1. mq' = q /\ offset' = 0 /\ error' = error
          BY <1>2, <2>5 DEF SendAll
    <3> HIDE DEF q, k
    <3>2. Ranges'   BY <1>0, <2>2, <2>3, <3>1 DEF Ranges
    <3>3. History'  BY <2>2, <2>3, <3>1 DEF History
    <3>4. FlowInv'  BY <1>f, <2>2, <2>3, <3>1 DEF FlowInv
    <3> QED BY <3>2, <3>3, <3>4
  <2> QED BY <2>4, <2>5
<1>3. CASE SendWrong
  <2>1. timeouts # 0
        BY <1>0, <1>3, <1>f, FlowFollows DEF SendWrong
  <2>2. Ranges'   BY <1>0, <1>3 DEF SendWrong, Ranges
  <2>3. History'  BY <1>0, <1>3 DEF SendWrong, History, DeliveredInOrder
  <2>4. FlowInv'  BY <1>3, <2>1 DEF SendWrong, FlowInv
  <2> QED BY <2>2, <2>3, <2>4
<1>4. ASSUME NEW k \in Due, SendPart(k)
      PROVE  Ranges' /\ History' /\ FlowInv'
  <2> DEFINE from == IF k = FirstDue THEN Start ELSE 0
  <2>1. mq.msgs[k].size \in Nat /\ from \in Nat /\ k \in Nat
        BY <1>s, <1>q, <1>d
  <2>2. PICK out \in from .. mq.msgs[k].size - 1 :
           /\ offset' = out
           /\ IF k = FirstDue
                THEN KeepAlive(SentBefore(k, out))
                ELSE mq' = SentBefore(k, out) /\ UNCHANGED error
        BY <1>4 DEF SendPart
  <2> HIDE DEF from
  <2>3. out \in Nat /\ out < mq.msgs[k].size  BY <2>1
  <2>4. /\ Deliver(k)
        /\ timeouts' = timeouts /\ accepted' = accepted /\ intact' = intact
        /\ error \in {"ok", "full"}
        BY <1>4 DEF SendPart, CanSend
  <2> DEFINE q == SentBefore(k, out)
  <2>5. /\ Sound(q) /\ delivered' \in Seq(Nat) /\ owed' \in Seq(Answers)
        /\ DeliveredInOrder' /\ Len(delivered') \in Nat
        /\ Pending(q, Len(delivered'), accepted)
        /\ Partial(q)
        /\ timeouts = 0 => Flow(q, out, owed')
    <3>1. LET r == SentBefore(k, out)
          IN  /\ Sound(r)
              /\ delivered' \in Seq(Nat) /\ owed' \in Seq(Answers)
              /\ DeliveredInOrder'
              /\ Pending(r, Len(delivered'), accepted)
              /\ Partial(r)
              /\ timeouts = 0 => Flow(r, IF k \in Due THEN out ELSE 0, owed')
          BY <2>1, <2>3, <2>4, SentKeeps
    <3> QED BY <3>1
  <2>6. (mq' = q /\ error' = error) \/ KeepAlive(q)  BY <2>2
  <2> HIDE DEF q
  <2>7. /\ Flow(q, out, owed') => Flow(mq', out, owed')
        /\ Partial(q) => Partial(mq')
        /\ Pending(q, Len(delivered'), accepted) =>
             Pending(mq', Len(delivered'), accepted)
        /\ error' = error \/ error' = "full"
    <3>1. CASE mq' = q /\ error' = error  BY <3>1
    <3>2. CASE KeepAlive(q)  BY <3>2, <1>0, <2>5, KeepAliveKeeps
    <3> QED BY <2>6, <3>1, <3>2
  <2>8. Ranges'   BY <1>0, <2>4, <2>5, <2>7 DEF Ranges
  <2>9. History'  BY <2>4, <2>5, <2>7 DEF History
  <2>10. FlowInv' BY <1>f, <2>2, <2>4, <2>5, <2>7 DEF FlowInv
  <2> QED BY <2>8, <2>9, <2>10
<1>5. ASSUME NEW k \in Due, SendFails(k)
      PROVE  Ranges' /\ History' /\ FlowInv'
  <2> DEFINE out == mq.msgs[k].out
             q   == SentBefore(k, out)
  <2>1. /\ k \in Nat /\ k \in DOMAIN mq.msgs /\ out \in Nat
        /\ out < mq.msgs[k].size
        BY <1>0, <1>q, <1>d DEF Partial
  <2>2. /\ Follows /\ Deliver(k) /\ mq' = q /\ error' = "failed"
        /\ offset' = IF k = FirstDue THEN Start ELSE 0
        /\ timeouts' = timeouts /\ accepted' = accepted /\ intact' = intact
        BY <1>5 DEF SendFails
  <2>3. offset' = out  BY <2>1, <2>2 DEF Follows
  <2> HIDE DEF out
  <2>4. /\ Sound(q) /\ delivered' \in Seq(Nat) /\ owed' \in Seq(Answers)
        /\ DeliveredInOrder'
        /\ Pending(q, Len(delivered'), accepted)
        /\ Partial(q)
        /\ timeouts = 0 => Flow(q, out, owed')
    <3>1. LET r == SentBefore(k, out)
          IN  /\ Sound(r)
              /\ delivered' \in Seq(Nat) /\ owed' \in Seq(Answers)
              /\ DeliveredInOrder'
              /\ Pending(r, Len(delivered'), accepted)
              /\ Partial(r)
              /\ timeouts = 0 => Flow(r, IF k \in Due THEN out ELSE 0, owed')
          BY <2>1, <2>2, SentKeeps
    <3> QED BY <3>1
  <2> HIDE DEF q
  <2>5. Ranges'   BY <1>0, <2>2, <2>4 DEF Ranges
  <2>6. History'  BY <2>2, <2>4 DEF History
  <2>7. FlowInv'  BY <1>f, <2>2, <2>3, <2>4 DEF FlowInv
  <2> QED BY <2>5, <2>6, <2>7
<1>6. CASE Recv
  <2> DEFINE i == Find(Head(owed))
  <2>1. /\ owed # << >> /\ owed' = Tail(owed)
        /\ offset' = offset /\ timeouts' = timeouts /\ accepted' = accepted
        /\ delivered' = delivered /\ intact' = intact
        BY <1>6 DEF Recv
  <2>2. owed' \in Seq(Answers) /\ Head(owed) \in Answers  BY <1>0, <2>1
  <2>3. error' \in {"ok", "full", "failed", "unknown_ack"}
        BY <1>0, <1>6 DEF Recv
  <2>4. Ranges'  BY <1>0, <2>1, <2>2, <2>3 DEF Ranges
  <2>5. DeliveredInOrder' /\ Len(delivered') = Len(delivered)
        BY <1>0, <2>1 DEF DeliveredInOrder
  <2>6. CASE i = 0
    <3>1. mq' = mq  BY <1>6, <2>6 DEF Recv
    <3>2. History'  BY <1>0, <2>1, <2>5, <3>1 DEF History
    <3>3. timeouts # 0
      <4> SUFFICES ASSUME timeouts = 0 PROVE FALSE
          OBVIOUS
      <4>1. Flow(mq, offset, owed)  BY <1>f
      <4> QED BY <1>0, <2>1, <2>6, <4>1, AckKeeps
    <3>4. FlowInv'  BY <2>1, <3>3 DEF FlowInv
    <3> QED BY <2>4, <3>2, <3>4
  <2>7. CASE i # 0
    <3>1. /\ mq' = [mq EXCEPT !.msgs[i].state = "complete"]
          /\ error' = error \/ error' = "failed"
          BY <1>6, <2>7 DEF Recv
    <3>2. i \in DOMAIN mq.msgs /\ mq.msgs[i].kind = Head(owed)
      <4> DEFINE kind  == Head(owed)
                 Found == {j \in DOMAIN mq.msgs : /\ mq.msgs[j].kind = kind
                                                  /\ mq.msgs[j].state # "complete"}
      <4>1. Found # {}  BY <2>7 DEF Find
      <4>2. Found \subseteq Nat  BY <1>q
      <4>3. \E j \in Found : \A l \in Found : j <= l
            BY <4>1, <4>2, LeastExists
      <4>4. i \in Found  BY <4>1, <4>3 DEF Find
      <4> QED BY <4>4
    <3> HIDE DEF i
    <3>3. mq.msgs[i].kind # "publish"  BY <2>2, <3>2 DEF Answers
    <3> DEFINE r == [mq EXCEPT !.msgs[i].state = "complete"]
    <3>4. AnswersOnly(r)  BY <1>0, <3>2, <3>3, SetStateShape
    <3> HIDE DEF r
    <3>5. History'
      <4>1. Pending(r, Len(delivered), accepted)  BY <1>0, <3>4, AnswersKeep
      <4>2. Partial(r)  BY <1>0, <3>4, AnswersKeep
      <4>3. mq' = r     BY <3>1 DEF r
      <4> QED BY <2>1, <2>5, <4>1, <4>2, <4>3 DEF History
    <3>6. FlowInv'
      <4>1. ASSUME timeouts = 0
            PROVE  Flow(mq', offset, Tail(owed))
            BY <1>0, <1>f, <2>1, <3>1, <4>1, AckKeeps DEF i
      <4> QED BY <1>f, <2>1, <3>1, <4>1 DEF FlowInv
    <3> QED BY <2>4, <3>5, <3>6
  <2> QED BY <2>6, <2>7
<1>7. CASE RecvFails
  <2>1. Ranges'   BY <1>0, <1>7 DEF RecvFails, Ranges
  <2>2. History'  BY <1>0, <1>7 DEF RecvFails, History, DeliveredInOrder
  <2>3. FlowInv'  BY <1>f, <1>7 DEF RecvFails, FlowInv
  <2> QED BY <2>1, <2>2, <2>3
<1>8. ASSUME NEW i \in DOMAIN mq.msgs, Expire(i)
      PROVE  Ranges' /\ History' /\ FlowInv'
  <2>1. /\ mq' = [mq EXCEPT !.msgs[i].state = "late"]
        /\ mq.msgs[i].state = "awaiting"
        /\ timeouts < TimeoutLimit /\ timeouts' = timeouts + 1
        /\ offset' = offset /\ error' = error /\ accepted' = accepted
        /\ delivered' = delivered /\ owed' = owed /\ intact' = intact
        BY <1>8 DEF Expire
  <2>2. mq.msgs[i].kind # "publish"
        BY <1>0, <2>1 DEF Pending, IsOpen
  <2> DEFINE r == [mq EXCEPT !.msgs[i].state = "late"]
  <2>3. AnswersOnly(r)  BY <1>0, <2>2, SetStateShape
  <2> HIDE DEF r
  <2>4. timeouts' \in 0 .. TimeoutLimit /\ timeouts' # 0
        BY <1>0, <2>1, LimitAssumption
  <2>5. Ranges'   BY <1>0, <2>1, <2>4 DEF Ranges
  <2>6. History'
    <3>1. Pending(r, Len(delivered), accepted)  BY <1>0, <2>3, AnswersKeep
    <3>2. Partial(r)  BY <1>0, <2>3, AnswersKeep
    <3>3. mq' = r     BY <2>1 DEF r
    <3> QED BY <1>0, <2>1, <3>1, <3>2, <3>3 DEF History, DeliveredInOrder
  <2>7. FlowInv'  BY <2>4 DEF FlowInv
  <2> QED BY <2>5, <2>6, <2>7
<1>9. CASE UNCHANGED vars
      BY <1>0, <1>f, <1>9 DEF vars, Ranges, History, FlowInv, DeliveredInOrder
<1> QED BY <1>1, <1>2, <1>3, <1>4, <1>5, <1>6, <1>7, <1>8, <1>9 DEF Next

\* The invariant the theorems below follow from.
LEMMA HInvAlways == Spec => []HInv
BY InitHInv, NextHInv, PTL DEF Spec

\* The variables keep their types: among others the queue never reaches past
\* its buffer, no message on the wire is more than whole, and nothing arrives
\* that mqtt_publish did not accept.
THEOREM TypeCorrect == Spec => []TypeOK
<1>1. HInv => TypeOK
  <2> SUFFICES ASSUME HInv PROVE TypeOK
      OBVIOUS
  <2>1. /\ mq \in Queue /\ Fits(mq) /\ offset \in Nat /\ Ranges /\ Partial(mq)
        /\ DeliveredInOrder /\ Len(delivered) <= accepted
        BY DEF HInv, IInv, Sound, History, Pending
  <2>2. mq.curr \in 0 .. BufSize
    <3>1. Len(mq.msgs) \in Nat /\ mq.curr \in Nat  BY <2>1 DEF Queue
    <3>2. Header * Len(mq.msgs) \in Nat  BY <3>1, SizeAssumption
    <3>3. mq.curr + Header * Len(mq.msgs) <= BufSize  BY <2>1 DEF Fits
    <3> HIDE DEF Queue
    <3> QED BY <3>1, <3>2, <3>3, SizeAssumption
  <2>3. mq \in [msgs : Seq(Message), curr : 0 .. BufSize]
        BY <2>1, <2>2 DEF Queue
  <2>4. delivered \in Seq(1 .. accepted)
    <3>1. delivered \in Seq(Nat) /\ accepted \in Nat  BY <2>1 DEF Ranges
    <3>2. \A n \in DOMAIN delivered : delivered[n] \in 1 .. accepted
          BY <2>1, <3>1 DEF DeliveredInOrder
    <3> QED BY <3>1, <3>2
  <2> QED BY <2>1, <2>3, <2>4 DEF TypeOK, Ranges, Partial, Answers
<1> QED BY <1>1, HInvAlways, PTL

\* As long as every answer comes in time __mqtt_send hands the socket whole
\* messages, wherever it was interrupted and whatever was queued, answered and
\* cleaned away in between.
THEOREM FramingIsKept == Spec => []FramingHolds
<1>1. HInv => FramingHolds  BY DEF HInv, FlowInv, FramingHolds
<1> QED BY <1>1, HInvAlways, PTL

\* As long as every answer comes in time, __mqtt_recv finds the message each
\* answer of the broker is for.
THEOREM AcksAreMatched == Spec => []AcksMatch
<1>1. HInv => AcksMatch  BY DEF HInv, FlowInv, AcksMatch
<1> QED BY <1>1, HInvAlways, PTL

\* Also when answers are late and when a send fails, the broker gets the
\* messages of mqtt_publish in the order of the calls, each once and none left
\* out.
THEOREM DeliveryIsInOrder == Spec => []DeliveredInOrder
<1>1. HInv => DeliveredInOrder  BY DEF HInv, History
<1> QED BY <1>1, HInvAlways, PTL

\* Whatever errors there were, a message that was accepted and has not arrived
\* is in the queue and still to be sent.
THEOREM AcceptedIsQueued == Spec => []NothingForgotten
<1>1. HInv => NothingForgotten
  BY DEF HInv, History, Pending, IsOpen, NothingForgotten
<1> QED BY <1>1, HInvAlways, PTL

-----------------------------------------------------------------------------
(* The client implements MessageDelivery.                                   *)

\* What has arrived, as MessageDelivery writes it.
LEMMA UpTo ==
  ASSUME NEW d \in Seq(Nat), \A i \in DOMAIN d : d[i] = i
  PROVE  d = [i \in 1 .. Len(d) |-> i]
<1>1. d = [i \in 1 .. Len(d) |-> d[i]] /\ DOMAIN d = 1 .. Len(d)  OBVIOUS
<1>2. [i \in 1 .. Len(d) |-> d[i]] = [i \in 1 .. Len(d) |-> i]
      BY <1>1
<1> QED BY <1>1, <1>2

\* A step that accepts and hands over nothing.
LEMMA LinkStep ==
  ASSUME HInv, UNCHANGED <<accepted, delivered>>, Link' \in Delivery!Worse(Link)
  PROVE  [Delivery!Next]_(Delivery!dvars)
<1>1. CASE Link = "broken"
      BY <1>1 DEF Delivery!Worse, Delivery!dvars
<1>2. CASE Link # "broken"
  <2>1. /\ Len(delivered) \in Len(delivered) .. accepted
        /\ delivered' = [i \in 1 .. Len(delivered) |-> i]
    <3>1. delivered \in Seq(Nat) /\ DeliveredInOrder /\ Pending(mq, Len(delivered), accepted)
          BY DEF HInv, Ranges, History
    <3>2. delivered = [i \in 1 .. Len(delivered) |-> i]
          BY <3>1, UpTo DEF DeliveredInOrder
    <3> QED BY <3>1, <3>2 DEF Pending, HInv, IInv
  <2>2. Delivery!Deliver  BY <1>2, <2>1 DEF Delivery!Deliver
  <2> QED BY <2>2 DEF Delivery!Next
<1> QED BY <1>1, <1>2

\* A step of __mqtt_send that hands messages over.
LEMMA DeliverStep ==
  ASSUME HInv, HInv', CanSend, UNCHANGED accepted, NEW k, Deliver(k),
         Link' \in Delivery!Worse(Link)
  PROVE  [Delivery!Next]_(Delivery!dvars)
<1>1. Len(delivered) <= Len(delivered')
  <2>1. Sound(mq) /\ delivered \in Seq(Nat) /\ owed \in Seq(Answers)
        BY DEF HInv, IInv, Ranges
  <2>2. DeliveredGrows(k)  BY <2>1, DeliverShape
  <2>3. \E c \in Nat : Len(delivered') = Len(delivered) + c
        BY <2>2 DEF DeliveredGrows, Lists
  <2> QED BY <2>1, <2>3
<1>2. /\ delivered' = [i \in 1 .. Len(delivered') |-> i]
      /\ Len(delivered') \in Nat /\ Len(delivered') <= accepted'
  <2>1. /\ delivered' \in Seq(Nat) /\ \A i \in DOMAIN delivered' : delivered'[i] = i
        /\ Len(delivered') <= accepted'
        BY DEF HInv, Ranges, History, DeliveredInOrder, Pending
  <2>2. delivered' = [i \in 1 .. Len(delivered') |-> i]
        BY <2>1, UpTo
  <2> QED BY <2>1, <2>2
<1>3. Len(delivered) \in Nat /\ accepted \in Nat
      BY DEF HInv, IInv, Ranges
<1>4. Len(delivered') \in Len(delivered) .. accepted
      BY <1>1, <1>2, <1>3
<1>5. Link # "broken"  BY DEF CanSend, Link
<1>6. Delivery!Deliver  BY <1>2, <1>4, <1>5, Zenon DEF Delivery!Deliver
<1> QED BY <1>6 DEF Delivery!Next

\* What a step may make of the error: a full buffer is the only one after
\* which the client goes on, and it comes after none.
LEMMA ErrorWorsens ==
  ASSUME Ranges, UNCHANGED intact,
         \/ error' = error
         \/ error = "ok" /\ error' = "full"
         \/ error' \in {"failed", "unknown_ack"}
  PROVE  Link' \in Delivery!Worse(Link)
BY DEF Ranges, Link, Delivery!Worse

\* The messages of mqtt_publish are accepted while the link is open only,
\* arrive in order as long as it is not broken, and no error is taken back.
THEOREM ClientDelivers == Spec => DeliversMessages
<1>1. Init => Delivery!Init
      BY DEF Init, Link, Delivery!Init
<1>2. HInv /\ HInv' /\ [Next]_vars => [Delivery!Next]_(Delivery!dvars)
  <2> SUFFICES ASSUME HInv, HInv', [Next]_vars
               PROVE  [Delivery!Next]_(Delivery!dvars)
      OBVIOUS
  <2>0. Ranges  BY DEF HInv
  <2>1. ASSUME NEW size \in PublishSizes, Publish(size)
        PROVE  [Delivery!Next]_(Delivery!dvars)
    <3>1. /\ intact /\ error = "ok" /\ error' \in {"ok", "full"}
          /\ accepted' = IF error' = "ok" THEN accepted + 1 ELSE accepted
          /\ delivered' = delivered /\ intact' = intact
          BY <2>1 DEF Publish, TryPack
    <3>2. CASE error' = "ok"
      <4>1. Link = "open" /\ Link' = "open"  BY <3>1, <3>2 DEF Link
      <4> QED BY <3>1, <3>2, <4>1 DEF Delivery!Next, Delivery!Accept
    <3>3. CASE error' = "full"
          BY <2>0, <3>1, <3>3, ErrorWorsens, LinkStep
    <3> QED BY <3>1, <3>2, <3>3
  <2>2. CASE SendAll
    <3>1. /\ CanSend /\ Deliver(Len(mq.msgs) + 1)
          /\ accepted' = accepted /\ intact' = intact
          /\ error' = error \/ (error = "ok" /\ error' = "full")
          BY <2>2 DEF SendAll, KeepAlive, TryPack
    <3> QED BY <2>0, <3>1, ErrorWorsens, DeliverStep
  <2>3. ASSUME NEW k \in Due, SendPart(k)
        PROVE  [Delivery!Next]_(Delivery!dvars)
    <3>1. /\ CanSend /\ Deliver(k) /\ accepted' = accepted /\ intact' = intact
          /\ error' = error \/ (error = "ok" /\ error' = "full")
          BY <2>3 DEF SendPart, KeepAlive, TryPack
    <3> QED BY <2>0, <3>1, ErrorWorsens, DeliverStep
  <2>4. ASSUME NEW k \in Due, SendFails(k)
        PROVE  [Delivery!Next]_(Delivery!dvars)
    <3>1. /\ CanSend /\ Deliver(k) /\ accepted' = accepted /\ intact' = intact
          /\ error' = "failed"
          BY <2>4 DEF SendFails
    <3> QED BY <2>0, <3>1, ErrorWorsens, DeliverStep
  <2>5. CASE SendWrong
    <3>1. UNCHANGED <<accepted, delivered>> /\ Link' = "broken"
          BY <2>5 DEF SendWrong, Link
    <3>2. Link' \in Delivery!Worse(Link)
          BY <3>1 DEF Delivery!Worse
    <3> QED BY <3>1, <3>2, LinkStep
  <2>6. CASE Recv \/ RecvFails
    <3>1. /\ UNCHANGED <<accepted, delivered, intact>>
          /\ error' = error \/ error' \in {"failed", "unknown_ack"}
          BY <2>6 DEF Recv, RecvFails
    <3> QED BY <2>0, <3>1, ErrorWorsens, LinkStep
  <2>7. ASSUME NEW i \in DOMAIN mq.msgs, Expire(i)
        PROVE  [Delivery!Next]_(Delivery!dvars)
    <3>1. UNCHANGED <<accepted, delivered, intact, error>>
          BY <2>7 DEF Expire
    <3> QED BY <2>0, <3>1, ErrorWorsens, LinkStep
  <2>8. CASE UNCHANGED vars
    <3>1. UNCHANGED <<accepted, delivered, intact, error>>
          BY <2>8 DEF vars
    <3> QED BY <2>0, <3>1, ErrorWorsens, LinkStep
  <2> QED BY <2>1, <2>2, <2>3, <2>4, <2>5, <2>6, <2>7, <2>8 DEF Next
<1> QED BY <1>1, <1>2, HInvAlways, PTL DEF Spec, DeliversMessages, Delivery!Spec
=============================================================================
