----------------------------- MODULE MqttClient ----------------------------
(***************************************************************************)
(* 3rdparty/MQTT-C/src/mqtt.c, the client that DataTrans sends with, from  *)
(* the return of mqtt_connect on and as far as DataTrans uses it: CONNECT, *)
(* PUBLISH with QoS 0, PINGREQ and the broker's answers to them.  Every    *)
(* action is one critical section of client->mutex.  The queue of messages *)
(* is kept in one buffer, with the messages growing from its start and     *)
(* their headers from its end; a socket that does not block takes as much  *)
(* as it likes of what it is given, and the rest waits for the next call.  *)
(*                                                                         *)
(* The broker answers what has reached it whole, in order.  The model ends *)
(* where the stream of bytes to it breaks.                                 *)
(***************************************************************************)
EXTENDS Integers, Sequences, FiniteSets

CONSTANTS
    BufSize,        \* size of the send buffer, in some unit
    Header,         \* sizeof(struct mqtt_queued_message)
    ConnectSize,    \* sizes of the messages
    PingSize,
    PublishSizes,
    PublishLimit,   \* bound of the model: messages that are accepted
    TimeoutLimit    \* bound of the model: answers that take over 30 seconds

ASSUME SizeAssumption ==
    /\ BufSize \in Nat /\ Header \in Nat \ {0}
    /\ {ConnectSize, PingSize} \cup PublishSizes \subseteq Nat \ {0}
    /\ ConnectSize + Header <= BufSize  \* or mqtt_connect fails

ASSUME LimitAssumption == PublishLimit \in Nat /\ TimeoutLimit \in Nat

VARIABLES
    mq,             \* client->mq: its messages, and where the next one goes
    offset,         \* client->send_offset
    error,          \* client->error, which is never cleared again
    timeouts,       \* client->number_of_timeouts, counted when time is up
    accepted,       \* PUBLISH messages that mqtt_publish has queued
    delivered,      \* those that have reached the broker, in that order
    owed,           \* what the broker has received and has not answered yet
    intact          \* the bytes the broker gets are whole messages

vars == <<mq, offset, error, timeouts, accepted, delivered, owed, intact>>

Kinds == {"connect", "publish", "ping"}

\* "late": awaits an answer and has done so for longer than response_timeout.
\* out: of its bytes, those on the wire since it was last begun.
Message == [kind : Kinds, id : Nat, start : Nat, size : Nat \ {0}, out : Nat,
            state : {"unsent", "awaiting", "late", "complete"}]

TypeOK ==
    /\ mq \in [msgs : Seq(Message), curr : 0 .. BufSize]
    /\ \A i \in DOMAIN mq.msgs : mq.msgs[i].out < mq.msgs[i].size
    /\ offset \in Nat
    /\ error \in {"ok", "full", "failed", "unknown_ack"}
    /\ timeouts \in 0 .. TimeoutLimit
    /\ accepted \in 0 .. PublishLimit
    /\ delivered \in Seq(1 .. accepted)
    /\ owed \in Seq({"connect", "ping"})
    /\ intact \in BOOLEAN

-----------------------------------------------------------------------------
(* The message queue.                                                       *)

\* The operators named Faulty... are slips the properties below must catch;
\* each takes the place of the definition that follows it in a mutant.
FaultyRoomForNoHeader(q) == BufSize - Header * Len(q.msgs) - q.curr

\* mqtt_mq_currsz: up to where the header of one more message would be.
Room(q) == BufSize - Header * (Len(q.msgs) + 1) - q.curr

\* mqtt_mq_register
Register(q, kind, id, size) ==
    [msgs |-> Append(q.msgs, [kind |-> kind, id |-> id, start |-> q.curr,
                              size |-> size, out |-> 0, state |-> "unsent"]),
     curr |-> q.curr + size]

FaultyCleanAllOrNothing(q) ==
    IF q.msgs # << >> /\ q.msgs[1].state = "complete"
      THEN [msgs |-> << >>, curr |-> 0]
      ELSE q

\* mqtt_mq_clean: the messages before the first that is not complete go, and
\* the others move to the start of the buffer.
Clean(q) ==
    LET Open == {i \in DOMAIN q.msgs : q.msgs[i].state # "complete"}
        head == CHOOSE i \in Open : \A j \in Open : i <= j
        gone == q.msgs[head].start
    IN  IF Open = {}
          THEN [msgs |-> << >>, curr |-> 0]
          ELSE [msgs |-> [i \in 1 .. Len(q.msgs) - head + 1 |->
                            [q.msgs[head + i - 1] EXCEPT !.start = @ - gone]],
                curr |-> q.curr - gone]

FaultyTryPackUnchecked(q, kind, id, size) ==
    /\ mq' = Register(IF size <= Room(q) THEN q ELSE Clean(q), kind, id, size)
    /\ UNCHANGED error

\* MQTT_CLIENT_TRY_PACK without an error so far: when there is no room the
\* queue is cleaned, and when there is still none that is the error.
TryPack(q, kind, id, size) ==
    IF size <= Room(q)
      THEN /\ mq' = Register(q, kind, id, size)
           /\ UNCHANGED error
      ELSE IF size <= Room(Clean(q))
        THEN /\ mq' = Register(Clean(q), kind, id, size)
             /\ UNCHANGED error
        ELSE /\ mq' = Clean(q)
             /\ error' = "full"

\* mqtt_mq_find without a packet id; 0 if there is none.
Find(kind) ==
    LET Found == {i \in DOMAIN mq.msgs : /\ mq.msgs[i].kind = kind
                                         /\ mq.msgs[i].state # "complete"}
    IN  IF Found = {} THEN 0 ELSE CHOOSE i \in Found : \A j \in Found : i <= j

Init ==
    /\ mq = Register([msgs |-> << >>, curr |-> 0], "connect", 0, ConnectSize)
    /\ offset = 0
    /\ error = "ok"
    /\ timeouts = 0
    /\ accepted = 0
    /\ delivered = << >>
    /\ owed = << >>
    /\ intact = TRUE

-----------------------------------------------------------------------------
(* The operations.                                                          *)

\* mqtt_publish.  After an error it returns that and has changed nothing.
Publish(size) ==
    /\ intact /\ error = "ok" /\ accepted < PublishLimit
    /\ TryPack(mq, "publish", accepted + 1, size)
    /\ accepted' = IF error' = "ok" THEN accepted + 1 ELSE accepted
    /\ UNCHANGED <<offset, timeouts, delivered, owed, intact>>

FaultyCanSend == intact /\ error = "ok"

FaultyCanSendAfterErrors == intact

\* __mqtt_send does nothing after an error, but a full buffer is none to it.
CanSend == intact /\ error \in {"ok", "full"}

IsDue(m) == m.state \in {"unsent", "late"}
Due      == {i \in DOMAIN mq.msgs : IsDue(mq.msgs[i])}
FirstDue == CHOOSE i \in Due : \A j \in Due : i <= j

FaultyStart == 0

\* Where the first message due is gone on with; a message whose answer is
\* late is sent again from its first byte.  The others start at 0.
Start == IF mq.msgs[FirstDue].state = "late" THEN 0 ELSE offset

\* The byte that is sent first is the one the broker waits for.
Follows ==
    /\ Start = offset
    /\ \A i \in DOMAIN mq.msgs :
         mq.msgs[i].out = IF i = FirstDue THEN offset ELSE 0

FaultySentAwaitsNothing(m) == [m EXCEPT !.out = 0, !.state = "complete"]

\* What becomes of a message that has been sent whole.
Sent(m) == [m EXCEPT !.out   = 0,
                     !.state = IF m.kind = "publish" THEN "complete"
                                                     ELSE "awaiting"]

\* The places in S in their order; there is one such sequence.
Ascending(S) ==
    {e \in [1 .. Cardinality(S) -> S] :
        \A m, n \in DOMAIN e : m < n => e[m] < e[n]}

\* The messages due before place k: those that are for the subscribers, and
\* those the broker is to answer.
Payload(k) == {i \in Due : i < k /\ mq.msgs[i].kind = "publish"}
Asking(k)  == {i \in Due : i < k /\ mq.msgs[i].kind # "publish"}

\* The broker gets the messages that are due before place k whole.
Deliver(k) ==
    \E p \in Ascending(Payload(k)), a \in Ascending(Asking(k)) :
        /\ delivered' = delivered \o [n \in DOMAIN p |-> mq.msgs[p[n]].id]
        /\ owed' = owed \o [n \in DOMAIN a |-> mq.msgs[a[n]].kind]

\* The queue when those are sent and out bytes of the message at k are.
SentBefore(k, out) ==
    [mq EXCEPT !.msgs = [i \in DOMAIN mq.msgs |->
        IF i \in Due /\ i < k THEN Sent(mq.msgs[i])
        ELSE IF i = k THEN [mq.msgs[i] EXCEPT !.out = out]
        ELSE mq.msgs[i]]]

\* The keep-alive at the end of __mqtt_send.  400 seconds may have gone by
\* since a message was last sent whole, which is so before the first one too:
\* time_of_last_send is not initialised.
KeepAlive(q) ==
    \/ mq' = q /\ UNCHANGED error
    \/ error = "ok" /\ TryPack(q, "ping", 0, PingSize)

\* __mqtt_send, when the socket takes all there is ...
SendAll ==
    /\ CanSend
    /\ Due # {} => Follows
    /\ Deliver(Len(mq.msgs) + 1)
    /\ IF Due = {}
         THEN KeepAlive(mq) /\ UNCHANGED offset
         ELSE /\ mq' = SentBefore(Len(mq.msgs) + 1, 0)
              /\ offset' = 0
              /\ UNCHANGED error
    /\ UNCHANGED <<timeouts, accepted, intact>>

\* ... when it takes no more than some bytes of the message at k ...
SendPart(k) ==
    /\ CanSend /\ Follows
    /\ Deliver(k)
    /\ LET from == IF k = FirstDue THEN Start ELSE 0
       IN  \E out \in from .. mq.msgs[k].size - 1 :
              /\ offset' = out
              /\ IF k = FirstDue
                   THEN KeepAlive(SentBefore(k, out))
                   ELSE mq' = SentBefore(k, out) /\ UNCHANGED error
    /\ UNCHANGED <<timeouts, accepted, intact>>

\* ... when it fails there ...
SendFails(k) ==
    /\ CanSend /\ Follows
    /\ Deliver(k)
    /\ mq' = SentBefore(k, mq.msgs[k].out)
    /\ offset' = IF k = FirstDue THEN Start ELSE 0
    /\ error' = "failed"
    /\ UNCHANGED <<timeouts, accepted, intact>>

\* ... and when the bytes it is given are not those that are to follow.
SendWrong ==
    /\ CanSend /\ Due # {} /\ ~Follows
    /\ intact' = FALSE
    /\ UNCHANGED <<mq, offset, error, timeouts, accepted, delivered, owed>>

\* __mqtt_recv, whatever the error so far, for one answer of the broker; a
\* refused connection is an error.
Recv ==
    /\ intact /\ owed # << >>
    /\ owed' = Tail(owed)
    /\ LET i == Find(Head(owed))
       IN  IF i = 0
             THEN error' = "unknown_ack" /\ UNCHANGED mq
             ELSE /\ mq' = [mq EXCEPT !.msgs[i].state = "complete"]
                  /\ \/ UNCHANGED error
                     \/ Head(owed) = "connect" /\ error' = "failed"
    /\ UNCHANGED <<offset, timeouts, accepted, delivered, intact>>

\* __mqtt_recv when the socket fails or is closed.
RecvFails ==
    /\ intact
    /\ error' = "failed"
    /\ UNCHANGED <<mq, offset, timeouts, accepted, delivered, owed, intact>>

\* Time passes.
Expire(i) ==
    /\ intact /\ timeouts < TimeoutLimit
    /\ mq.msgs[i].state = "awaiting"
    /\ mq' = [mq EXCEPT !.msgs[i].state = "late"]
    /\ timeouts' = timeouts + 1
    /\ UNCHANGED <<offset, error, accepted, delivered, owed, intact>>

Next ==
    \/ \E size \in PublishSizes : Publish(size)
    \/ SendAll \/ SendWrong
    \/ \E k \in Due : SendPart(k) \/ SendFails(k)
    \/ Recv \/ RecvFails
    \/ \E i \in DOMAIN mq.msgs : Expire(i)

Spec == Init /\ [][Next]_vars

\* The refresher calls mqtt_sync every 20 ms, and the broker reads: the socket
\* takes at least one more byte of what is due again and again.
Progress == SendAll \/ \E k \in Due : SendPart(k) /\ (k = FirstDue => offset' > offset)

FairSpec == Spec /\ WF_vars(Progress)

-----------------------------------------------------------------------------
\* The messages lie one after the other in the buffer, up to curr, and end
\* before the headers: no message or header overwrites another.
Fits(q) ==
    /\ \A i \in DOMAIN q.msgs :
         /\ i = 1 => q.msgs[i].start = 0
         /\ q.msgs[i].start + q.msgs[i].size =
              IF i = Len(q.msgs) THEN q.curr ELSE q.msgs[i + 1].start
    /\ q.curr + Header * Len(q.msgs) <= BufSize

Layout == Fits(mq)

\* As long as every answer comes within 30 seconds the bytes on the wire are
\* whole messages, however the socket cuts them up and whatever is queued,
\* answered and cleaned away between two parts of a message.
FramingHolds == timeouts = 0 => intact

\* As long as they do, no answer of the broker is taken for one to a message
\* that was never sent.
AcksMatch == timeouts = 0 => error # "unknown_ack"

\* The broker gets the published messages in the order of the calls, each
\* once and none left out.
DeliveredInOrder == \A i \in DOMAIN delivered : delivered[i] = i

\* A message that was accepted and has not arrived is in the queue and still to
\* be sent, whatever errors there were since and whatever was cleaned away.
NothingForgotten ==
    \A id \in Len(delivered) + 1 .. accepted :
        \E i \in DOMAIN mq.msgs : /\ mq.msgs[i].kind = "publish"
                                  /\ mq.msgs[i].id = id
                                  /\ mq.msgs[i].state = "unsent"

\* The client implements MessageDelivery, late answers and failing sends
\* included: no error is ever taken back, none but a full buffer lets a message
\* through, and nothing is accepted after one.
Link ==
    CASE intact /\ error = "ok"   -> "open"
      [] intact /\ error = "full" -> "full"
      [] OTHER                    -> "broken"
Delivery == INSTANCE MessageDelivery WITH link <- Link
DeliversMessages == Delivery!Spec

\* What mqtt_publish has accepted reaches the broker, unless the connection
\* breaks: also what was queued before the buffer was full.
PublishesArrive ==
    \A id \in 1 .. PublishLimit :
        accepted >= id ~> \/ Len(delivered) >= id
                          \/ error \notin {"ok", "full"}
                          \/ timeouts > 0
=============================================================================
