----------------------------- MODULE DataTrans -----------------------------
(***************************************************************************)
(* src/data_trans.cpp: the socket, buffers and MQTT client of a DataTrans  *)
(* object and the refresher thread that each init() starts, as a caller    *)
(* sees them that calls init(), send_message() and deinit() in this order, *)
(* any number of times, and destroys the object at any time in between.    *)
(* main() has its calls commented out; they are in this order.             *)
(*                                                                         *)
(* A session is what one init() makes: a number, which stands for its      *)
(* socket, its two buffers and its thread.  client_, with its mutex, is a  *)
(* member of the object and shared by all sessions.  What the client does  *)
(* with its messages is in MqttClient; here a call of it works or fails.   *)
(***************************************************************************)
EXTENDS Naturals

CONSTANT SessionMax     \* bound of the model: how often init() gets a socket

Sessions == 1 .. SessionMax
None     == 0           \* no session
Main     == SessionMax + 1      \* the caller, among those who lock the mutex

ASSUME SessionAssumption == SessionMax \in Nat

VARIABLES
    step,               \* where the caller is
    last,               \* the sessions are 1 .. last
    held,               \* session of sockfd_, sendbuf_ and recvbuf_
    live,               \* sessions whose socket and buffers are not released
    daemon,             \* client_daemon_; None when its value is indeterminate
    buffers,            \* the session whose buffers client_ points to
    error,              \* client_.error
    owner,              \* client_.mutex: who has it locked, None if nobody
    published,          \* what mqtt_publish made of the message being sent
    at,                 \* where the thread of each session is
    cancelled           \* threads pthread_cancel has been called for

caller  == <<step, last, held, live, daemon>>
client  == <<buffers, error, owner>>
threads == <<at, cancelled>>
vars    == <<caller, client, published, threads>>

\* "new": no session; "ready": init() has returned 0; "gone": destroyed;
\* "crashed": the process is dead
Idle   == {"new", "ready", "gone"}
Making == {"sendbuf", "recvbuf", "client", "connect", "create"}    \* in init()
Caller == Idle \cup Making \cup {"publish", "report", "deinit", "destroy", "crashed"}
Inside == {"recv", "parse", "send"}         \* with the mutex locked
Thread == Inside \cup {"none", "loop", "gap", "sleep", "ended"}
Running(t) == at[t] \notin {"none", "ended"}

TypeOK ==
    /\ step \in Caller
    /\ last \in 0 .. SessionMax
    /\ held \in {None, last}
    /\ live \subseteq Sessions
    /\ daemon \in 0 .. last
    /\ buffers \in 0 .. last
    /\ error \in {"ok", "not_connected", "full", "failed"}
    /\ owner \in 0 .. Main
    /\ published \in BOOLEAN
    /\ at \in [Sessions -> Thread]
    /\ cancelled \subseteq Sessions

Init ==
    /\ step = "new" /\ last = 0
    /\ held = None /\ live = {} /\ daemon = None
    /\ buffers = None /\ error = "not_connected" /\ owner = None
    /\ published = FALSE
    /\ at = [t \in Sessions |-> "none"]
    /\ cancelled = {}

-----------------------------------------------------------------------------
(* The caller.                                                              *)

\* release(): each of the three is released and forgotten, if it is there.
Release == held' = None /\ live' = live \ {held}

\* init(): a socket of this session.  One that cannot be opened is no step.
OpenSocket ==
    /\ step = "new" /\ last < SessionMax
    /\ held = None
    /\ last' = last + 1
    /\ held' = last'
    /\ live' = live \cup {last'}
    /\ step' = "sendbuf"
    /\ UNCHANGED <<daemon, client, published, threads>>

\* The operators named Faulty... are slips the properties below must catch;
\* each takes the place of the definition that follows it in a mutant.
FaultyAllocateSendKeepsSocket ==
    /\ step = "sendbuf"
    /\ step' \in {"recvbuf", "new"}
    /\ UNCHANGED <<last, held, live, daemon, client, published, threads>>

\* The first buffer; without memory for it the socket is closed again.
AllocateSend ==
    /\ step = "sendbuf"
    /\ \/ step' = "recvbuf" /\ UNCHANGED <<held, live>>
       \/ step' = "new" /\ Release
    /\ UNCHANGED <<last, daemon, client, published, threads>>

\* The second one; without it the socket and the first are given back.
AllocateRecv ==
    /\ step = "recvbuf"
    /\ \/ step' = "client" /\ UNCHANGED <<held, live>>
       \/ step' = "new" /\ Release
    /\ UNCHANGED <<last, daemon, client, published, threads>>

\* mqtt_init: a new mutex, whoever holds the old one, which stays locked
\* until mqtt_connect.  It fails only for a null pointer, and has none here.
InitClient ==
    /\ step = "client"
    /\ buffers' = held
    /\ error' = "not_connected"
    /\ owner' = Main
    /\ step' = "connect"
    /\ UNCHANGED <<last, held, live, daemon, published, threads>>

FaultyConnectGoesOn ==
    /\ step = "connect"
    /\ owner' = None
    /\ \/ error' = "ok"
       \/ error = "not_connected" /\ error' = "full"
       \/ error \in {"full", "failed"} /\ UNCHANGED error
    /\ step' = "create"
    /\ IF error' = "ok" THEN UNCHANGED <<held, live>> ELSE Release
    /\ UNCHANGED <<last, daemon, buffers, published, threads>>

\* mqtt_connect queues a message, which must fit in the buffer; then
\* client_.error is tested, which an old refresher may have set meanwhile.
Connect ==
    /\ step = "connect"
    /\ owner' = None
    /\ \/ error' = "ok"
       \/ error = "not_connected" /\ error' = "full"
       \/ error \in {"full", "failed"} /\ UNCHANGED error
    /\ IF error' = "ok" THEN step' = "create" /\ UNCHANGED <<held, live>>
                        ELSE step' = "new" /\ Release
    /\ UNCHANGED <<last, daemon, buffers, published, threads>>

\* A failing pthread_create leaves client_daemon_ indeterminate.
CreateThread ==
    /\ step = "create"
    /\ \/ /\ at' = [at EXCEPT ![last] = "loop"]
          /\ daemon' = last
          /\ step' = "ready"
          /\ UNCHANGED <<held, live>>
       \/ /\ Release
          /\ daemon' = None
          /\ step' = "new"
          /\ UNCHANGED at
    /\ UNCHANGED <<last, client, published, cancelled>>

SendMessage ==
    /\ step = "ready"
    /\ step' = "publish"
    /\ UNCHANGED <<last, held, live, daemon, client, published, threads>>

\* mqtt_publish, one critical section: after an error nothing is queued; a
\* message that cannot be packed or does not fit is an error.
Publish ==
    /\ step = "publish" /\ owner = None
    /\ \/ error # "ok" /\ published' = FALSE /\ UNCHANGED error
       \/ error = "ok" /\ published' = TRUE  /\ UNCHANGED error
       \/ error = "ok" /\ published' = FALSE /\ error' \in {"full", "failed"}
    /\ step' = "report"
    /\ UNCHANGED <<last, held, live, daemon, buffers, owner, threads>>

\* Without the mutex, client_.error as it is now decides what is returned.
Report ==
    /\ step = "report"
    /\ step' = "ready"
    /\ UNCHANGED <<last, held, live, daemon, client, published, threads>>

\* deinit(), also from the destructor: everything is released first ...
Deinit ==
    /\ step \in {"new", "ready"}
    /\ step' \in {"deinit", "destroy"}
    /\ Release
    /\ UNCHANGED <<last, daemon, client, published, threads>>

FaultyCancelUnchecked ==
    /\ step \in {"deinit", "destroy"}
    /\ cancelled' = cancelled \cup {daemon}
    /\ step' = IF step = "deinit" THEN "new" ELSE "gone"
    /\ UNCHANGED <<last, held, live, daemon, client, published, at>>

FaultyCancelIfConnected ==
    /\ step \in {"deinit", "destroy"}
    /\ IF held = None
         THEN UNCHANGED cancelled
         ELSE cancelled' = cancelled \cup {daemon}
    /\ step' = IF step = "deinit" THEN "new" ELSE "gone"
    /\ UNCHANGED <<last, held, live, daemon, client, published, at>>

\* ... then the thread is told to stop, and not waited for.  pthread_cancel
\* does nothing to a thread that has ended, as none is ever joined; of an
\* indeterminate client_daemon_ it makes nothing or a crash.
Cancel ==
    /\ step \in {"deinit", "destroy"}
    /\ IF daemon = None
         THEN UNCHANGED cancelled
         ELSE cancelled' = cancelled \cup {daemon}
    /\ \/ step' = IF step = "deinit" THEN "new" ELSE "gone"
       \/ daemon = None /\ step' = "crashed"
    /\ UNCHANGED <<last, held, live, daemon, client, published, at>>

-----------------------------------------------------------------------------
(* The refresher of session t: mqtt_sync, then a sleep of 20 ms.  It can be *)
(* cancelled in recv, in send and in the sleep, and not at a mutex: what it *)
(* has locked stays locked.  It works on client_, whatever init() or        *)
(* release() have made of it, and on what is left of it after the           *)
(* destructor.                                                              *)

Go(t, from, to) == step # "crashed" /\ at[t] = from
                   /\ at' = [at EXCEPT ![t] = to]

\* mqtt_sync takes the mutex for __mqtt_recv, and once more for __mqtt_send.
Lock(t) ==
    /\ owner = None
    /\ Go(t, "loop", "recv") \/ Go(t, "gap", "send")
    /\ owner' = t
    /\ UNCHANGED <<caller, buffers, error, published, cancelled>>

\* recv() on the socket, the last one of this __mqtt_recv.
Recv(t) ==
    /\ Go(t, "recv", IF t \in cancelled THEN "ended" ELSE "parse")
    /\ UNCHANGED <<caller, client, published, cancelled>>

FaultyParseClearsError(t) ==
    /\ \/ Go(t, "parse", "gap") /\ error' = "ok"
       \/ Go(t, "parse", "sleep") /\ error' = "failed"
    /\ owner' = None
    /\ UNCHANGED <<caller, buffers, published, cancelled>>

FaultyParseErrorKeepsMutex(t) ==
    /\ \/ Go(t, "parse", "gap") /\ UNCHANGED error /\ owner' = None
       \/ Go(t, "parse", "sleep") /\ error' = "failed" /\ UNCHANGED owner
    /\ UNCHANGED <<caller, buffers, published, cancelled>>

\* The rest of __mqtt_recv.  A socket or protocol error takes the place of
\* any earlier one and ends this mqtt_sync.
Parse(t) ==
    /\ \/ Go(t, "parse", "gap") /\ UNCHANGED error
       \/ Go(t, "parse", "sleep") /\ error' = "failed"
    /\ owner' = None
    /\ UNCHANGED <<caller, buffers, published, cancelled>>

FaultySendErrorKeepsMutex(t) ==
    /\ Go(t, "send", "sleep")
    /\ \/ UNCHANGED error /\ owner' = None
       \/ /\ error \in {"ok", "full"} /\ t \notin cancelled
          /\ error' = "failed" /\ UNCHANGED owner
    /\ UNCHANGED <<caller, buffers, published, cancelled>>

\* __mqtt_send, which does nothing after an error other than a full buffer.
\* It calls send() if a message is due, which may fail, and queues a ping if
\* one is, which may not fit.
SendQueue(t) ==
    /\ Go(t, "send", "sleep")
    /\ \/ UNCHANGED error
       \/ error \in {"ok", "full"} /\ t \notin cancelled /\ error' = "failed"
       \/ error = "ok" /\ error' = "full"
    /\ owner' = None
    /\ UNCHANGED <<caller, buffers, published, cancelled>>

DieSending(t) ==
    /\ t \in cancelled /\ error \in {"ok", "full"}
    /\ Go(t, "send", "ended")
    /\ UNCHANGED <<caller, client, published, cancelled>>

Sleep(t) ==
    /\ Go(t, "sleep", IF t \in cancelled THEN "ended" ELSE "loop")
    /\ UNCHANGED <<caller, client, published, cancelled>>

Refresh(t) == Recv(t) \/ Parse(t) \/ SendQueue(t) \/ DieSending(t) \/ Sleep(t)

-----------------------------------------------------------------------------
Next ==
    \/ OpenSocket \/ AllocateSend \/ AllocateRecv
    \/ InitClient \/ Connect \/ CreateThread
    \/ SendMessage \/ Publish \/ Report \/ Deinit \/ Cancel
    \/ \E t \in Sessions : Lock(t) \/ Refresh(t)

Spec == Init /\ [][Next]_vars

\* Threads get to run, and deinit() and send_message() go on once called.
\* A mutex that is given up for 20 ms again and again is got in the end.
FairSpec ==
    /\ Spec
    /\ WF_vars(Cancel) /\ WF_vars(Report) /\ SF_vars(Publish)
    /\ \A t \in Sessions : WF_vars(Refresh(t)) /\ SF_vars(Lock(t))

-----------------------------------------------------------------------------
\* Between two calls the only socket and buffers that are allocated are those
\* of a session that is up: each error path of init() after the socket is open,
\* those for want of memory included, has released what it had got so far.
NothingLeaks ==
    step \in Idle => live = IF step = "ready" THEN {last} ELSE {}

\* A refresher that still runs is the one of the session that is up, or has
\* been told to stop, or is told by the deinit() that is under way: no init()
\* or destructor leaves one behind that polls a closed socket for ever.
OldRefreshersStopping ==
    \A t \in Sessions :
        Running(t) => \/ t \in cancelled
                      \/ /\ t = daemon /\ t = last
                         /\ step \in {"ready", "publish", "report", "deinit", "destroy"}

\* send_message() returns -1 for every message that was not queued, although
\* the refresher may have written client_.error since mqtt_publish gave the
\* mutex up.  (A 0 for a message is right; a -1 may be about something else.)
FailureIsReported == step = "report" /\ ~published => error # "ok"

\* What a refresher that has not been told to stop works on is allocated, also
\* while later sessions are set up, unless deinit() is under way: no error path
\* of init() takes anything from under it.  (UsesLiveMemory says the rest.)
LiveUntilStopped ==
    \A t \in Sessions :
        at[t] \in Inside /\ t \notin cancelled /\ step \notin {"deinit", "destroy"}
            => buffers \in live

\* Who waits for the mutex waits for mqtt_connect, or for a refresher that will
\* give it up, or for the very one that was cancelled while it had it: no other
\* way out of mqtt_sync, and no new mutex made under an old refresher, leaves it
\* locked with nobody inside.
LockedBySomebody ==
    /\ owner = Main => step = "connect"
    /\ owner \in Sessions => \/ at[owner] \in Inside
                             \/ owner \in cancelled /\ at[owner] = "ended"

\* What a refresher works on with the mutex locked is allocated.
UsesLiveMemory ==
    \A t \in Sessions : at[t] \in Inside => buffers \in live /\ step # "gone"

\* A cancelled refresher ends, even one that waits for the mutex or is inside
\* mqtt_sync, as long as init() is not called again.
RefreshersEnd ==
    \A t \in Sessions :
        t \in cancelled ~> at[t] = "ended" \/ last > 1 \/ step = "crashed"

\* send_message() returns, on an object that has had one session: no error of
\* the refresher leaves the mutex locked.
SendReturns == step = "publish" ~> step = "ready" \/ last > 1
=============================================================================
