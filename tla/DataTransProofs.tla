-------------------------- MODULE DataTransProofs --------------------------
(***************************************************************************)
(* Proofs about DataTrans, for any number of sessions: init() leaks on no  *)
(* path, every refresher but that of the session that is up is told to     *)
(* stop, the memory it works on stays until then, the mutex is never left  *)
(* locked by nobody, and send_message() reports what it could not queue.   *)
(* One inductive invariant carries all of them.                            *)
(***************************************************************************)
EXTENDS DataTrans, TLAPS

\* Where a session is up or being made, what it has is held.
Holding == Making \cup {"ready", "publish", "report"}

\* What is held is all that is allocated, at every step and not only between
\* two calls: what Release relies on in every error path.
HeldIsLive ==
    /\ step \in Holding => last # None /\ held = last
    /\ step \notin Holding => held = None
    /\ live = IF held = None THEN {} ELSE {held}

\* From mqtt_init on client_ points to the buffers of the session that is up.
BuffersHeld == step \in Holding \ {"sendbuf", "recvbuf", "client"} => buffers = held

\* The thread of a session comes last of all that init() makes.
ThreadToCome ==
    \A t \in Sessions :
        t > last \/ (t = last /\ step \in Making)
            => at[t] = "none"

IInv ==
    /\ TypeOK
    /\ ThreadToCome
    /\ HeldIsLive
    /\ BuffersHeld
    /\ OldRefreshersStopping
    /\ FailureIsReported
    /\ LockedBySomebody

USE DEF Sessions, None, Main, Running, Idle, Making, Caller, Inside, Thread

-----------------------------------------------------------------------------
\* The invariant holds of an object that has just been constructed.
LEMMA InitIInv == Init => IInv
<1> SUFFICES ASSUME Init PROVE IInv
    OBVIOUS
<1> USE DEF Init
<1>1. TypeOK
  <2>1. at \in [Sessions -> Thread]  OBVIOUS
  <2>2. published \in BOOLEAN  BY Zenon
  <2>3. last \in 0 .. SessionMax /\ daemon \in 0 .. last /\ buffers \in 0 .. last
        /\ owner \in 0 .. Main
        BY SessionAssumption
  <2>4. step \in Caller /\ held \in {None, last}  OBVIOUS
  <2> QED BY <2>1, <2>2, <2>3, <2>4 DEF TypeOK
<1>2. HeldIsLive             BY DEF HeldIsLive, Holding
<1>3. OldRefreshersStopping  BY DEF OldRefreshersStopping
<1>4. FailureIsReported      BY DEF FailureIsReported
<1>5. BuffersHeld            BY DEF BuffersHeld, Holding
<1>6. LockedBySomebody       BY SessionAssumption DEF LockedBySomebody
<1>7. ThreadToCome           BY DEF ThreadToCome
<1> QED BY <1>1, <1>2, <1>3, <1>4, <1>5, <1>6, <1>7 DEF IInv

\* The types, the socket and the buffers at a step of the caller.
LEMMA CallerKeepsTypes ==
  ASSUME TypeOK, HeldIsLive,
         \/ OpenSocket \/ AllocateSend \/ AllocateRecv
         \/ InitClient \/ Connect \/ CreateThread
         \/ SendMessage \/ Publish \/ Report \/ Deinit \/ Cancel
  PROVE  TypeOK' /\ HeldIsLive'
<1> USE SessionAssumption DEF TypeOK, HeldIsLive, Holding, Release,
                              caller, client, threads
<1>1. CASE OpenSocket    BY <1>1 DEF OpenSocket
<1>2. CASE InitClient    BY <1>2 DEF InitClient
<1>3. CASE Connect       BY <1>3 DEF Connect
<1>10. CASE AllocateSend \/ AllocateRecv
      BY <1>10 DEF AllocateSend, AllocateRecv, Release
<1>4. CASE CreateThread  BY <1>4 DEF CreateThread
<1>5. CASE SendMessage   BY <1>5 DEF SendMessage
<1>6. CASE Publish       BY <1>6 DEF Publish
<1>7. CASE Report        BY <1>7 DEF Report
<1>8. CASE Deinit        BY <1>8 DEF Deinit
<1>9. CASE Cancel
  <2>1. step' \in {"new", "gone", "crashed"}  BY <1>9 DEF Cancel
  <2>2. daemon # None => daemon \in Sessions   OBVIOUS
  <2>3. cancelled' \subseteq Sessions         BY <1>9, <2>2, Zenon DEF Cancel
  <2> QED BY <1>9, <2>1, <2>3 DEF Cancel
<1> QED BY <1>1, <1>2, <1>3, <1>4, <1>5, <1>6, <1>7, <1>8, <1>9, <1>10

\* What a step of a refresher leaves alone, where it goes, and what it may
\* make of the error.
LEMMA RefresherStep ==
  ASSUME TypeOK, NEW t \in Sessions, Lock(t) \/ Refresh(t)
  PROVE  /\ UNCHANGED <<caller, buffers, published, cancelled>>
         /\ Running(t)
         /\ \E to \in Thread : at' = [at EXCEPT ![t] = to]
         /\ error' = error \/ error' \in {"full", "failed"}
         /\ \/ owner' = None
            \/ owner' = t /\ at'[t] \in Inside
            \/ /\ owner' = owner
               /\ \/ at'[t] \in Inside
                  \/ at[t] \notin Inside
                  \/ t \in cancelled /\ at'[t] = "ended"
<1> USE DEF TypeOK, Go, caller, client
<1>1. CASE Lock(t)       BY <1>1 DEF Lock
<1>2. CASE Recv(t)       BY <1>2 DEF Recv
<1>3. CASE Parse(t)      BY <1>3 DEF Parse
<1>4. CASE SendQueue(t)  BY <1>4 DEF SendQueue
<1>5. CASE DieSending(t) BY <1>5 DEF DieSending
<1>6. CASE Sleep(t)      BY <1>6 DEF Sleep
<1> QED BY <1>1, <1>2, <1>3, <1>4, <1>5, <1>6 DEF Refresh

\* The refreshers at a step of the caller: only pthread_create makes one run
\* that is not cancelled, at a time when all others are.
LEMMA CallerKeepsStopping ==
  ASSUME TypeOK, HeldIsLive, OldRefreshersStopping,
         \/ OpenSocket \/ AllocateSend \/ AllocateRecv
         \/ InitClient \/ Connect \/ CreateThread
         \/ SendMessage \/ Publish \/ Report \/ Deinit \/ Cancel
  PROVE  OldRefreshersStopping'
<1> USE SessionAssumption DEF TypeOK, OldRefreshersStopping, caller, threads
<1>1. CASE OpenSocket    BY <1>1 DEF OpenSocket
<1>2. CASE InitClient    BY <1>2 DEF InitClient
<1>3. CASE Connect       BY <1>3 DEF Connect
<1>10. CASE AllocateSend \/ AllocateRecv
      BY <1>10 DEF AllocateSend, AllocateRecv, Release
<1>4. CASE CreateThread  BY <1>4 DEF CreateThread, HeldIsLive, Holding
<1>5. CASE SendMessage   BY <1>5 DEF SendMessage
<1>6. CASE Publish       BY <1>6 DEF Publish
<1>7. CASE Report        BY <1>7 DEF Report
<1>8. CASE Deinit        BY <1>8 DEF Deinit
<1>9. CASE Cancel        BY <1>9 DEF Cancel
<1> QED BY <1>1, <1>2, <1>3, <1>4, <1>5, <1>6, <1>7, <1>8, <1>9, <1>10

\* The threads to come at a step of the caller.
LEMMA CallerKeepsThreads ==
  ASSUME TypeOK, HeldIsLive, ThreadToCome,
         \/ OpenSocket \/ AllocateSend \/ AllocateRecv
         \/ InitClient \/ Connect \/ CreateThread
         \/ SendMessage \/ Publish \/ Report \/ Deinit \/ Cancel
  PROVE  ThreadToCome'
<1> USE SessionAssumption DEF TypeOK, ThreadToCome, caller, client, threads
<1>1. CASE OpenSocket    BY <1>1 DEF OpenSocket
<1>2. CASE InitClient    BY <1>2 DEF InitClient
<1>3. CASE Connect       BY <1>3 DEF Connect
<1>10. CASE AllocateSend \/ AllocateRecv
      BY <1>10 DEF AllocateSend, AllocateRecv, Release
<1>4. CASE CreateThread  BY <1>4 DEF CreateThread
<1>5. CASE SendMessage \/ Publish \/ Report \/ Deinit \/ Cancel
      BY <1>5 DEF SendMessage, Publish, Report, Deinit, Cancel
<1> QED BY <1>1, <1>2, <1>3, <1>4, <1>5, <1>10

\* client_ at a step of the caller.
LEMMA CallerKeepsBuffers ==
  ASSUME HeldIsLive, BuffersHeld,
         \/ OpenSocket \/ AllocateSend \/ AllocateRecv
         \/ InitClient \/ Connect \/ CreateThread
         \/ SendMessage \/ Publish \/ Report \/ Deinit \/ Cancel
  PROVE  BuffersHeld'
BY DEF HeldIsLive, BuffersHeld, Holding, Release, caller, client, threads,
       OpenSocket, AllocateSend, AllocateRecv, InitClient, Connect,
       CreateThread, SendMessage, Publish, Report, Deinit, Cancel

\* The mutex at a step of the caller: mqtt_init leaves it locked for
\* mqtt_connect, and no thread is taken out of mqtt_sync.
LEMMA CallerKeepsMutex ==
  ASSUME TypeOK, ThreadToCome, LockedBySomebody,
         \/ OpenSocket \/ AllocateSend \/ AllocateRecv
         \/ InitClient \/ Connect \/ CreateThread
         \/ SendMessage \/ Publish \/ Report \/ Deinit \/ Cancel
  PROVE  LockedBySomebody'
<1> USE SessionAssumption DEF TypeOK, LockedBySomebody, caller, client, threads
<1>1. CASE OpenSocket \/ AllocateSend \/ AllocateRecv
           \/ SendMessage \/ Publish \/ Report \/ Deinit
      BY <1>1 DEF OpenSocket, AllocateSend, AllocateRecv, SendMessage,
                  Publish, Report, Deinit
<1>2. CASE InitClient    BY <1>2 DEF InitClient
<1>3. CASE Connect       BY <1>3 DEF Connect
<1>4. CASE CreateThread
  <2>1. \A t \in Sessions : t = last => at[t] = "none"
        BY <1>4 DEF CreateThread, ThreadToCome
  <2> QED BY <1>4, <2>1 DEF CreateThread
<1>5. CASE Cancel        BY <1>5 DEF Cancel
<1> QED BY <1>1, <1>2, <1>3, <1>4, <1>5

LEMMA NextIInv == IInv /\ [Next]_vars => IInv'
<1> SUFFICES ASSUME IInv, [Next]_vars PROVE IInv'
    OBVIOUS
<1> USE DEF IInv
<1>1. CASE \/ OpenSocket \/ AllocateSend \/ AllocateRecv
           \/ InitClient \/ Connect \/ CreateThread
           \/ SendMessage \/ Publish \/ Report \/ Deinit \/ Cancel
  <2>1. TypeOK' /\ HeldIsLive'      BY <1>1, CallerKeepsTypes
  <2>2. OldRefreshersStopping'      BY <1>1, CallerKeepsStopping
  <2>3. FailureIsReported'
        BY <1>1 DEF FailureIsReported, OpenSocket, AllocateSend,
           AllocateRecv, InitClient, Connect, CreateThread, SendMessage,
           Publish, Report, Deinit, Cancel
  <2>4. BuffersHeld'                BY <1>1, CallerKeepsBuffers
  <2>5. LockedBySomebody'           BY <1>1, CallerKeepsMutex
  <2>6. ThreadToCome'               BY <1>1, CallerKeepsThreads
  <2> QED BY <2>1, <2>2, <2>3, <2>4, <2>5, <2>6
<1>2. ASSUME NEW t \in Sessions, Lock(t) \/ Refresh(t) PROVE IInv'
  <2>1. PICK to \in Thread :
           /\ UNCHANGED <<caller, buffers, published, cancelled>>
           /\ Running(t)
           /\ at' = [at EXCEPT ![t] = to]
           /\ error' = error \/ error' \in {"full", "failed"}
           /\ \/ owner' = None
              \/ owner' = t /\ at'[t] \in Inside
              \/ /\ owner' = owner
                 /\ \/ at'[t] \in Inside
                    \/ at[t] \notin Inside
                    \/ t \in cancelled /\ at'[t] = "ended"
        BY <1>2, RefresherStep
  <2>2. TypeOK'                BY <2>1, SessionAssumption DEF TypeOK, caller
  <2>3. HeldIsLive'            BY <2>1 DEF HeldIsLive, caller
  <2>4. OldRefreshersStopping' BY <2>1 DEF OldRefreshersStopping, TypeOK, caller
  <2>5. FailureIsReported'     BY <2>1 DEF FailureIsReported, caller
  <2>6. BuffersHeld'           BY <2>1 DEF BuffersHeld, caller
  <2>7. LockedBySomebody'
    <3>1. \A u \in Sessions : u # t => at'[u] = at[u]  BY <2>1 DEF TypeOK
    <3>2. step' = step /\ cancelled' = cancelled       BY <2>1 DEF caller
    <3>3. CASE owner' = None
          BY <3>3, SessionAssumption DEF LockedBySomebody
    <3>4. CASE owner' = t /\ at'[t] \in Inside
          BY <3>4, SessionAssumption DEF LockedBySomebody
    <3>5. CASE /\ owner' = owner
               /\ \/ at'[t] \in Inside
                  \/ at[t] \notin Inside
                  \/ t \in cancelled /\ at'[t] = "ended"
      <4>1. (owner = Main => step = "connect")'  BY <3>2, <3>5 DEF LockedBySomebody
      <4>2. CASE owner = t
            BY <3>2, <3>5, <4>1, <4>2, <2>1 DEF LockedBySomebody
      <4>3. CASE owner # t
            BY <3>1, <3>2, <3>5, <4>1, <4>3 DEF LockedBySomebody
      <4> QED BY <4>2, <4>3
    <3> QED BY <2>1, <3>3, <3>4, <3>5
  <2>8. ThreadToCome'          BY <2>1 DEF ThreadToCome, TypeOK, caller
  <2> QED BY <2>2, <2>3, <2>4, <2>5, <2>6, <2>7, <2>8
<1>3. CASE UNCHANGED vars
      BY <1>3 DEF vars, caller, client, threads, TypeOK, HeldIsLive,
                  BuffersHeld, OldRefreshersStopping, FailureIsReported,
                  LockedBySomebody, ThreadToCome
<1> QED BY <1>1, <1>2, <1>3 DEF Next

THEOREM IInvHolds == Spec => []IInv
<1> QED BY InitIInv, NextIInv, PTL DEF Spec

-----------------------------------------------------------------------------
\* Every variable keeps its type; in particular no indeterminate thread
\* identifier is ever taken for that of a thread.
THEOREM TypeCorrect == Spec => []TypeOK
<1>1. IInv => TypeOK  BY DEF IInv
<1> QED BY <1>1, IInvHolds, PTL

\* Whichever step of init() fails, an allocation, mqtt_connect or
\* pthread_create, and however deinit() is called, the socket and the buffers of
\* that session are released, and no others.
THEOREM NoSessionLeaks == Spec => []NothingLeaks
<1>1. IInv => NothingLeaks
      BY DEF IInv, HeldIsLive, Holding, NothingLeaks
<1> QED BY <1>1, IInvHolds, PTL

\* However often init() and deinit() are called, at most the refresher of the
\* session that is up runs without having been told to stop.
THEOREM RefreshersAreStopped == Spec => []OldRefreshersStopping
<1>1. IInv => OldRefreshersStopping  BY DEF IInv
<1> QED BY <1>1, IInvHolds, PTL

\* Reading client_.error without the mutex loses no failure.
THEOREM FailuresAreReported == Spec => []FailureIsReported
<1>1. IInv => FailureIsReported  BY DEF IInv
<1> QED BY <1>1, IInvHolds, PTL

\* However many sessions there are and whichever step of init() fails, the
\* buffers stay under a refresher until deinit() is called.
THEOREM BuffersOutliveRefresher == Spec => []LiveUntilStopped
<1>1. IInv => LiveUntilStopped
  <2> SUFFICES ASSUME IInv, NEW t \in Sessions,
                      at[t] \in Inside, t \notin cancelled,
                      step \notin {"deinit", "destroy"}
               PROVE  buffers \in live
      BY DEF LiveUntilStopped
  <2>1. step \in {"ready", "publish", "report"}
        BY DEF IInv, OldRefreshersStopping
  <2> QED BY <2>1 DEF IInv, HeldIsLive, BuffersHeld, Holding
<1> QED BY <1>1, IInvHolds, PTL

\* However many sessions there are, the mutex is locked only for mqtt_connect,
\* by a refresher inside of mqtt_sync, which goes on, or by one that was
\* cancelled with it.
THEOREM MutexHasAnOwner == Spec => []LockedBySomebody
<1>1. IInv => LockedBySomebody  BY DEF IInv
<1> QED BY <1>1, IInvHolds, PTL
=============================================================================
