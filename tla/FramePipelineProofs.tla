------------------------ MODULE FramePipelineProofs ------------------------
(* Proofs about FramePipeline, for any number of frames and turns, any     *)
(* directories, any queue size and any of the faults.                      *)
EXTENDS FramePipeline, SequenceTheorems, TLAPS

-----------------------------------------------------------------------------
(* The queue, as its history sees it.                                      *)

\* A pop by either thread moves the oldest turn from q to taken and leaves
\* the order in which turns were pushed as it is.
LEMMA TakeKeepsQueued ==
    ASSUME q \in Seq(Turns), taken \in Seq(Turns), Queue!Take
    PROVE  /\ q' \in Seq(Turns) /\ taken' \in Seq(Turns)
           /\ Head(q) \in Turns
           /\ Len(q') = Len(q) - 1 /\ Len(q) \in Nat \ {0}
           /\ Len(taken') = Len(taken) + 1 /\ Len(taken) \in Nat
           /\ Len(Queued) = Len(taken) + Len(q)
           /\ Head(q) = Queued[Len(taken) + 1]
           /\ Queued' = Queued
<1>1. q # << >> /\ q' = Tail(q) /\ taken' = Append(taken, Head(q))
  BY DEF Queue!Take
<1>2. /\ q' \in Seq(Turns) /\ Head(q) \in Turns
      /\ Len(q') = Len(q) - 1 /\ Len(q) \in Nat \ {0}
  BY <1>1, HeadTailProperties, EmptySeq
<1>3. taken' \in Seq(Turns) /\ taken' = taken \o <<Head(q)>>
  BY <1>1, <1>2, AppendProperties, AppendIsConcat
<1>4. <<Head(q)>> \o Tail(q) = q
  <2>1. SubSeq(q, 1, Len(q)) = <<q[1]>> \o SubSeq(q, 2, Len(q))
    BY <1>2, SubSeqRecursiveFirst
  <2>2. SubSeq(q, 1, Len(q)) = q /\ SubSeq(q, 2, Len(q)) = Tail(q)
    BY <1>1, SubSeqFull, TailIsSubSeq
  <2>3. Head(q) = q[1]
    BY <1>1
  <2>4. QED
    BY <2>1, <2>2, <2>3
<1>5. (taken \o <<Head(q)>>) \o Tail(q) = taken \o (<<Head(q)>> \o Tail(q))
  <2>1. <<Head(q)>> \in Seq(Turns)
    BY <1>2
  <2>2. QED
    BY <2>1, <1>1, <1>2, ConcatAssociative
<1>6. Queued' = Queued
  BY <1>1, <1>2, <1>3, <1>4, <1>5 DEF Queued
<1>7. Len(taken') = Len(taken) + 1 /\ Len(taken) \in Nat
  BY <1>1, <1>2, AppendProperties, LenProperties
<1>8. Len(Queued) = Len(taken) + Len(q) /\ Head(q) = Queued[Len(taken) + 1]
  <2>1. /\ Len(Queued) = Len(taken) + Len(q)
        /\ \A i \in 1 .. Len(taken) + Len(q) :
              Queued[i] = IF i <= Len(taken) THEN taken[i] ELSE q[i - Len(taken)]
    BY ConcatProperties DEF Queued
  <2>2. Len(taken) + 1 \in 1 .. Len(taken) + Len(q)
    BY <1>2, <1>7
  <2>3. ~(Len(taken) + 1 <= Len(taken)) /\ (Len(taken) + 1) - Len(taken) = 1
    BY <1>7
  <2>4. Queued[Len(taken) + 1] = q[1]
    BY <2>1, <2>2, <2>3
  <2>5. QED
    BY <1>1, <2>1, <2>4
<1>9. QED
  BY <1>1, <1>2, <1>3, <1>6, <1>7, <1>8

\* A push adds the turn behind all turns pushed before it.
LEMMA PutExtendsQueued ==
    ASSUME q \in Seq(Turns), taken \in Seq(Turns), NEW t \in Turns,
           Queue!Put(t)
    PROVE  /\ q' \in Seq(Turns) /\ taken' = taken
           /\ Len(q') = Len(q) + 1
           /\ Queued' = Append(Queued, t)
<1>1. q' = Append(q, t) /\ taken' = taken
  BY DEF Queue!Put
<1>2. q' \in Seq(Turns) /\ Len(q') = Len(q) + 1 /\ q' = q \o <<t>>
  BY <1>1, AppendProperties, AppendIsConcat
<1>3. <<t>> \in Seq(Turns)
  OBVIOUS
<1>4. Queued \in Seq(Turns)
  BY ConcatProperties DEF Queued
<1>5. taken \o (q \o <<t>>) = (taken \o q) \o <<t>>
  BY <1>3, ConcatAssociative
<1>6. QED
  BY <1>1, <1>2, <1>4, <1>5, AppendIsConcat DEF Queued

-----------------------------------------------------------------------------
(***************************************************************************)
(* Type correctness: the receiver handles a frame of the camera whenever   *)
(* it is past the head of its loop, the main thread holds a turn whenever  *)
(* it is past its pop, and every array and buffer is in a known state.     *)
(***************************************************************************)
THEOREM TypeCorrect == Spec => []TypeOK
<1> USE FrameAssumption, TurnAssumption, DirAssumption
       DEF Frames, Turns, None
<1>1. Init => TypeOK
  BY EmptySeq DEF Init, TypeOK, ReceiverSteps, BetweenFrames, Memory
<1>2. TypeOK /\ [Next]_vars => TypeOK'
  <2> SUFFICES ASSUME TypeOK, [Next]_vars PROVE TypeOK'
    OBVIOUS
  <2> USE DEF TypeOK, ReceiverSteps, BetweenFrames, Memory, camera, files, loop,
             queue, main
  <2>0. ~BetweenFrames => this \in Frames
    BY DEF this
  <2>1. CASE MakeImageDir \/ WriteImage
    <3>1. shotImages + 1 \in Frames /\ Dir[shotImages + 1] \in Nat
      BY <2>1 DEF MakeImageDir, WriteImage
    <3>2. shotImages' \in 0 .. FrameCount
      BY <2>1 DEF MakeImageDir, WriteImage
    <3>3. image' \subseteq Frames /\ imageDirs' \subseteq Nat
      BY <2>1, <3>1 DEF MakeImageDir, WriteImage
    <3>4. QED
      BY <2>1, <3>2, <3>3 DEF MakeImageDir, WriteImage
  <2>2. CASE MakeTensorDir \/ WriteTensor
    <3>1. shotTensors + 1 \in Frames /\ Dir[shotTensors + 1] \in Nat
      BY <2>2 DEF MakeTensorDir, WriteTensor
    <3>2. shotTensors' \in 0 .. FrameCount
      <4>1. shotTensors' \in {shotTensors, shotTensors + 1}
        BY <2>2 DEF MakeTensorDir, WriteTensor
      <4>2. QED
        BY <3>1, <4>1
    <3>3. tensor' \subseteq Frames /\ tensorDirs' \subseteq Nat
      BY <2>2, <3>1 DEF MakeTensorDir, WriteTensor
    <3>4. QED
      BY <2>2, <3>2, <3>3 DEF MakeTensorDir, WriteTensor
  <2>3. CASE BeginScan
    BY <2>3 DEF BeginScan
  <2>4. CASE EndScan
    BY <2>4 DEF EndScan
  <2>5. CASE TakeNext
    <3>1. PICK f \in listed : BeginTurn(f)
      BY <2>5 DEF TakeNext
    <3>2. cur' = cur + 1 /\ cur' \in Turns
      BY <2>5, <3>1 DEF TakeNext, BeginTurn
    <3>3. frame' = [frame EXCEPT ![cur + 1] = f] /\ f \in Frames
      BY <3>1, <3>2 DEF BeginTurn
    <3>4. frame' \in [Turns -> Frames \cup {None}]
      BY <3>3
    <3>5. \A t \in 1 .. cur' : frame'[t] \in Frames
      BY <3>2, <3>3
    <3>6. horizon' \in [Turns -> 0 .. FrameCount]
      BY <3>1, <3>2 DEF BeginTurn
    <3>7. /\ listed' \subseteq Frames /\ rpc' = "open_tensor"
          /\ UNCHANGED <<scanned, preDir, mapped, lpd, buffer, data>>
          /\ UNCHANGED <<camera, files, queue, main>>
      BY <3>1 DEF BeginTurn
    <3>8. cur' \in 0 .. TurnLimit /\ (~BetweenFrames' => cur' \in Turns)
      BY <3>2
    <3>9. QED
      BY <3>4, <3>5, <3>6, <3>7, <3>8
  <2>6. CASE ListDone
    BY <2>6 DEF ListDone
  <2>7. CASE OpenTensor
    BY <2>7 DEF OpenTensor
  <2>8. CASE Detect \/ DetectNothing
    BY <2>8 DEF Detect, DetectNothing
  <2>9. CASE DiscardTensor \/ DiscardImage
    BY <2>0, <2>9 DEF DiscardTensor, DiscardImage, RemoveTensorFile,
       RemoveImageFile
  <2>10. CASE OpenImage
    BY <2>10 DEF OpenImage
  <2>11. CASE RemoveTensor \/ RemoveImage
    BY <2>0, <2>11 DEF RemoveTensor, RemoveImage, RemoveTensorFile,
       RemoveImageFile
  <2>12. CASE Rotate
    <3>1. imageDirs' \subseteq imageDirs /\ tensorDirs' \subseteq tensorDirs
      BY <2>12 DEF Rotate, RemoveDir
    <3>2. preDir' \in Nat
      BY <2>0, <2>12 DEF Rotate
    <3>3. QED
      BY <2>12, <3>1, <3>2 DEF Rotate
  <2>13. CASE Crop
    <3>1. cur \in Turns
      BY <2>13 DEF Crop
    <3>2. buffer' \in [Turns -> Memory]
      BY <2>13, <3>1 DEF Crop
    <3>3. PICK p \in Turns \cup {None} : data' = [data EXCEPT ![cur] = p]
      BY <2>13, <3>1 DEF Crop
    <3>4. data' \in [Turns -> Turns \cup {None}]
      BY <3>1, <3>3
    <3>5. QED
      BY <2>13, <3>2, <3>4 DEF Crop
  <2>14. CASE CheckSize
    BY <2>14 DEF CheckSize
  <2>15. CASE DropOldest
    <3>1. q' \in Seq(Turns) /\ taken' \in Seq(Turns) /\ Head(q) \in Turns
      BY <2>15, TakeKeepsQueued DEF DropOldest
    <3>2. buffer' \in [Turns -> Memory]
      BY <2>15, <3>1 DEF DropOldest, FreeImage
    <3>3. QED
      BY <2>15, <3>1, <3>2 DEF DropOldest
  <2>16. CASE Push
    <3>1. q' \in Seq(Turns) /\ taken' = taken
      BY <2>16, PutExtendsQueued DEF Push
    <3>2. QED
      BY <2>16, <3>1 DEF Push
  <2>17. CASE MainPop
    <3>1. q' \in Seq(Turns) /\ taken' \in Seq(Turns) /\ Head(q) \in Turns
      BY <2>17, TakeKeepsQueued DEF MainPop
    <3>2. QED
      BY <2>17, <3>1 DEF MainPop
  <2>18. CASE Recognise
    BY <2>18 DEF Recognise
  <2>19. CASE Release
    BY <2>19 DEF Release, FreeImage
  <2>20. CASE UNCHANGED vars
    BY <2>20 DEF vars
  <2> QED
    BY <2>1, <2>2, <2>3, <2>4, <2>5, <2>6, <2>7, <2>8, <2>9, <2>10, <2>11,
       <2>12, <2>13, <2>14, <2>15, <2>16, <2>17, <2>18, <2>19, <2>20
       DEF Next, Camera, Receiver, Main
<1>3. QED
  BY <1>1, <1>2, PTL DEF Spec

-----------------------------------------------------------------------------
\* What makes the bound inductive: between the test of the size and the push
\* the queue can only have become shorter, because only the receiver pushes.
RoomForPush ==
    /\ Len(q) <= QueueMax
    /\ rpc = "push" => Len(q) < QueueMax

LEMMA RoomAlways == Spec => []RoomForPush
<1>1. Init => RoomForPush
  BY QueueMaxAssumption, EmptySeq DEF Init, RoomForPush
<1>2. TypeOK /\ RoomForPush /\ [Next]_vars => RoomForPush'
  <2> SUFFICES ASSUME TypeOK, RoomForPush, [Next]_vars
               PROVE  RoomForPush'
    OBVIOUS
  <2> USE QueueMaxAssumption DEF RoomForPush
  <2>0. q \in Seq(Turns) /\ taken \in Seq(Turns) /\ Len(q) \in Nat
    BY LenProperties DEF TypeOK
  <2>1. CASE DropOldest \/ MainPop
    <3>1. Len(q') = Len(q) - 1
      BY <2>0, <2>1, TakeKeepsQueued DEF DropOldest, MainPop
    <3>2. QED
      BY <2>0, <2>1, <3>1 DEF DropOldest, MainPop
  <2>2. CASE Push
    <3>1. Len(q') = Len(q) + 1
      BY <2>0, <2>2, PutExtendsQueued DEF Push, TypeOK, BetweenFrames
    <3>2. QED
      BY <2>0, <2>2, <3>1 DEF Push
  <2>3. CASE CheckSize
    BY <2>0, <2>3 DEF CheckSize, queue
  <2>4. CASE Camera \/ Recognise \/ Release \/ UNCHANGED vars
    BY <2>4 DEF Camera, MakeImageDir, WriteImage, MakeTensorDir, WriteTensor,
       Recognise, Release, vars, queue
  <2>5. CASE BeginScan \/ EndScan \/ TakeNext
    BY <2>5 DEF BeginScan, EndScan, TakeNext, BeginTurn, queue
  <2>6. CASE ListDone \/ OpenTensor \/ Detect
             \/ DetectNothing \/ DiscardTensor \/ DiscardImage \/ OpenImage
             \/ RemoveTensor \/ RemoveImage \/ Rotate \/ Crop
    BY <2>6 DEF ListDone, OpenTensor, Detect, DetectNothing,
       DiscardTensor, DiscardImage, OpenImage, RemoveTensor, RemoveImage,
       Rotate, Crop, queue
  <2> QED
    BY <2>1, <2>2, <2>3, <2>4, <2>5, <2>6 DEF Next, Receiver, Main
<1>3. QED
  BY <1>1, <1>2, TypeCorrect, PTL DEF Spec

(***************************************************************************)
(* The queue never exceeds MAX_QUEUE_SIZE, whatever that size is.          *)
(***************************************************************************)
THEOREM BoundedQueue == Spec => []QueueBounded
<1>1. RoomForPush => QueueBounded
  BY DEF RoomForPush, QueueBounded
<1>2. QED
  BY <1>1, RoomAlways, PTL

-----------------------------------------------------------------------------
(* Order and uniqueness of the turns and frames that are queued.           *)

Active    == ~BetweenFrames
ImageStep == rpc \in {"open_tensor", "detect", "discard_tensor",
                      "discard_image", "open_image", "remove_tensor",
                      "remove_image"}

\* The turns that have begun, and what is queued, come in their order.
TurnOrder ==
    /\ \A i \in 1 .. Len(Queued) :
          Queued[i] \in 1 .. cur /\ (Active => Queued[i] # cur)
    /\ \A i, j \in 1 .. Len(Queued) : i < j => Queued[i] < Queued[j]

\* The image of frame g is not the one turn t had, and was shot after it or
\* written after the scan that turn t belongs to had begun.
Later(t, g) == frame[t] # g /\ (frame[t] < g \/ g > horizon[t])

\* The receiver has the image of g in hand, and has not removed it yet.
InHand(g) == ImageStep /\ this = g

ScanInv ==
    /\ scanned <= shotImages
    /\ \A t \in 1 .. cur : horizon[t] <= scanned /\ frame[t] <= shotImages

\* Images that are there are on the list, too late for it, or kept.
ListingInv ==
    /\ \A g \in image : g <= shotImages
    /\ listed \subseteq image
    /\ Active => this \notin listed
    /\ \A g \in image :
          g \in listed \/ g > scanned \/ g \in keptImages \/ InHand(g)

\* What is still to be handled comes later than every turn so far.
HandledInv ==
    \A t \in 1 .. cur, g \in image \ keptImages :
        Later(t, g) \/ (t = cur /\ InHand(g))

Ordered ==
    \A t, u \in 1 .. cur :
        t < u /\ frame[u] \notin keptImages => Later(t, frame[u])

OrderInv == ScanInv /\ ListingInv /\ HandledInv /\ Ordered

LEMMA QueuedType ==
    ASSUME TypeOK
    PROVE  /\ Queued \in Seq(Turns)
           /\ Len(Queued) \in Nat
           /\ DOMAIN Queued = 1 .. Len(Queued)
           /\ \A i \in 1 .. Len(Queued) : Queued[i] \in Turns
<1>1. Queued \in Seq(Turns)
  BY ConcatProperties DEF Queued, TypeOK
<1>2. QED
  BY <1>1, LenProperties, ElementOfSeq

LEMMA TurnStep == TypeOK /\ TurnOrder /\ [Next]_vars => TurnOrder'
<1> SUFFICES ASSUME TypeOK, TurnOrder, [Next]_vars PROVE TurnOrder'
  OBVIOUS
<1> USE DEF camera, files, loop, queue, main
<1>0. /\ Queued \in Seq(Turns) /\ Len(Queued) \in Nat /\ cur \in Nat
      /\ q \in Seq(Turns) /\ taken \in Seq(Turns)
      /\ \A i \in 1 .. Len(Queued) : Queued[i] \in Nat
      /\ Active => cur \in Turns
  BY QueuedType, TurnAssumption DEF TypeOK, Active, Turns
<1>1. CASE TakeNext
  <2>1. cur' = cur + 1 /\ ~Active /\ UNCHANGED <<q, taken>>
    BY <1>1 DEF TakeNext, BeginTurn, Active, BetweenFrames
  <2>2. Queued' = Queued
    BY <2>1 DEF Queued
  <2>3. QED
    BY <1>0, <2>1, <2>2 DEF TurnOrder
<1>2. CASE Push
  <2>1. cur' = cur /\ Active /\ ~Active' /\ Queue!Put(cur)
    BY <1>2 DEF Push, Active, BetweenFrames
  <2>2. /\ Len(Queued') = Len(Queued) + 1 /\ Queued'[Len(Queued) + 1] = cur
        /\ \A i \in 1 .. Len(Queued) : Queued'[i] = Queued[i]
    <3>1. Queued' = Append(Queued, cur)
      BY <1>0, <2>1, PutExtendsQueued
    <3>2. QED
      BY <1>0, <2>1, <3>1, AppendProperties
  <2>3. \A i \in 1 .. Len(Queued') : i \in 1 .. Len(Queued) \/ i = Len(Queued) + 1
    BY <1>0, <2>2
  <2>4. ASSUME NEW i \in 1 .. Len(Queued'), NEW j \in 1 .. Len(Queued'), i < j
        PROVE  Queued'[i] < Queued'[j]
    <3>1. CASE j \in 1 .. Len(Queued)
      BY <1>0, <2>2, <2>4, <3>1 DEF TurnOrder
    <3>2. CASE j = Len(Queued) + 1
      <4>1. i \in 1 .. Len(Queued)
        BY <1>0, <2>3, <2>4, <3>2
      <4>2. Queued[i] \in 1 .. cur /\ Queued[i] # cur
        BY <2>1, <4>1 DEF TurnOrder
      <4>3. QED
        BY <1>0, <2>2, <3>2, <4>1, <4>2
    <3>3. QED
      BY <2>3, <3>1, <3>2
  <2>5. \A i \in 1 .. Len(Queued') : Queued'[i] \in 1 .. cur
    <3>1. cur \in 1 .. cur
      BY <1>0, <2>1 DEF Turns
    <3>2. QED
      BY <2>2, <2>3, <3>1 DEF TurnOrder
  <2>6. QED
    BY <2>1, <2>4, <2>5 DEF TurnOrder
<1>3. CASE DropOldest \/ MainPop
  <2>1. Queued' = Queued /\ cur' = cur /\ (Active' <=> Active)
    BY <1>0, <1>3, TakeKeepsQueued
       DEF DropOldest, MainPop, Active, BetweenFrames
  <2>2. QED
    BY <2>1 DEF TurnOrder
<1>4. CASE \/ Camera \/ BeginScan \/ EndScan \/ ListDone \/ OpenTensor \/ Detect
           \/ DetectNothing \/ DiscardTensor \/ DiscardImage \/ OpenImage
           \/ RemoveTensor \/ RemoveImage \/ Rotate \/ Crop \/ CheckSize
           \/ Recognise \/ Release \/ UNCHANGED vars
  <2>1. UNCHANGED <<cur, q, taken>> /\ (Active' => Active)
    BY <1>4 DEF Camera, MakeImageDir, WriteImage, MakeTensorDir, WriteTensor,
       BeginScan, EndScan, ListDone, OpenTensor, Detect, DetectNothing,
       DiscardTensor, DiscardImage, OpenImage, RemoveTensor, RemoveImage,
       Rotate, Crop, CheckSize, Recognise, Release, vars, Active, BetweenFrames
  <2>2. Queued' = Queued
    BY <2>1 DEF Queued
  <2>3. QED
    BY <2>1, <2>2 DEF TurnOrder
<1> QED
  BY <1>1, <1>2, <1>3, <1>4 DEF Next, Receiver, Main

LEMMA TurnsAlways == Spec => []TurnOrder
<1>1. Init => TurnOrder
  <2>1. Init => Queued = << >>
    BY DEF Init, Queued
  <2>2. QED
    BY <2>1 DEF TurnOrder
<1>2. QED
  BY <1>1, TurnStep, TypeCorrect, PTL DEF Spec

LEMMA OrderInit == Init => OrderInv
  BY FrameAssumption
     DEF Init, OrderInv, ScanInv, ListingInv, HandledInv, Ordered, Active,
         BetweenFrames, None

\* Steps that only move the receiver from one step to another.
LEMMA OrderQuiet ==
    ASSUME OrderInv, UNCHANGED <<shotImages, image, listed, scanned>>,
           UNCHANGED <<cur, frame, horizon, keptImages>>,
           Active' => Active, ImageStep => ImageStep'
    PROVE  OrderInv'
<1>1. /\ \A t, g : Later(t, g)' <=> Later(t, g)
      /\ \A g : InHand(g) => InHand(g)'
  BY DEF Later, InHand, this
<1>2. ScanInv' /\ ListingInv'
  BY <1>1 DEF OrderInv, ScanInv, ListingInv, this
<1>3. HandledInv' /\ Ordered'
  BY <1>1 DEF OrderInv, HandledInv, Ordered
<1>4. QED
  BY <1>2, <1>3 DEF OrderInv

LEMMA OrderStep == TypeOK /\ OrderInv /\ [Next]_vars => OrderInv'
<1> SUFFICES ASSUME TypeOK, OrderInv, [Next]_vars PROVE OrderInv'
  OBVIOUS
<1> USE DEF camera, files, loop, queue, main
<1>0. /\ listed \subseteq Frames /\ image \subseteq Frames /\ shotImages \in Nat
      /\ Frames \subseteq Nat /\ Turns \subseteq Nat /\ scanned \in Nat
      /\ cur \in Nat /\ 1 .. cur \subseteq Turns
      /\ horizon \in [Turns -> Nat] /\ frame \in [Turns -> Nat]
      /\ \A t \in 1 .. cur : frame[t] \in Frames
      /\ Active => cur \in 1 .. cur
  BY FrameAssumption, TurnAssumption
     DEF TypeOK, Active, Frames, Turns, None
<1>1. CASE WriteImage
  <2>1. /\ shotImages + 1 \in Frames /\ shotImages' = shotImages + 1
        /\ image' = image \cup {shotImages + 1}
        /\ UNCHANGED <<rpc, listed, scanned, cur, frame, horizon, keptImages>>
    BY <1>0, <1>1, FrameAssumption DEF WriteImage, TypeOK, Frames
  <2>2. /\ \A t, g : Later(t, g)' <=> Later(t, g)
        /\ \A g : InHand(g)' <=> InHand(g)
        /\ Active' <=> Active
        /\ this' = this
    BY <2>1 DEF Later, InHand, this, Active, BetweenFrames, ImageStep
  <2>3. ScanInv' /\ ListingInv' /\ Ordered'
    BY <1>0, <2>1, <2>2 DEF OrderInv, ScanInv, ListingInv, Ordered
  <2>4. \A t \in 1 .. cur : Later(t, shotImages + 1)
    BY <1>0 DEF OrderInv, ScanInv, Later
  <2>5. HandledInv'
    BY <2>1, <2>2, <2>4 DEF OrderInv, HandledInv
  <2>6. QED
    BY <2>3, <2>5 DEF OrderInv
<1>2. CASE BeginScan \/ EndScan
  <2>1. /\ UNCHANGED <<shotImages, image, cur, frame, horizon, keptImages>>
        /\ ~Active /\ ~Active' /\ ~ImageStep /\ ~ImageStep'
    BY <1>2 DEF BeginScan, EndScan, Active, BetweenFrames, ImageStep
  <2>2. /\ scanned' \in {scanned, shotImages}
        /\ listed' \subseteq image
        /\ listed' = image \/ (scanned' = scanned /\ listed \subseteq listed')
    BY <1>2 DEF BeginScan, EndScan, OrderInv, ListingInv
  <2>3. ScanInv'
    BY <1>0, <2>1, <2>2 DEF OrderInv, ScanInv
  <2>4. ListingInv'
    BY <2>1, <2>2 DEF OrderInv, ListingInv, InHand
  <2>5. HandledInv' /\ Ordered'
    BY <2>1 DEF OrderInv, HandledInv, Ordered, Later, InHand
  <2>6. QED
    BY <2>3, <2>4, <2>5 DEF OrderInv
<1>3. CASE TakeNext
  <2>1. PICK f \in listed : (\A g \in listed : f <= g) /\ BeginTurn(f)
    BY <1>3 DEF TakeNext
  <2>2. /\ cur' = cur + 1 /\ cur' \in Turns /\ rpc = "next"
        /\ listed' = listed \ {f} /\ rpc' = "open_tensor"
        /\ UNCHANGED <<shotImages, image, scanned, keptImages>>
    <3>1. rpc = "next" /\ cur < TurnLimit
      BY <1>3 DEF TakeNext
    <3>2. cur + 1 \in Turns
      BY <1>0, <3>1, TurnAssumption DEF Turns
    <3>3. QED
      BY <2>1, <3>1, <3>2 DEF BeginTurn
  <2>3. PICK n \in Turns :
          /\ n = cur + 1 /\ cur' = n
          /\ frame' = [frame EXCEPT ![n] = f]
          /\ horizon' = [horizon EXCEPT ![n] = scanned]
    BY <2>1, <2>2 DEF BeginTurn
  <2>4. /\ f \in Frames /\ f \in image
        /\ ~Active /\ Active' /\ ImageStep' /\ ~ImageStep
    BY <1>0, <2>2 DEF OrderInv, ListingInv, Active, BetweenFrames, ImageStep
  <2>5. /\ frame'[n] = f /\ horizon'[n] = scanned /\ this' = f
        /\ \A t \in 1 .. cur : frame'[t] = frame[t] /\ horizon'[t] = horizon[t]
        /\ \A t \in 1 .. n : t \in 1 .. cur \/ t = n
    BY <1>0, <2>3 DEF this
  <2>6. /\ \A g : InHand(g)' <=> g = f
        /\ \A g : ~InHand(g)
        /\ \A t \in 1 .. cur, g \in Frames : Later(t, g)' <=> Later(t, g)
    BY <2>4, <2>5 DEF InHand, Later
  <2>7. ScanInv'
    BY <1>0, <2>2, <2>3, <2>4, <2>5 DEF OrderInv, ScanInv, ListingInv
  <2>8. ListingInv'
    BY <2>2, <2>5, <2>6 DEF OrderInv, ListingInv
  <2>9. ASSUME NEW g \in image \ keptImages, g # f PROVE Later(n, g)'
    <3>1. CASE g \in listed
      BY <1>0, <2>1, <2>5, <2>9, <3>1 DEF Later
    <3>2. CASE g \notin listed
      <4>1. g > scanned
        BY <2>6, <3>2 DEF OrderInv, ListingInv
      <4>2. QED
        BY <2>5, <2>9, <4>1 DEF Later
    <3>3. QED
      BY <3>1, <3>2
  <2>10. HandledInv'
    <3> SUFFICES ASSUME NEW t \in 1 .. n, NEW g \in image \ keptImages
                 PROVE  Later(t, g)' \/ (t = n /\ InHand(g)')
      BY <2>2, <2>3 DEF HandledInv
    <3>1. CASE t = n
      BY <2>6, <2>9, <3>1
    <3>2. CASE t \in 1 .. cur
      BY <1>0, <2>6, <3>2 DEF OrderInv, HandledInv
    <3>3. QED
      BY <2>5, <3>1, <3>2
  <2>11. Ordered'
    <3> SUFFICES ASSUME NEW t \in 1 .. n, NEW u \in 1 .. n, t < u,
                        NEW g, g = frame'[u], g \notin keptImages
                 PROVE  Later(t, g)'
      BY <2>2, <2>3 DEF Ordered, Later
    <3>1. t \in 1 .. cur
      BY <1>0, <2>3
    <3>2. g \in Frames /\ Later(t, g)
      <4>1. CASE u = n
        BY <2>4, <2>5, <2>6, <3>1, <4>1 DEF OrderInv, HandledInv
      <4>2. CASE u \in 1 .. cur
        BY <1>0, <2>5, <3>1, <4>2 DEF OrderInv, Ordered
      <4>3. QED
        BY <2>5, <4>1, <4>2
    <3>3. QED
      BY <2>6, <3>1, <3>2
  <2>12. QED
    BY <2>7, <2>8, <2>10, <2>11 DEF OrderInv
<1>4. CASE DiscardImage \/ RemoveImage
  <2>1. /\ \/ image' = image \ {this} /\ keptImages' = keptImages
           \/ image' = image /\ keptImages' = keptImages \cup {this}
        /\ UNCHANGED <<shotImages, listed, scanned, cur, frame, horizon>>
        /\ Active
    BY <1>4 DEF DiscardImage, RemoveImage, RemoveImageFile, Active, BetweenFrames
  <2>2. /\ image' \subseteq image /\ keptImages \subseteq keptImages'
        /\ \A g \in image' : g \notin keptImages' => ~InHand(g)
        /\ \A t, g : Later(t, g)' <=> Later(t, g)
        /\ this' = this /\ this \notin listed
    BY <2>1 DEF InHand, Later, this, OrderInv, ListingInv
  <2>3. ScanInv' /\ Ordered'
    BY <1>0, <2>1, <2>2 DEF OrderInv, ScanInv, Ordered
  <2>4. ListingInv'
    BY <2>1, <2>2 DEF OrderInv, ListingInv
  <2>5. HandledInv'
    BY <2>1, <2>2 DEF OrderInv, HandledInv
  <2>6. QED
    BY <2>3, <2>4, <2>5 DEF OrderInv
<1>5. CASE \/ MakeImageDir \/ MakeTensorDir \/ WriteTensor \/ ListDone
           \/ OpenTensor \/ Detect \/ DetectNothing \/ DiscardTensor
           \/ OpenImage \/ RemoveTensor \/ Rotate \/ Crop \/ CheckSize
           \/ DropOldest \/ Push \/ Main \/ UNCHANGED vars
  <2>1. /\ UNCHANGED <<shotImages, image, listed, scanned>>
        /\ UNCHANGED <<cur, frame, horizon, keptImages>>
    BY <1>5 DEF MakeImageDir, MakeTensorDir, WriteTensor, ListDone,
       OpenTensor, Detect, DetectNothing, DiscardTensor, OpenImage,
       RemoveTensor, Rotate, Crop, CheckSize, DropOldest, Push, Main,
       MainPop, Recognise, Release, vars
  <2>2. (Active' => Active) /\ (ImageStep => ImageStep')
    BY <1>5 DEF MakeImageDir, MakeTensorDir, WriteTensor, ListDone,
       OpenTensor, Detect, DetectNothing, DiscardTensor, OpenImage,
       RemoveTensor, Rotate, Crop, CheckSize, DropOldest, Push, Main,
       MainPop, Recognise, Release, vars, Active, BetweenFrames, ImageStep
  <2>3. QED
    BY <2>1, <2>2, OrderQuiet
<1> QED
  BY <1>1, <1>2, <1>3, <1>4, <1>5 DEF Next, Camera, Receiver

LEMMA OrderAlways == Spec => []OrderInv
  BY OrderInit, OrderStep, TypeCorrect, PTL DEF Spec

(***************************************************************************)
(* Every image reaches the queue at most once, and a frame is overtaken    *)
(* only by frames of scans that began before its image was written; what   *)
(* comes again, and late, is a frame whose image could not be removed.     *)
(***************************************************************************)
THEOREM QueuedInShotOrder == Spec => []ShotOrder
<1>1. TypeOK /\ TurnOrder /\ OrderInv => ShotOrder
  <2> SUFFICES ASSUME TypeOK, TurnOrder, OrderInv,
                      NEW i \in 1 .. Len(Queued), NEW j \in 1 .. Len(Queued),
                      i < j, frame[Queued[j]] \notin keptImages
               PROVE  Later(Queued[i], frame[Queued[j]])
    BY QueuedType DEF ShotOrder, Later
  <2>1. Queued[i] \in 1 .. cur /\ Queued[j] \in 1 .. cur /\ Queued[i] < Queued[j]
    BY DEF TurnOrder
  <2>2. QED
    BY <2>1 DEF OrderInv, Ordered
<1>2. QED
  BY <1>1, TurnsAlways, OrderAlways, TypeCorrect, PTL

-----------------------------------------------------------------------------
(* What main holds, and the ownership of the pixels.                       *)

HeldTaken ==
    mpc # "pop" =>
        \E i \in 1 .. Len(Queued) : i <= Len(taken) /\ Queued[i] = held

LEMMA HeldStep == TypeOK /\ HeldTaken /\ [Next]_vars => HeldTaken'
<1> SUFFICES ASSUME TypeOK, HeldTaken, [Next]_vars PROVE HeldTaken'
  OBVIOUS
<1> USE DEF camera, files, loop, queue, main
<1>0. /\ Queued \in Seq(Turns) /\ Len(Queued) \in Nat
      /\ q \in Seq(Turns) /\ taken \in Seq(Turns) /\ Len(taken) \in Nat
      /\ ~BetweenFrames => cur \in Turns
  BY QueuedType, LenProperties DEF TypeOK
<1>1. CASE DropOldest
  <2>1. /\ Queued' = Queued /\ Len(taken') = Len(taken) + 1
        /\ UNCHANGED <<mpc, held>>
    BY <1>0, <1>1, TakeKeepsQueued DEF DropOldest
  <2>2. QED
    BY <1>0, <2>1 DEF HeldTaken
<1>2. CASE MainPop
  <2>1. /\ Queued' = Queued /\ Len(taken') = Len(taken) + 1 /\ held' = Head(q)
        /\ Len(Queued) = Len(taken) + Len(q) /\ Len(q) \in Nat \ {0}
        /\ Head(q) = Queued[Len(taken) + 1]
    BY <1>0, <1>2, TakeKeepsQueued DEF MainPop
  <2>2. QED
    BY <1>0, <2>1 DEF HeldTaken
<1>3. CASE Push
  <2>1. /\ Queued' = Append(Queued, cur) /\ cur \in Turns
        /\ UNCHANGED <<mpc, held, taken>>
    BY <1>0, <1>3, PutExtendsQueued DEF Push, BetweenFrames
  <2>2. /\ Len(Queued') = Len(Queued) + 1
        /\ \A i \in 1 .. Len(Queued) : Queued'[i] = Queued[i]
    BY <1>0, <2>1, AppendProperties
  <2>3. QED
    BY <1>0, <2>1, <2>2 DEF HeldTaken
<1>4. CASE Release
  BY <1>4 DEF Release, HeldTaken
<1>5. CASE \/ Camera \/ BeginScan \/ EndScan \/ TakeNext
           \/ ListDone \/ OpenTensor \/ Detect \/ DetectNothing
           \/ DiscardTensor \/ DiscardImage \/ OpenImage \/ RemoveTensor
           \/ RemoveImage \/ Rotate \/ Crop \/ CheckSize \/ Recognise
           \/ UNCHANGED vars
  <2>1. UNCHANGED <<q, taken, held>> /\ (mpc' = "pop" <=> mpc = "pop")
    BY <1>5 DEF Camera, MakeImageDir, WriteImage, MakeTensorDir, WriteTensor,
       BeginScan, EndScan, TakeNext, BeginTurn,
       ListDone, OpenTensor, Detect, DetectNothing, DiscardTensor,
       DiscardImage, OpenImage, RemoveTensor, RemoveImage, Rotate, Crop,
       CheckSize, Recognise, vars
  <2>2. Queued' = Queued
    BY <2>1 DEF Queued
  <2>3. QED
    BY <2>1, <2>2 DEF HeldTaken
<1> QED
  BY <1>1, <1>2, <1>3, <1>4, <1>5 DEF Next, Receiver, Main

LEMMA HeldAlways == Spec => []HeldTaken
<1>1. Init => HeldTaken
  BY DEF Init, HeldTaken
<1>2. QED
  BY <1>1, HeldStep, TypeCorrect, PTL DEF Spec

Handed == rpc \in {"check", "drop", "push"}

\* The positions of the history whose turn is still in the queue, or is the
\* one that main holds.
Kept == {i \in 1 .. Len(Queued) :
            i > Len(taken) \/ (mpc # "pop" /\ held = Queued[i])}

\* Only turns that were queued or handed over ever had pixels.
PixelsAccounted ==
    \A t \in Turns :
        buffer[t] # "none" =>
            \/ \E i \in 1 .. Len(Queued) : Queued[i] = t
            \/ Handed /\ cur = t

\* The pixels of a queued turn are its own, and live until main releases it.
PixelsKept ==
    \A i \in 1 .. Len(Queued) :
        /\ data[Queued[i]] = Queued[i]
        /\ buffer[Queued[i]] = "live" <=> i \in Kept

PixelsHanded == Handed => data[cur] = cur /\ buffer[cur] = "live"

Pixels    == PixelsAccounted /\ PixelsKept /\ PixelsHanded
PixelsInv == CropsSucceeded => Pixels

\* A crop that has failed stays with its turn.
LEMMA CropsStay ==
    ASSUME TypeOK, TurnOrder, [Next]_vars, CropsSucceeded'
    PROVE  CropsSucceeded
<1> USE DEF camera, files, loop, queue, main
<1>0. /\ Queued \in Seq(Turns) /\ Len(Queued) \in Nat
      /\ DOMAIN Queued = 1 .. Len(Queued)
      /\ \A i \in 1 .. Len(Queued) : Queued[i] \in Turns
      /\ q \in Seq(Turns) /\ taken \in Seq(Turns)
      /\ Active => cur \in Turns
      /\ data \in [Turns -> Turns \cup {None}]
  BY QueuedType DEF TypeOK, Active
<1>1. CASE Crop
  <2>1. /\ Queued' = Queued /\ cur' = cur /\ Active /\ rpc = "crop"
        /\ \E p : data' = [data EXCEPT ![cur] = p]
    BY <1>1 DEF Crop, Queued, Active, BetweenFrames
  <2>2. \A i \in 1 .. Len(Queued) : data'[Queued[i]] = data[Queued[i]]
    BY <1>0, <2>1 DEF TurnOrder
  <2>3. QED
    BY <1>0, <2>1, <2>2 DEF CropsSucceeded
<1>2. CASE Push
  <2>1. rpc = "push" /\ cur \in Turns /\ Queued' = Append(Queued, cur)
        /\ UNCHANGED <<cur, data>>
    BY <1>0, <1>2, PutExtendsQueued DEF Push, Active, BetweenFrames
  <2>2. /\ DOMAIN Queued' = 1 .. Len(Queued) + 1
        /\ Queued'[Len(Queued) + 1] = cur
        /\ \A i \in 1 .. Len(Queued) : Queued'[i] = Queued[i]
    BY <1>0, <2>1, AppendProperties, LenProperties
  <2>3. /\ Len(Queued) + 1 \in DOMAIN Queued'
        /\ \A i \in 1 .. Len(Queued) : i \in DOMAIN Queued'
    BY <1>0, <2>2
  <2>4. data[cur] = cur
    BY <2>1, <2>2, <2>3 DEF CropsSucceeded
  <2>5. \A i \in 1 .. Len(Queued) : data[Queued[i]] = Queued[i]
    BY <2>1, <2>2, <2>3 DEF CropsSucceeded
  <2>6. QED
    BY <1>0, <2>4, <2>5 DEF CropsSucceeded
<1>3. CASE DropOldest \/ MainPop
  <2>1. Queued' = Queued
    BY <1>0, <1>3, TakeKeepsQueued DEF DropOldest, MainPop
  <2>2. UNCHANGED <<cur, data>> /\ (Handed' <=> Handed)
    BY <1>3 DEF DropOldest, MainPop, Handed
  <2>3. QED
    BY <2>1, <2>2 DEF CropsSucceeded, Handed
<1>4. CASE \/ Camera \/ BeginScan \/ EndScan \/ TakeNext \/ ListDone
           \/ OpenTensor \/ Detect \/ DetectNothing \/ DiscardTensor
           \/ DiscardImage \/ OpenImage \/ RemoveTensor \/ RemoveImage
           \/ Rotate \/ CheckSize \/ Recognise \/ Release \/ UNCHANGED vars
  <2>1. UNCHANGED <<q, taken, data>> /\ (Handed => Handed' /\ cur' = cur)
    BY <1>4 DEF Camera, MakeImageDir, WriteImage, MakeTensorDir, WriteTensor,
       BeginScan, EndScan, TakeNext, BeginTurn, ListDone, OpenTensor, Detect,
       DetectNothing, DiscardTensor, DiscardImage, OpenImage, RemoveTensor,
       RemoveImage, Rotate, CheckSize, Recognise, Release, vars, Handed
  <2>2. Queued' = Queued
    BY <2>1 DEF Queued
  <2>3. QED
    BY <2>1, <2>2 DEF CropsSucceeded, Handed
<1> QED
  BY <1>1, <1>2, <1>3, <1>4 DEF Next, Receiver, Main

LEMMA PixelsStep ==
    TypeOK /\ TurnOrder /\ HeldTaken /\ PixelsInv /\ [Next]_vars => PixelsInv'
<1> SUFFICES ASSUME TypeOK, TurnOrder, HeldTaken, PixelsInv, [Next]_vars,
                    CropsSucceeded'
             PROVE  Pixels'
  BY DEF PixelsInv
<1> USE DEF camera, files, loop, queue, main
<1>0. /\ Queued \in Seq(Turns) /\ Len(Queued) \in Nat
      /\ \A i \in 1 .. Len(Queued) : Queued[i] \in Turns
      /\ q \in Seq(Turns) /\ taken \in Seq(Turns) /\ Len(taken) \in Nat
      /\ Active => cur \in Turns
      /\ mpc # "pop" => held \in Turns
      /\ buffer \in [Turns -> Memory] /\ data \in [Turns -> Turns \cup {None}]
      /\ Handed => Active
  BY QueuedType, LenProperties DEF TypeOK, Active, BetweenFrames, Handed
<1>01. \A i, j \in 1 .. Len(Queued) : Queued[i] = Queued[j] => i = j
  <2>1. \A i \in 1 .. Len(Queued) : Queued[i] \in Nat
    BY <1>0 DEF Turns
  <2>2. QED
    BY <1>0, <2>1 DEF TurnOrder
<1>02. \A i \in 1 .. Len(Queued) : Active => Queued[i] # cur
  BY DEF TurnOrder
<1>03. None \notin Turns
  BY TurnAssumption DEF None, Turns
<1>04. Pixels
  BY CropsStay DEF PixelsInv
<1> USE DEF Pixels
<1>1. CASE Crop
  <2>1. /\ UNCHANGED <<cur, q, taken, mpc, held>>
        /\ Active /\ ~Handed /\ Handed'
    BY <1>1 DEF Crop, Active, BetweenFrames, Handed
  <2>2. Queued' = Queued /\ Kept' = Kept
    BY <2>1 DEF Queued, Kept
  <2>3. buffer[cur] = "none"
    BY <1>0, <1>02, <1>04, <2>1 DEF PixelsAccounted
  <2>4. data'[cur] = cur
    BY <2>1 DEF CropsSucceeded, Handed
  <2>5. /\ buffer' = [buffer EXCEPT ![cur] = "live"]
        /\ data' = [data EXCEPT ![cur] = cur]
    BY <1>0, <1>1, <1>03, <2>1, <2>3, <2>4 DEF Crop
  <2>6. PixelsAccounted'
    BY <1>0, <1>04, <2>1, <2>2, <2>5 DEF PixelsAccounted
  <2>7. PixelsKept' /\ PixelsHanded'
    BY <1>0, <1>02, <1>04, <2>1, <2>2, <2>5 DEF PixelsKept, PixelsHanded
  <2>8. QED
    BY <2>6, <2>7
<1>2. CASE DropOldest
  <2>1. /\ FreeImage(Head(q)) /\ Handed /\ Handed' /\ Active
        /\ UNCHANGED <<cur, data, mpc, held>>
    BY <1>2 DEF DropOldest, Handed, Active, BetweenFrames
  <2> DEFINE k == Len(taken) + 1
  <2>2. /\ Queued' = Queued /\ Len(taken') = k
        /\ k \in 1 .. Len(Queued) /\ Head(q) = Queued[k]
    BY <1>0, <1>2, TakeKeepsQueued DEF DropOldest
  <2>3. buffer' = [buffer EXCEPT ![Queued[k]] = "freed"]
    BY <1>0, <1>03, <1>04, <2>1, <2>2 DEF FreeImage, PixelsKept
  <2>4. Kept' = Kept \ {k}
    BY <1>0, <1>01, <2>1, <2>2 DEF Kept, HeldTaken
  <2> HIDE DEF k
  <2>5. PixelsAccounted'
    BY <1>0, <1>04, <2>1, <2>2, <2>3 DEF PixelsAccounted
  <2>6. PixelsKept'
    BY <1>0, <1>01, <1>04, <2>1, <2>2, <2>3, <2>4 DEF PixelsKept
  <2>7. PixelsHanded'
    BY <1>0, <1>02, <1>04, <2>1, <2>2, <2>3 DEF PixelsHanded
  <2>8. QED
    BY <2>5, <2>6, <2>7
<1>3. CASE Push
  <2>1. /\ Handed /\ ~Handed' /\ Active /\ cur \in Turns
        /\ UNCHANGED <<buffer, data, cur, mpc, held, taken>>
    BY <1>0, <1>3, PutExtendsQueued DEF Push, Handed
  <2> DEFINE k == Len(Queued) + 1
  <2>2. Queued' = Append(Queued, cur)
    BY <1>0, <1>3, <2>1, PutExtendsQueued DEF Push
  <2>3. /\ Len(Queued') = k /\ Queued'[k] = cur
        /\ \A i \in 1 .. Len(Queued) : Queued'[i] = Queued[i]
        /\ 1 .. k = (1 .. Len(Queued)) \cup {k} /\ k \notin 1 .. Len(Queued)
    BY <1>0, <2>1, <2>2, AppendProperties
  <2>4. Len(taken) <= Len(Queued)
    BY <1>0, ConcatProperties, LenProperties DEF Queued
  <2>5. Kept' = Kept \cup {k}
    BY <1>0, <2>1, <2>3, <2>4 DEF Kept
  <2> HIDE DEF k
  <2>6. PixelsAccounted'
    BY <1>0, <1>04, <2>1, <2>3 DEF PixelsAccounted
  <2>7. PixelsKept'
    <3>1. ASSUME NEW i \in 1 .. Len(Queued)
          PROVE  /\ data[Queued'[i]] = Queued'[i]
                 /\ buffer[Queued'[i]] = "live" <=> i \in Kept'
      BY <1>04, <2>3, <2>5 DEF PixelsKept
    <3>2. data[Queued'[k]] = Queued'[k] /\ buffer[Queued'[k]] = "live"
      BY <1>04, <2>1, <2>3 DEF PixelsHanded
    <3>3. QED
      BY <2>1, <2>3, <2>5, <3>1, <3>2 DEF PixelsKept
  <2>8. QED
    BY <2>1, <2>6, <2>7 DEF PixelsHanded
<1>4. CASE MainPop
  <2>1. /\ mpc = "pop" /\ mpc' # "pop" /\ held' = Head(q)
        /\ UNCHANGED <<rpc, cur, buffer, data>>
    BY <1>4 DEF MainPop
  <2>2. /\ Queued' = Queued /\ Len(taken') = Len(taken) + 1
        /\ Len(taken) + 1 \in 1 .. Len(Queued)
        /\ Head(q) = Queued[Len(taken) + 1]
    BY <1>0, <1>4, TakeKeepsQueued DEF MainPop
  <2>3. Kept' = Kept
    BY <1>0, <1>01, <2>1, <2>2 DEF Kept
  <2>4. QED
    BY <1>04, <2>1, <2>2, <2>3
       DEF PixelsAccounted, PixelsKept, PixelsHanded, Handed
<1>5. CASE Release
  <2>1. /\ FreeImage(held) /\ mpc # "pop" /\ mpc' = "pop" /\ held \in Turns
        /\ UNCHANGED <<rpc, cur, data, held, q, taken>>
    BY <1>0, <1>5 DEF Release
  <2>2. PICK k \in 1 .. Len(Queued) : k <= Len(taken) /\ Queued[k] = held
    BY <2>1 DEF HeldTaken
  <2>3. buffer' = [buffer EXCEPT ![held] = "freed"]
    <3>1. data[held] = held /\ held # None
      BY <1>03, <1>04, <2>1, <2>2 DEF PixelsKept
    <3>2. QED
      BY <2>1, <3>1 DEF FreeImage
  <2>4. Queued' = Queued /\ Kept' = Kept \ {k}
    BY <1>0, <1>01, <2>1, <2>2 DEF Kept, Queued
  <2>5. (Handed' <=> Handed) /\ (Handed => cur # held)
    BY <1>0, <1>02, <2>1, <2>2 DEF Handed
  <2>6. PixelsAccounted'
    BY <1>0, <1>04, <2>1, <2>2, <2>3, <2>4, <2>5 DEF PixelsAccounted
  <2>7. PixelsKept'
    BY <1>0, <1>01, <1>04, <2>1, <2>2, <2>3, <2>4 DEF PixelsKept
  <2>8. PixelsHanded'
    BY <1>0, <1>04, <2>1, <2>3, <2>5 DEF PixelsHanded
  <2>9. QED
    BY <2>6, <2>7, <2>8
<1>6. CASE \/ Camera \/ BeginScan \/ EndScan \/ TakeNext \/ ListDone
           \/ OpenTensor \/ Detect \/ DetectNothing \/ DiscardTensor
           \/ DiscardImage \/ OpenImage \/ RemoveTensor \/ RemoveImage
           \/ Rotate \/ CheckSize \/ Recognise \/ UNCHANGED vars
  <2>1. UNCHANGED <<buffer, data, q, taken, held>> /\ (mpc' = "pop" <=> mpc = "pop")
    BY <1>6 DEF Camera, MakeImageDir, WriteImage, MakeTensorDir, WriteTensor,
       BeginScan, EndScan, TakeNext, BeginTurn, ListDone, OpenTensor, Detect,
       DetectNothing, DiscardTensor, DiscardImage, OpenImage, RemoveTensor,
       RemoveImage, Rotate, CheckSize, Recognise, vars
  <2>2. (Handed' <=> Handed) /\ (Handed => cur' = cur)
    BY <1>6 DEF Camera, MakeImageDir, WriteImage, MakeTensorDir, WriteTensor,
       BeginScan, EndScan, TakeNext, BeginTurn, ListDone, OpenTensor, Detect,
       DetectNothing, DiscardTensor, DiscardImage, OpenImage, RemoveTensor,
       RemoveImage, Rotate, CheckSize, Recognise, vars, Handed
  <2>3. Queued' = Queued /\ Kept' = Kept
    BY <2>1 DEF Queued, Kept
  <2>4. PixelsAccounted' /\ PixelsKept'
    BY <1>04, <2>1, <2>2, <2>3 DEF PixelsAccounted, PixelsKept
  <2>5. PixelsHanded'
    BY <1>04, <2>1, <2>2, <2>3 DEF PixelsHanded
  <2>6. QED
    BY <2>4, <2>5
<1> QED
  BY <1>1, <1>2, <1>3, <1>4, <1>5, <1>6 DEF Next, Receiver, Main

LEMMA PixelsAlways == Spec => []PixelsInv
<1>1. Init => PixelsInv
  <2>1. Init => Queued = << >>
    BY DEF Init, Queued
  <2>2. QED
    BY <2>1 DEF Init, PixelsInv, Pixels, PixelsAccounted, PixelsKept,
       PixelsHanded, Handed
<1>2. QED
  BY <1>1, PixelsStep, TypeCorrect, TurnsAlways, HeldAlways, PTL DEF Spec

(***************************************************************************)
(* As long as crops succeed, pixels are live exactly while their frame is  *)
(* in the queue or in the hands of a thread: no frame is released twice,   *)
(* used after its release, or lost by the thread that drops it.            *)
(***************************************************************************)
THEOREM PixelsHaveOneOwner == Spec => []PixelsOwned
<1>1. TypeOK /\ HeldTaken /\ PixelsInv => PixelsOwned
  <2> SUFFICES ASSUME TypeOK, HeldTaken, Pixels, NEW t \in Turns
               PROVE  buffer[t] = "live" <=> InFlight(t)
    BY DEF PixelsOwned, PixelsInv
  <2>0. /\ Len(Queued) = Len(taken) + Len(q)
        /\ Len(taken) \in Nat /\ Len(q) \in Nat /\ DOMAIN q = 1 .. Len(q)
        /\ \A i \in 1 .. Len(taken) + Len(q) :
              Queued[i] = IF i <= Len(taken) THEN taken[i] ELSE q[i - Len(taken)]
    BY ConcatProperties, LenProperties DEF Queued, TypeOK
  <2>1. InQueue(t) <=>
          \E i \in 1 .. Len(Queued) : i > Len(taken) /\ Queued[i] = t
    <3>1. ASSUME NEW j \in 1 .. Len(q)
          PROVE  /\ Len(taken) + j \in 1 .. Len(Queued)
                 /\ Len(taken) + j > Len(taken)
                 /\ Queued[Len(taken) + j] = q[j]
      BY <2>0
    <3>2. ASSUME NEW i \in 1 .. Len(Queued), i > Len(taken)
          PROVE  i - Len(taken) \in 1 .. Len(q) /\ Queued[i] = q[i - Len(taken)]
      BY <2>0, <3>2
    <3>3. QED
      BY <2>0, <3>1, <3>2 DEF InQueue
  <2>2. InQueue(t) \/ MainHolds(t) <=> \E i \in Kept : Queued[i] = t
    BY <2>1 DEF Kept, MainHolds, HeldTaken
  <2>3. ReceiverHolds(t) <=> Handed /\ cur = t
    BY DEF ReceiverHolds, Handed
  <2>4. ASSUME InFlight(t) PROVE buffer[t] = "live"
    BY <2>2, <2>3, <2>4 DEF InFlight, Kept, Pixels, PixelsKept, PixelsHanded
  <2>5. ASSUME buffer[t] = "live" PROVE InFlight(t)
    BY <2>2, <2>3, <2>5 DEF InFlight, Pixels, PixelsAccounted, PixelsKept
  <2>6. QED
    BY <2>4, <2>5
<1>2. QED
  BY <1>1, TypeCorrect, HeldAlways, PixelsAlways, PTL
=============================================================================
