--------------------- MODULE FramePipelineMemoryProofs ---------------------
(* More proofs about FramePipeline, for any number of frames and turns,    *)
(* any directories, any queue size and any of the faults: the arrays of    *)
(* the recognition library, the mappings of tensors, and the directories.  *)
EXTENDS FramePipelineProofs

-----------------------------------------------------------------------------
(* Detections and mappings.                                                *)

\* From the detector until the turn is in the queue.
Carrying == rpc \in {"open_image", "remove_tensor", "remove_image", "rotate",
                     "crop", "check", "drop", "push"}
Carried  == Carrying => lpd[cur] = "live"

\* A turn has no detections before the detector has run.
Fresh ==
    \A t \in Turns :
        lpd[t] # "none" =>
            /\ t <= cur
            /\ rpc \in {"open_tensor", "detect", "discard_tensor"} => t # cur

Mappings == \A t \in mapped : lpd[t] = "none"

DetectionsInv == DetectionsLive /\ Carried /\ Fresh /\ Mappings

\* The turn main holds is neither in the queue nor in the receiver's hands.
LEMMA HeldIsElsewhere ==
    ASSUME TypeOK, TurnOrder, HeldTaken, mpc # "pop"
    PROVE  held \in Turns /\ ~InQueue(held) /\ (Active => cur # held)
<1>0. /\ Len(Queued) = Len(taken) + Len(q)
      /\ Len(taken) \in Nat /\ Len(q) \in Nat /\ DOMAIN q = 1 .. Len(q)
      /\ \A i \in 1 .. Len(taken) + Len(q) :
            Queued[i] = IF i <= Len(taken) THEN taken[i] ELSE q[i - Len(taken)]
  BY ConcatProperties, LenProperties DEF Queued, TypeOK
<1>1. PICK k \in 1 .. Len(Queued) : k <= Len(taken) /\ Queued[k] = held
  BY DEF HeldTaken
<1>2. held \in Turns /\ held \in Nat
  BY <1>1, QueuedType DEF Turns
<1>3. ASSUME NEW j \in 1 .. Len(q) PROVE q[j] # held
  <2>1. /\ Len(taken) + j \in 1 .. Len(Queued) /\ k < Len(taken) + j
        /\ Queued[Len(taken) + j] = q[j]
    BY <1>0, <1>1
  <2>2. QED
    BY <1>1, <1>2, <2>1 DEF TurnOrder
<1>4. QED
  BY <1>0, <1>1, <1>2, <1>3 DEF InQueue, TurnOrder

LEMMA DetectionsStep ==
    TypeOK /\ TurnOrder /\ HeldTaken /\ DetectionsInv /\ [Next]_vars
        => DetectionsInv'
<1> SUFFICES ASSUME TypeOK, TurnOrder, HeldTaken, DetectionsInv, [Next]_vars
             PROVE  DetectionsInv'
  OBVIOUS
<1> USE DEF camera, files, loop, queue, main
<1>0. /\ q \in Seq(Turns) /\ taken \in Seq(Turns)
      /\ lpd \in [Turns -> Memory]
      /\ mapped \subseteq Turns /\ Turns \subseteq Nat /\ cur \in Nat
      /\ Active => cur \in Turns
  BY TurnAssumption DEF TypeOK, Active, Turns
<1>1. CASE Detect
  <2>1. /\ lpd' = [lpd EXCEPT ![cur] = "live"] /\ mapped' = mapped \ {cur}
        /\ rpc = "detect" /\ rpc' = "open_image" /\ Active
        /\ UNCHANGED <<cur, q, mpc, held>>
    BY <1>1 DEF Detect, Active, BetweenFrames
  <2>2. DetectionsLive' /\ Carried'
    BY <1>0, <2>1 DEF DetectionsInv, DetectionsLive, Carried, InFlight,
       InQueue, MainHolds, ReceiverHolds
  <2>3. Fresh' /\ Mappings'
    BY <1>0, <2>1 DEF DetectionsInv, Fresh, Mappings
  <2>4. QED
    BY <2>2, <2>3 DEF DetectionsInv
<1>2. CASE Release
  <2>1. /\ lpd' = [lpd EXCEPT ![held] = "freed"] /\ mpc = "release"
        /\ mpc' = "pop"
        /\ UNCHANGED <<rpc, cur, mapped, q, held>>
    BY <1>2 DEF Release
  <2>2. /\ held \in Turns /\ ~InQueue(held) /\ (Active => cur # held)
        /\ lpd[held] = "live"
    BY <2>1, HeldIsElsewhere DEF DetectionsInv, DetectionsLive, InFlight,
       MainHolds
  <2>3. DetectionsLive' /\ Carried'
    BY <1>0, <2>1, <2>2 DEF DetectionsInv, DetectionsLive, Carried, Carrying,
       InFlight, InQueue, MainHolds, ReceiverHolds, Active, BetweenFrames
  <2>4. Fresh' /\ Mappings'
    BY <1>0, <2>1, <2>2 DEF DetectionsInv, Fresh, Mappings
  <2>5. QED
    BY <2>3, <2>4 DEF DetectionsInv
<1>3. CASE DropOldest \/ MainPop
  <2>1. /\ q # << >> /\ q' = Tail(q)
        /\ UNCHANGED <<cur, mapped, lpd>>
    BY <1>3 DEF DropOldest, MainPop, Queue!Take
  <2>2. \A t \in Turns : InQueue(t)' => InQueue(t)
    BY <1>0, <2>1 DEF InQueue
  <2>3. InQueue(Head(q)) /\ Head(q) \in Turns
    BY <1>0, <2>1 DEF InQueue
  <2>4. DetectionsLive'
    BY <1>3, <2>1, <2>2, <2>3 DEF DropOldest, MainPop, DetectionsInv,
       DetectionsLive, InFlight, MainHolds, ReceiverHolds
  <2>5. Carried' /\ Fresh' /\ Mappings'
    BY <1>3, <2>1 DEF DropOldest, MainPop, DetectionsInv, Carried, Carrying,
       Fresh, Mappings
  <2>6. QED
    BY <2>4, <2>5 DEF DetectionsInv
<1>4. CASE Push
  <2>1. /\ q' = Append(q, cur) /\ cur \in Turns /\ rpc = "push" /\ rpc' = "next"
        /\ UNCHANGED <<cur, mapped, lpd, mpc, held>>
    BY <1>0, <1>4 DEF Push, Queue!Put, Active, BetweenFrames
  <2>2. \A t \in Turns : InQueue(t)' => InQueue(t) \/ t = cur
    BY <1>0, <2>1 DEF InQueue
  <2>3. DetectionsLive'
    BY <2>1, <2>2 DEF DetectionsInv, DetectionsLive, Carried, Carrying,
       InFlight, MainHolds, ReceiverHolds
  <2>4. Carried' /\ Fresh' /\ Mappings'
    BY <2>1 DEF DetectionsInv, Carried, Carrying, Fresh, Mappings
  <2>5. QED
    BY <2>3, <2>4 DEF DetectionsInv
<1>5. CASE TakeNext
  <2>1. /\ cur' = cur + 1 /\ rpc = "next" /\ rpc' = "open_tensor"
        /\ UNCHANGED <<mapped, lpd, q, mpc, held>>
    BY <1>5 DEF TakeNext, BeginTurn
  <2>2. DetectionsLive' /\ Carried' /\ Mappings'
    BY <2>1 DEF DetectionsInv, DetectionsLive, Carried, Carrying, Mappings,
       InFlight, InQueue, MainHolds, ReceiverHolds
  <2>3. Fresh'
    BY <1>0, <2>1 DEF DetectionsInv, Fresh
  <2>4. QED
    BY <2>2, <2>3 DEF DetectionsInv
<1>6. CASE OpenTensor
  <2>1. /\ rpc = "open_tensor" /\ rpc' \in {"detect", "discard_tensor"}
        /\ mapped' \subseteq mapped \cup {cur} /\ Active
        /\ UNCHANGED <<cur, lpd, q, mpc, held>>
    BY <1>6 DEF OpenTensor, Active, BetweenFrames
  <2>2. DetectionsLive' /\ Carried' /\ Fresh'
    BY <2>1 DEF DetectionsInv, DetectionsLive, Carried, Carrying, Fresh,
       InFlight, InQueue, MainHolds, ReceiverHolds
  <2>3. Mappings'
    BY <1>0, <2>1 DEF DetectionsInv, Fresh, Mappings
  <2>4. QED
    BY <2>2, <2>3 DEF DetectionsInv
<1>7. CASE \/ BeginScan \/ EndScan \/ ListDone \/ DetectNothing \/ OpenImage
           \/ DiscardTensor \/ DiscardImage \/ RemoveTensor \/ RemoveImage
           \/ Rotate \/ Crop \/ CheckSize
  <2>1. /\ UNCHANGED <<cur, mapped, lpd, q, mpc, held>>
        /\ Carrying' => Carrying
        /\ rpc' \in {"check", "drop", "push"} => Carrying
        /\ rpc' \in {"open_tensor", "detect", "discard_tensor"} =>
              rpc \in {"open_tensor", "detect", "discard_tensor"}
    BY <1>7 DEF BeginScan, EndScan, ListDone, DetectNothing, OpenImage,
       DiscardTensor, DiscardImage, RemoveTensor, RemoveImage, Rotate, Crop,
       CheckSize, Carrying
  <2>2. DetectionsLive' /\ Carried' /\ Mappings'
    BY <2>1 DEF DetectionsInv, DetectionsLive, Carried, Mappings, InFlight,
       InQueue, MainHolds, ReceiverHolds
  <2>3. Fresh'
    BY <2>1 DEF DetectionsInv, Fresh
  <2>4. QED
    BY <2>2, <2>3 DEF DetectionsInv
<1>8. CASE Camera \/ Recognise \/ UNCHANGED vars
  <2>1. /\ UNCHANGED <<rpc, cur, mapped, lpd, q, held>>
        /\ mpc' = "pop" <=> mpc = "pop"
    BY <1>8 DEF Camera, MakeImageDir, WriteImage, MakeTensorDir, WriteTensor,
       Recognise, vars
  <2>2. DetectionsLive' /\ Carried' /\ Fresh' /\ Mappings'
    BY <2>1 DEF DetectionsInv, DetectionsLive, Carried, Carrying, Fresh,
       Mappings, InFlight, InQueue, MainHolds, ReceiverHolds
  <2>3. QED
    BY <2>2 DEF DetectionsInv
<1> QED
  BY <1>1, <1>2, <1>3, <1>4, <1>5, <1>6, <1>7, <1>8 DEF Next, Receiver, Main

LEMMA DetectionsAlways == Spec => []DetectionsInv
<1>1. Init => DetectionsInv
  BY EmptySeq DEF Init, DetectionsInv, DetectionsLive, Carried, Carrying,
     Fresh, Mappings, InFlight, InQueue, MainHolds, ReceiverHolds
<1>2. QED
  BY <1>1, DetectionsStep, TypeCorrect, TurnsAlways, HeldAlways, PTL DEF Spec

(***************************************************************************)
(* The detections of a frame are live as long as the queue or one of the   *)
(* threads has the frame: main never uses detections that were released.   *)
(***************************************************************************)
THEOREM DetectionsOutliveFrames == Spec => []DetectionsLive
<1>1. DetectionsInv => DetectionsLive
  BY DEF DetectionsInv
<1>2. QED
  BY <1>1, DetectionsAlways, PTL

(***************************************************************************)
(* A tensor stays mapped only when the detector has rejected its frame.    *)
(***************************************************************************)
THEOREM RejectedMappingsOnly == Spec => []MappingsOfRejectedOnly
<1>1. TypeOK /\ DetectionsInv => MappingsOfRejectedOnly
  BY DEF TypeOK, DetectionsInv, DetectionsLive, Mappings, MappingsOfRejectedOnly
<1>2. QED
  BY <1>1, DetectionsAlways, TypeCorrect, PTL

-----------------------------------------------------------------------------
(* Directories and results.                                                *)

\* A tensor the receiver has mapped was written, and so was its file.
Written ==
    /\ \A f \in tensor : f <= shotTensors
    /\ rpc = "detect" \/ Carrying => this <= shotTensors

LEMMA WrittenAlways == Spec => []Written
<1>1. Init => Written
  BY DEF Init, Written, Carrying
<1>2. TypeOK /\ Written /\ [Next]_vars => Written'
  <2> SUFFICES ASSUME TypeOK, Written, [Next]_vars PROVE Written'
    OBVIOUS
  <2> USE DEF camera, files, loop, queue, main, Written, Carrying, this
  <2>0. /\ shotTensors \in Nat /\ tensor \subseteq Nat
        /\ ~BetweenFrames => this \in Nat
    <3>1. ~BetweenFrames => cur \in 1 .. cur
      BY TurnAssumption DEF TypeOK, Turns
    <3>2. QED
      BY <3>1, FrameAssumption DEF TypeOK, Frames
  <2>1. CASE WriteTensor
    BY <2>0, <2>1 DEF WriteTensor, BetweenFrames
  <2>2. CASE OpenTensor
    BY <2>2 DEF OpenTensor
  <2>3. CASE DiscardTensor \/ RemoveTensor
    BY <2>3 DEF DiscardTensor, RemoveTensor, RemoveTensorFile
  <2>4. CASE TakeNext
    BY <2>4 DEF TakeNext, BeginTurn
  <2>5. CASE \/ MakeImageDir \/ WriteImage \/ MakeTensorDir \/ BeginScan
             \/ EndScan \/ ListDone \/ Detect \/ DetectNothing \/ OpenImage
             \/ DiscardImage \/ RemoveImage \/ Rotate \/ Crop \/ CheckSize
             \/ DropOldest \/ Push \/ Main \/ UNCHANGED vars
    BY <2>5 DEF MakeImageDir, WriteImage, MakeTensorDir, BeginScan, EndScan,
       ListDone, Detect, DetectNothing, OpenImage, DiscardImage, RemoveImage,
       Rotate, Crop, CheckSize, DropOldest, Push, Main, MainPop, Recognise,
       Release, vars
  <2> QED
    BY <2>1, <2>2, <2>3, <2>4, <2>5 DEF Next, Camera, Receiver
<1>3. QED
  BY <1>1, <1>2, TypeCorrect, PTL DEF Spec

(***************************************************************************)
(* The rotation never removes a directory the camera has made for files it *)
(* still has to write: it removes the directory before that of the frame   *)
(* in hand, both files of which are written, and the camera never goes     *)
(* back to an earlier directory.                                           *)
(***************************************************************************)
THEOREM CameraDirsAreSafe == Spec => CameraKeepsDirs
<1> DEFINE Keeps ==
      \A f \in Frames :
          /\ f > shotImages /\ Dir[f] \in imageDirs => Dir[f] \in imageDirs'
          /\ f > shotTensors /\ Dir[f] \in tensorDirs => Dir[f] \in tensorDirs'
<1>1. TypeOK /\ OrderInv /\ Written /\ [Next]_vars => [Keeps]_vars
  <2> SUFFICES ASSUME TypeOK, OrderInv, Written, Next PROVE Keeps
    OBVIOUS
  <2> USE DEF camera, files
  <2>1. CASE Rotate
    <3>1. /\ this \in Frames /\ this <= shotImages /\ this <= shotTensors
          /\ shotImages \in Nat /\ shotTensors \in Nat /\ Frames \subseteq Nat
      <4>1. cur \in 1 .. cur
        BY <2>1, TurnAssumption DEF Rotate, TypeOK, BetweenFrames, Turns
      <4>2. this \in Frames /\ this <= shotImages
        BY <4>1 DEF TypeOK, OrderInv, ScanInv, this
      <4>3. this <= shotTensors
        BY <2>1 DEF Rotate, Written, Carrying
      <4>4. shotImages \in Nat /\ shotTensors \in Nat /\ Frames \subseteq Nat
        BY FrameAssumption DEF TypeOK, Frames
      <4>5. QED
        BY <4>2, <4>3, <4>4
    <3>2. \A d \in Nat : /\ d \in imageDirs /\ d \notin imageDirs' => d < Dir[this]
                         /\ d \in tensorDirs /\ d \notin tensorDirs' => d < Dir[this]
      BY <2>1 DEF Rotate, RemoveDir
    <3>3. ASSUME NEW f \in Frames, f > this
          PROVE  Dir[f] \in Nat /\ ~(Dir[f] < Dir[this])
      <4>1. Dir[this] <= Dir[f] /\ Dir[f] \in Nat /\ Dir[this] \in Nat
        BY <3>1, <3>3, DirAssumption
      <4>2. QED
        BY <4>1
    <3>4. \A f \in Frames : f > shotImages \/ f > shotTensors => f > this
      BY <3>1
    <3>5. QED
      BY <3>2, <3>3, <3>4
  <2>2. CASE MakeImageDir \/ WriteImage \/ MakeTensorDir \/ WriteTensor
    BY <2>2 DEF MakeImageDir, WriteImage, MakeTensorDir, WriteTensor
  <2>3. CASE DiscardTensor \/ DiscardImage \/ RemoveTensor \/ RemoveImage
    BY <2>3 DEF DiscardTensor, DiscardImage, RemoveTensor, RemoveImage
  <2>4. CASE \/ BeginScan \/ EndScan \/ TakeNext \/ ListDone \/ OpenTensor
             \/ Detect \/ DetectNothing \/ OpenImage \/ Crop \/ CheckSize
             \/ DropOldest \/ Push \/ Main
    BY <2>4 DEF BeginScan, EndScan, TakeNext, BeginTurn, ListDone, OpenTensor,
       Detect, DetectNothing, OpenImage, Crop, CheckSize, DropOldest, Push,
       Main, MainPop, Recognise, Release
  <2> QED
    BY <2>1, <2>2, <2>3, <2>4 DEF Next, Camera, Receiver
<1> HIDE DEF Keeps
<1>2. Spec => [][Keeps]_vars
  BY <1>1, TypeCorrect, OrderAlways, WrittenAlways, PTL DEF Spec
<1>3. QED
  BY <1>2 DEF Keeps, CameraKeepsDirs

(***************************************************************************)
(* No recognition is lost: an array TS_LPR_run has allocated is released   *)
(* before main pops another frame, also when later recognitions fail.      *)
(***************************************************************************)
THEOREM ResultsNotLost == Spec => []ResultsReleased
<1>1. Init => ResultsReleased
  BY DEF Init, ResultsReleased
<1>2. TypeOK /\ ResultsReleased /\ [Next]_vars => ResultsReleased'
  <2> SUFFICES ASSUME TypeOK, ResultsReleased, [Next]_vars
               PROVE  ResultsReleased'
    OBVIOUS
  <2> USE DEF ResultsReleased, main
  <2>0. lpr \in [Turns -> Memory] /\ None \notin Turns
    BY TurnAssumption DEF TypeOK, Turns, None
  <2>1. CASE Recognise
    BY <2>0, <2>1 DEF Recognise, TypeOK
  <2>2. CASE Release
    BY <2>0, <2>2 DEF Release, TypeOK
  <2>3. CASE MainPop
    BY <2>3 DEF MainPop
  <2>4. CASE Camera \/ Receiver \/ UNCHANGED vars
    BY <2>4 DEF Camera, MakeImageDir, WriteImage, MakeTensorDir, WriteTensor,
       Receiver, BeginScan, EndScan,
       TakeNext, BeginTurn, ListDone, OpenTensor, Detect, DetectNothing,
       DiscardTensor, DiscardImage, OpenImage, RemoveTensor, RemoveImage,
       Rotate, Crop, CheckSize, DropOldest, Push, vars
  <2>5. QED
    BY <2>1, <2>2, <2>3, <2>4 DEF Next, Main
<1>3. QED
  BY <1>1, <1>2, TypeCorrect, PTL DEF Spec

-----------------------------------------------------------------------------
(* Releases.                                                               *)

\* Between the recognition and the releases.
ResultReady ==
    mpc = "release" /\ "lpr" \notin Faults => result = held /\ lpr[held] = "live"

LEMMA ResultAlways == Spec => []ResultReady
<1>1. Init => ResultReady
  BY DEF Init, ResultReady
<1>2. TypeOK /\ ResultReady /\ [Next]_vars => ResultReady'
  <2> SUFFICES ASSUME TypeOK, ResultReady, [Next]_vars PROVE ResultReady'
    OBVIOUS
  <2> USE DEF ResultReady, main
  <2>1. CASE Recognise
    BY <2>1 DEF Recognise, TypeOK
  <2>2. CASE MainPop \/ Release
    BY <2>2 DEF MainPop, Release
  <2>3. CASE Camera \/ Receiver \/ UNCHANGED vars
    BY <2>3 DEF Camera, MakeImageDir, WriteImage, MakeTensorDir, WriteTensor,
       Receiver, BeginScan, EndScan,
       TakeNext, BeginTurn, ListDone, OpenTensor, Detect, DetectNothing,
       DiscardTensor, DiscardImage, OpenImage, RemoveTensor, RemoveImage,
       Rotate, Crop, CheckSize, DropOldest, Push, vars
  <2>4. QED
    BY <2>1, <2>2, <2>3 DEF Next, Main
<1>3. QED
  BY <1>1, <1>2, TypeCorrect, PTL DEF Spec

\* While crops succeed, what is queued or held has its own, live pixels.
LEMMA OwnPixels ==
    ASSUME TypeOK, HeldTaken, PixelsOwned, CropsSucceeded, NEW t \in Turns,
           InQueue(t) \/ MainHolds(t)
    PROVE  data[t] = t /\ buffer[data[t]] = "live"
<1>1. \E i \in 1 .. Len(Queued) : Queued[i] = t
  <2>0. /\ Len(Queued) = Len(taken) + Len(q)
        /\ Len(taken) \in Nat /\ Len(q) \in Nat /\ DOMAIN q = 1 .. Len(q)
        /\ \A i \in 1 .. Len(taken) + Len(q) :
              Queued[i] = IF i <= Len(taken) THEN taken[i] ELSE q[i - Len(taken)]
    BY ConcatProperties, LenProperties DEF Queued, TypeOK
  <2>1. CASE InQueue(t)
    <3>1. PICK j \in 1 .. Len(q) : q[j] = t
      BY <2>0, <2>1 DEF InQueue
    <3>2. Len(taken) + j \in 1 .. Len(Queued) /\ Queued[Len(taken) + j] = t
      BY <2>0, <3>1
    <3>3. QED
      BY <3>2
  <2>2. CASE MainHolds(t)
    BY <2>2 DEF MainHolds, HeldTaken
  <2>3. QED
    BY <2>1, <2>2
<1>2. data[t] = t
  BY <1>1, QueuedType DEF CropsSucceeded
<1>3. buffer[t] = "live"
  BY DEF PixelsOwned, InFlight
<1>4. QED
  BY <1>2, <1>3

(***************************************************************************)
(* Nothing is released twice: what either thread is about to release is    *)
(* live, and the two never release the same pixels.                        *)
(***************************************************************************)
THEOREM NothingReleasedTwice == Spec => []ReleasesLive
<1>1. TypeOK /\ TurnOrder /\ HeldTaken /\ DetectionsInv /\ PixelsOwned
         /\ ResultReady => ReleasesLive
  <2> SUFFICES ASSUME TypeOK, TurnOrder, HeldTaken, DetectionsInv, PixelsOwned,
                      ResultReady
               PROVE  ReleasesLive
    OBVIOUS
  <2>1. ASSUME mpc = "release"
        PROVE  /\ held \in Turns /\ ~InQueue(held) /\ MainHolds(held)
               /\ lpd[held] = "live"
    BY <2>1, HeldIsElsewhere DEF DetectionsInv, DetectionsLive, InFlight,
       MainHolds
  <2>2. ASSUME q # << >>
        PROVE  Head(q) \in Turns /\ InQueue(Head(q))
    <3>1. q \in Seq(Turns)
      BY DEF TypeOK
    <3>2. QED
      BY <2>2, <3>1 DEF InQueue
  <2>3. ASSUME CropsSucceeded, NEW t \in Turns, InQueue(t) \/ MainHolds(t)
        PROVE  data[t] = t /\ buffer[data[t]] = "live"
    BY <2>3, OwnPixels
  <2>4. QED
    BY <2>1, <2>2, <2>3 DEF ReleasesLive, ResultReady
<1>2. QED
  BY <1>1, TypeCorrect, TurnsAlways, HeldAlways, DetectionsAlways,
     PixelsHaveOneOwner, ResultAlways, PTL

(***************************************************************************)
(* A crop that fails is the only way to recognise a frame without pixels   *)
(* of its own: as long as crops succeed, TS_LPR_run gets the frame's image.*)
(***************************************************************************)
THEOREM ImagesWhereCropsSucceed == Spec => [](CropsSucceeded => InputIsImage)
<1>1. TypeOK /\ HeldTaken /\ PixelsOwned => (CropsSucceeded => InputIsImage)
  <2> SUFFICES ASSUME TypeOK, HeldTaken, PixelsOwned, CropsSucceeded, mpc = "run"
               PROVE  data[held] = held /\ buffer[held] = "live"
    BY DEF InputIsImage
  <2>1. held \in Turns /\ MainHolds(held)
    BY DEF TypeOK, MainHolds
  <2>2. QED
    BY <2>1, OwnPixels
<1>2. QED
  BY <1>1, TypeCorrect, HeldAlways, PixelsHaveOneOwner, PTL

(***************************************************************************)
(* Two threads inside pop() of the empty queue are never woken: no step of *)
(* the camera, the only part that still moves, helps them.                 *)
(***************************************************************************)
THEOREM StuckForGood == Spec => [][Stuck => Stuck']_vars
<1>1. [Next]_vars => [Stuck => Stuck']_vars
  BY DEF Next, Camera, Receiver, Main, MakeImageDir, WriteImage,
     MakeTensorDir, WriteTensor, BeginScan, EndScan,
     TakeNext, ListDone, OpenTensor, Detect, DetectNothing, DiscardTensor,
     DiscardImage, OpenImage, RemoveTensor, RemoveImage, Rotate, Crop,
     CheckSize, DropOldest, Push, MainPop, Recognise, Release, Queue!Take,
     Stuck, queue, main
<1>2. QED
  BY <1>1, PTL DEF Spec

-----------------------------------------------------------------------------
(* The ways to lose detections and tensors.                                *)

\* The detector and the image are tried while the tensor file is there.
TensorThere == rpc \in {"detect", "open_image"} => this \in tensor
DetectionsKept ==
    \A t \in Turns : lpd[t] = "live" =>
        \/ InFlight(t) \/ BeingPrepared(t)
        \/ frame[t] \in tensor \cup keptImages
LeakInv == TensorThere /\ DetectionsKept

\* An earlier turn with the same frame was one whose image has been kept.
LEMMA EarlierTurnKept ==
    ASSUME TypeOK, OrderInv, Active, NEW t \in 1 .. cur, t # cur,
           frame[t] = this
    PROVE  this \in keptImages
<1>1. t < cur /\ cur \in 1 .. cur
  BY TurnAssumption DEF TypeOK, Active, Turns
<1>2. QED
  BY <1>1 DEF OrderInv, Ordered, Later, this

LEMMA LeakStep ==
    TypeOK /\ OrderInv /\ DetectionsInv /\ LeakInv /\ rpc # "drop"
        /\ [Next]_vars => LeakInv'
<1> SUFFICES ASSUME TypeOK, OrderInv, DetectionsInv, LeakInv, rpc # "drop",
                    [Next]_vars
             PROVE  LeakInv'
  OBVIOUS
<1> USE DEF camera, files, loop, queue, main
<1>0. /\ q \in Seq(Turns) /\ lpd \in [Turns -> Memory]
      /\ (~BetweenFrames => cur \in Turns)
  BY DEF TypeOK
<1>1. CASE WriteTensor
  <2>1. tensor \subseteq tensor'
        /\ UNCHANGED <<rpc, cur, frame, keptImages, lpd, q, mpc, held>>
    BY <1>1 DEF WriteTensor
  <2>2. QED
    BY <2>1 DEF LeakInv, TensorThere, DetectionsKept, InFlight, InQueue,
       MainHolds, ReceiverHolds, BeingPrepared, this
<1>2. CASE OpenTensor
  BY <1>2 DEF OpenTensor, LeakInv, TensorThere, DetectionsKept, InFlight,
     InQueue, MainHolds, ReceiverHolds, BeingPrepared, this
<1>3. CASE Detect
  <2>1. /\ rpc = "detect" /\ rpc' = "open_image" /\ this \in tensor
        /\ lpd' = [lpd EXCEPT ![cur] = "live"]
        /\ UNCHANGED <<cur, frame, tensor, keptImages, q, mpc, held>>
    BY <1>3 DEF Detect, LeakInv, TensorThere
  <2>2. QED
    BY <1>0, <2>1 DEF LeakInv, TensorThere, DetectionsKept, InFlight, InQueue,
       MainHolds, ReceiverHolds, BeingPrepared, this
<1>4. CASE DetectNothing \/ DiscardImage \/ BeginScan \/ EndScan \/ ListDone
  <2>1. /\ rpc \in {"detect", "discard_image", "scan", "scanning", "next"}
        /\ rpc' \notin {"detect", "open_image"}
        /\ keptImages \subseteq keptImages'
        /\ UNCHANGED <<tensor, frame, lpd, q, mpc, held>>
    BY <1>4 DEF DetectNothing, DiscardImage, RemoveImageFile, BeginScan,
       EndScan, ListDone
  <2>2. QED
    BY <2>1 DEF LeakInv, TensorThere, DetectionsKept, InFlight, InQueue,
       MainHolds, ReceiverHolds, BeingPrepared
<1>5. CASE TakeNext
  <2>1. PICK f \in listed : BeginTurn(f)
    BY <1>5 DEF TakeNext
  <2>2. /\ rpc = "next" /\ rpc' = "open_tensor" /\ cur' = cur + 1
        /\ frame' = [frame EXCEPT ![cur'] = f]
        /\ UNCHANGED <<tensor, keptImages, lpd, q, mpc, held>>
    BY <1>5, <2>1 DEF TakeNext, BeginTurn
  <2>3. ASSUME NEW t \in Turns, lpd[t] = "live" PROVE frame'[t] = frame[t]
    <3>1. t <= cur /\ t \in Nat /\ cur \in Nat
      BY <2>3, TurnAssumption DEF DetectionsInv, Fresh, TypeOK, Turns
    <3>2. QED
      BY <2>2, <3>1 DEF TypeOK
  <2>4. QED
    BY <2>2, <2>3 DEF LeakInv, TensorThere, DetectionsKept, InFlight, InQueue,
       MainHolds, ReceiverHolds, BeingPrepared
<1>6. CASE DiscardTensor \/ RemoveTensor
  <2>1. /\ tensor \ {this} \subseteq tensor'
        /\ rpc' \notin {"detect", "open_image"} /\ Active
        /\ UNCHANGED <<cur, frame, keptImages, lpd, q, mpc, held>>
    BY <1>6 DEF DiscardTensor, RemoveTensor, RemoveTensorFile, Active,
       BetweenFrames
  <2>2. ASSUME NEW t \in Turns, lpd[t] = "live", frame[t] = this, t # cur
        PROVE  this \in keptImages
    <3>1. t \in 1 .. cur
      BY <2>2, TurnAssumption DEF DetectionsInv, Fresh, TypeOK, Turns
    <3>2. QED
      BY <2>1, <2>2, <3>1, EarlierTurnKept
  <2>3. CASE DiscardTensor
    <3>1. /\ rpc = "discard_tensor" /\ lpd[cur] # "live"
      BY <1>0, <2>3 DEF DiscardTensor, BetweenFrames, DetectionsInv, Fresh
    <3>2. QED
      BY <2>1, <2>2, <3>1 DEF LeakInv, TensorThere, DetectionsKept, InFlight,
         InQueue, MainHolds, ReceiverHolds, BeingPrepared
  <2>4. CASE RemoveTensor
    <3>1. rpc = "remove_tensor" /\ rpc' = "remove_image"
      BY <2>4 DEF RemoveTensor
    <3>2. QED
      BY <2>1, <2>2, <3>1 DEF LeakInv, TensorThere, DetectionsKept, InFlight,
         InQueue, MainHolds, ReceiverHolds, BeingPrepared
  <2>5. QED
    BY <1>6, <2>3, <2>4
<1>7. CASE OpenImage
  <2>1. /\ rpc = "open_image" /\ this \in tensor
        /\ rpc' \in {"remove_tensor", "discard_image"}
        /\ UNCHANGED <<tensor, cur, frame, keptImages, lpd, q, mpc, held>>
    BY <1>7 DEF OpenImage, LeakInv, TensorThere
  <2>2. QED
    BY <2>1 DEF LeakInv, TensorThere, DetectionsKept, InFlight, InQueue,
       MainHolds, ReceiverHolds, BeingPrepared, this
<1>8. CASE RemoveImage \/ Rotate \/ Crop \/ CheckSize
  <2>1. /\ \/ BeingPrepared(cur) /\ (BeingPrepared(cur)' \/ ReceiverHolds(cur)')
           \/ ReceiverHolds(cur) /\ ReceiverHolds(cur)'
        /\ rpc' \notin {"detect", "open_image"}
        /\ keptImages \subseteq keptImages'
        /\ UNCHANGED <<tensor, cur, frame, lpd, q, mpc, held>>
    BY <1>8 DEF RemoveImage, RemoveImageFile, Rotate, Crop, CheckSize,
       BeingPrepared, ReceiverHolds
  <2>2. QED
    BY <2>1 DEF LeakInv, TensorThere, DetectionsKept, InFlight, InQueue,
       MainHolds, ReceiverHolds, BeingPrepared
<1>9. CASE Push
  <2>1. /\ rpc = "push" /\ rpc' = "next" /\ q' = Append(q, cur) /\ cur \in Turns
        /\ UNCHANGED <<cur, frame, tensor, keptImages, lpd, mpc, held>>
    BY <1>0, <1>9 DEF Push, Queue!Put, BetweenFrames
  <2>2. InQueue(cur)' /\ \A t \in Turns : InQueue(t) => InQueue(t)'
    BY <1>0, <2>1 DEF InQueue
  <2>3. QED
    BY <2>1, <2>2 DEF LeakInv, TensorThere, DetectionsKept, InFlight,
       MainHolds, ReceiverHolds, BeingPrepared
<1>10. CASE MainPop
  <2>1. /\ q # << >> /\ q' = Tail(q) /\ held' = Head(q)
        /\ mpc = "pop" /\ mpc' = "run"
        /\ UNCHANGED <<rpc, cur, frame, tensor, keptImages, lpd>>
    BY <1>10 DEF MainPop, Queue!Take
  <2>2. \A t \in Turns : InQueue(t) => InQueue(t)' \/ t = Head(q)
    <3>1. ASSUME NEW i \in DOMAIN q, i # 1 PROVE i - 1 \in DOMAIN q' /\ q'[i - 1] = q[i]
      BY <1>0, <2>1, <3>1
    <3>2. q[1] = Head(q)
      BY <1>0, <2>1
    <3>3. QED
      BY <3>1, <3>2 DEF InQueue
  <2>3. QED
    BY <2>1, <2>2 DEF LeakInv, TensorThere, DetectionsKept, InFlight,
       MainHolds, ReceiverHolds, BeingPrepared, this
<1>11. CASE Release
  <2>1. /\ lpd' = [lpd EXCEPT ![held] = "freed"]
        /\ UNCHANGED <<rpc, cur, frame, tensor, keptImages, q, held>>
    BY <1>11 DEF Release
  <2>2. QED
    BY <1>0, <2>1 DEF LeakInv, TensorThere, DetectionsKept, InFlight, InQueue,
       MainHolds, ReceiverHolds, BeingPrepared, this
<1>12. CASE \/ MakeImageDir \/ WriteImage \/ MakeTensorDir \/ Recognise
            \/ UNCHANGED vars
  <2>1. /\ UNCHANGED <<rpc, cur, frame, tensor, keptImages, lpd, q, held>>
        /\ mpc' = "pop" <=> mpc = "pop"
    BY <1>12 DEF MakeImageDir, WriteImage, MakeTensorDir, Recognise, vars
  <2>2. QED
    BY <2>1 DEF LeakInv, TensorThere, DetectionsKept, InFlight, InQueue,
       MainHolds, ReceiverHolds, BeingPrepared, this
<1> QED
  BY <1>1, <1>2, <1>3, <1>4, <1>5, <1>6, <1>7, <1>8, <1>9, <1>10, <1>11, <1>12
     DEF Next, Camera, Receiver, Main, DropOldest

(***************************************************************************)
(* Detections are lost only by dropping a frame of a full queue, or with   *)
(* an image that cannot be opened.                                         *)
(***************************************************************************)
THEOREM DropsLoseDetections == Spec => LeakNeedsFullQueue
<1>1. Init => LeakInv
  BY DEF Init, LeakInv, TensorThere, DetectionsKept
<1>2. Spec /\ [](rpc # "drop") => []LeakInv
  BY <1>1, LeakStep, TypeCorrect, OrderAlways, DetectionsAlways, PTL DEF Spec
<1>3. Spec /\ [](rpc # "drop") => []DetectionsKept
  <2>1. LeakInv => DetectionsKept
    BY DEF LeakInv
  <2>2. QED
    BY <1>2, <2>1, PTL
<1>4. QED
  BY <1>3 DEF LeakNeedsFullQueue, DetectionsKept

\* While the camera writes tensors first: a tensor goes before its image, and
\* no frame that was queued has one that could be removed.
TensorsFirst == shotImages <= shotTensors
TensorsKept  ==
    \A f \in tensor :
        f <= shotImages =>
            \/ f \in image \/ f \in keptTensors
            \/ \E t \in Turns : frame[t] = f /\ lpd[t] = "live"
Gone(f) == f \in tensor => f \in keptTensors
OrphanInv ==
    /\ TensorsKept
    /\ rpc = "discard_image" => Gone(this) \/ lpd[cur] = "live"
    /\ rpc \in {"remove_image", "rotate", "crop", "check", "drop", "push"} =>
          Gone(this)
    /\ \A i \in 1 .. Len(Queued) : Gone(frame[Queued[i]])

\* Steps that add no tensor, keep no fewer, and change no detections.
LEMMA OrphanQuiet ==
    ASSUME OrphanInv, Queued' = Queued, tensor' \subseteq tensor,
           keptTensors \subseteq keptTensors',
           UNCHANGED <<shotImages, image, lpd>>,
           \A i \in 1 .. Len(Queued) : frame'[Queued[i]] = frame[Queued[i]],
           \A t \in Turns : lpd[t] = "live" => frame'[t] = frame[t],
           rpc' = "discard_image" => Gone(this)' \/ lpd'[cur'] = "live",
           rpc' \in {"remove_image", "rotate", "crop", "check", "drop", "push"}
               => Gone(this)'
    PROVE  OrphanInv'
<1>1. TensorsKept'
  BY DEF OrphanInv, TensorsKept
<1>2. \A i \in 1 .. Len(Queued') : Gone(frame[Queued[i]])'
  BY DEF OrphanInv, Gone
<1>3. QED
  BY <1>1, <1>2 DEF OrphanInv

LEMMA OrphanStep ==
    TypeOK /\ TurnOrder /\ OrderInv /\ HeldTaken /\ DetectionsInv /\ OrphanInv
        /\ TensorsFirst /\ [Next]_vars => OrphanInv'
<1> SUFFICES ASSUME TypeOK, TurnOrder, OrderInv, HeldTaken, DetectionsInv,
                    OrphanInv, TensorsFirst, [Next]_vars
             PROVE  OrphanInv'
  OBVIOUS
<1> USE DEF camera, files, loop, queue, main
<1>0. /\ Queued \in Seq(Turns) /\ Len(Queued) \in Nat
      /\ \A i \in 1 .. Len(Queued) :
            Queued[i] \in Turns /\ frame[Queued[i]] <= shotImages
      /\ q \in Seq(Turns) /\ taken \in Seq(Turns)
      /\ lpd \in [Turns -> Memory] /\ tensor \subseteq Frames
      /\ shotImages \in Nat /\ shotTensors \in Nat /\ Frames \subseteq Nat
      /\ ~BetweenFrames => cur \in Turns /\ this \in Frames /\ this <= shotImages
  <2>1. \A i \in 1 .. Len(Queued) : frame[Queued[i]] <= shotImages
    BY DEF TurnOrder, OrderInv, ScanInv
  <2>2. ~BetweenFrames => cur \in Turns /\ cur \in 1 .. cur
    BY TurnAssumption DEF TypeOK, Turns
  <2>3. ~BetweenFrames => this \in Frames /\ this <= shotImages
    BY <2>2 DEF TypeOK, OrderInv, ScanInv, this
  <2>4. shotImages \in Nat /\ shotTensors \in Nat /\ Frames \subseteq Nat
    BY FrameAssumption DEF TypeOK, Frames
  <2>5. QED
    BY <2>1, <2>2, <2>3, <2>4, QueuedType DEF TypeOK
<1>1. CASE WriteImage
  <2>1. /\ shotImages' = shotImages + 1 /\ image' = image \cup {shotImages'}
        /\ UNCHANGED <<tensor, keptTensors, rpc, cur, frame, lpd, q, taken>>
    BY <1>1 DEF WriteImage
  <2>2. Queued' = Queued
    BY <2>1 DEF Queued
  <2>3. \A f \in tensor : f <= shotImages' => f <= shotImages \/ f \in image'
    BY <1>0, <2>1
  <2>4. TensorsKept'
    BY <2>1, <2>3 DEF OrphanInv, TensorsKept
  <2>5. QED
    BY <2>1, <2>2, <2>4 DEF OrphanInv, Gone, this
<1>2. CASE WriteTensor
  <2>1. PICK new \in Nat : new = shotTensors + 1
    BY <1>0
  <2>2. /\ tensor' = tensor \cup {new} /\ new > shotImages
        /\ UNCHANGED <<shotImages, image, keptTensors, rpc, cur, frame, lpd>>
        /\ UNCHANGED <<q, taken>>
    BY <1>0, <1>2, <2>1 DEF WriteTensor, TensorsFirst
  <2>3. Queued' = Queued
    BY <2>2 DEF Queued
  <2>4. TensorsKept'
    BY <1>0, <2>2 DEF OrphanInv, TensorsKept
  <2>5. \A f \in Nat : f <= shotImages /\ Gone(f) => Gone(f)'
    BY <1>0, <2>2 DEF Gone
  <2>6. this' = this /\ (~BetweenFrames => this \in Nat)
    BY <1>0, <2>2 DEF this
  <2>7. /\ rpc = "discard_image" => Gone(this)' \/ lpd[cur] = "live"
        /\ rpc \in {"remove_image", "rotate", "crop", "check", "drop", "push"} =>
              Gone(this)'
    BY <1>0, <2>5, <2>6 DEF OrphanInv, BetweenFrames, Gone
  <2>8. \A i \in 1 .. Len(Queued) : Gone(frame[Queued[i]])'
    <3>1. \A i \in 1 .. Len(Queued) : frame[Queued[i]] # new
      BY <1>0, <2>2
    <3>2. QED
      BY <2>2, <2>3, <3>1 DEF OrphanInv, Gone
  <2>9. QED
    BY <2>2, <2>3, <2>4, <2>7, <2>8 DEF OrphanInv
<1>3. CASE \/ MakeImageDir \/ MakeTensorDir \/ BeginScan \/ EndScan \/ ListDone
           \/ OpenTensor \/ DetectNothing \/ DiscardTensor \/ RemoveTensor
           \/ Rotate \/ Crop \/ CheckSize \/ OpenImage \/ Recognise
           \/ UNCHANGED vars
  <2>1. /\ UNCHANGED <<q, taken, shotImages, image, frame, cur, lpd>>
        /\ tensor' \subseteq tensor /\ keptTensors \subseteq keptTensors'
    BY <1>3 DEF MakeImageDir, MakeTensorDir, BeginScan, EndScan, ListDone,
       OpenTensor, DetectNothing, DiscardTensor, RemoveTensor, Rotate, Crop,
       CheckSize, OpenImage, Recognise, RemoveTensorFile, vars
  <2>2. Queued' = Queued /\ this' = this
    BY <2>1 DEF Queued, this
  <2>3. Gone(this) => Gone(this)'
    BY <2>1, <2>2 DEF Gone
  <2>4. DiscardTensor \/ RemoveTensor => Gone(this)'
    BY <2>2 DEF DiscardTensor, RemoveTensor, RemoveTensorFile, Gone
  <2>5. rpc' = "discard_image" => Gone(this)' \/ lpd'[cur'] = "live"
    <3>1. rpc = "open_image" => lpd[cur] = "live"
      BY DEF DetectionsInv, Carried, Carrying
    <3>2. \/ rpc' # "discard_image" \/ DiscardTensor
          \/ rpc = "discard_image" \/ rpc = "open_image"
      BY <1>3 DEF MakeImageDir, MakeTensorDir, BeginScan, EndScan, ListDone,
         OpenTensor, DetectNothing, DiscardTensor, RemoveTensor, Rotate, Crop,
         CheckSize, OpenImage, Recognise, vars
    <3>3. QED
      BY <2>1, <2>3, <2>4, <3>1, <3>2 DEF OrphanInv
  <2>6. rpc' \in {"remove_image", "rotate", "crop", "check", "drop", "push"}
            => Gone(this)'
    <3>1. \/ rpc' \notin {"remove_image", "rotate", "crop", "check", "drop",
                          "push"}
          \/ RemoveTensor
          \/ rpc \in {"remove_image", "rotate", "crop", "check", "drop", "push"}
      BY <1>3 DEF MakeImageDir, MakeTensorDir, BeginScan, EndScan, ListDone,
         OpenTensor, DetectNothing, DiscardTensor, RemoveTensor, Rotate, Crop,
         CheckSize, OpenImage, Recognise, vars
    <3>2. QED
      BY <2>3, <2>4, <3>1 DEF OrphanInv
  <2>7. QED
    BY <2>1, <2>2, <2>5, <2>6, OrphanQuiet
<1>4. CASE TakeNext
  <2>1. PICK f \in listed : BeginTurn(f)
    BY <1>4 DEF TakeNext
  <2>2. /\ rpc' = "open_tensor" /\ cur' = cur + 1 /\ cur \in Nat
        /\ frame' = [frame EXCEPT ![cur'] = f]
        /\ UNCHANGED <<shotImages, image, tensor, keptTensors, lpd, q, taken>>
    BY <2>1, TurnAssumption DEF BeginTurn, TypeOK
  <2>3. Queued' = Queued
    BY <2>2 DEF Queued
  <2>4. ASSUME NEW t \in Turns, t <= cur PROVE frame'[t] = frame[t]
    <3>1. t # cur'
      BY <2>2, <2>4, TurnAssumption DEF Turns
    <3>2. QED
      BY <2>2, <3>1 DEF TypeOK
  <2>5. \A t \in Turns : lpd[t] = "live" => t <= cur
    BY DEF DetectionsInv, Fresh
  <2>6. \A i \in 1 .. Len(Queued) : Queued[i] <= cur
    BY DEF TurnOrder
  <2>7. QED
    BY <1>0, <2>2, <2>3, <2>4, <2>5, <2>6, OrphanQuiet
<1>5. CASE Detect
  <2>1. /\ lpd' = [lpd EXCEPT ![cur] = "live"] /\ rpc' = "open_image"
        /\ UNCHANGED <<shotImages, image, tensor, keptTensors, cur, frame>>
        /\ UNCHANGED <<q, taken>>
    BY <1>5 DEF Detect
  <2>2. Queued' = Queued
    BY <2>1 DEF Queued
  <2>3. TensorsKept'
    BY <1>0, <2>1 DEF OrphanInv, TensorsKept
  <2>4. QED
    BY <2>1, <2>2, <2>3 DEF OrphanInv, Gone
<1>6. CASE DiscardImage \/ RemoveImage
  <2>1. /\ image \ {this} \subseteq image' /\ rpc' \in {"next", "rotate"}
        /\ Gone(this) \/ (lpd[cur] = "live" /\ rpc' = "next")
        /\ UNCHANGED <<shotImages, tensor, keptTensors, cur, frame, lpd>>
        /\ UNCHANGED <<q, taken>> /\ ~BetweenFrames
    BY <1>6 DEF DiscardImage, RemoveImage, RemoveImageFile, OrphanInv,
       BetweenFrames
  <2>2. Queued' = Queued
    BY <2>1 DEF Queued
  <2>3. TensorsKept'
    BY <1>0, <2>1 DEF OrphanInv, TensorsKept, Gone, this
  <2>4. QED
    BY <2>1, <2>2, <2>3 DEF OrphanInv, Gone, this
<1>7. CASE DropOldest \/ MainPop
  <2>1. Queued' = Queued
    BY <1>0, <1>7, TakeKeepsQueued DEF DropOldest, MainPop
  <2>2. /\ UNCHANGED <<shotImages, image, tensor, keptTensors, cur, frame, lpd>>
        /\ \/ rpc' = rpc
           \/ rpc = "drop" /\ rpc' = "push"
    BY <1>7 DEF DropOldest, MainPop
  <2>3. (Gone(this) => Gone(this)')
    BY <2>2 DEF Gone, this
  <2>4. QED
    BY <2>1, <2>2, <2>3, OrphanQuiet DEF OrphanInv
<1>8. CASE Push
  <2>1. /\ Queued' = Append(Queued, cur) /\ cur \in Turns /\ Gone(this)
        /\ rpc' = "next"
        /\ UNCHANGED <<shotImages, image, tensor, keptTensors, cur, frame, lpd>>
    BY <1>0, <1>8, PutExtendsQueued DEF Push, BetweenFrames, OrphanInv
  <2>2. /\ Len(Queued') = Len(Queued) + 1
        /\ \A i \in 1 .. Len(Queued) : Queued'[i] = Queued[i]
        /\ Queued'[Len(Queued) + 1] = cur
    BY <1>0, <2>1, AppendProperties
  <2>3. ASSUME NEW i \in 1 .. Len(Queued') PROVE Gone(frame[Queued[i]])'
    <3>1. i \in 1 .. Len(Queued) \/ i = Len(Queued) + 1
      BY <1>0, <2>2
    <3>2. QED
      BY <2>1, <2>2, <3>1 DEF OrphanInv, Gone, this
  <2>4. TensorsKept'
    BY <2>1 DEF OrphanInv, TensorsKept
  <2>5. QED
    BY <2>1, <2>3, <2>4 DEF OrphanInv
<1>9. CASE Release
  <2>1. /\ lpd' = [lpd EXCEPT ![held] = "freed"] /\ mpc = "release"
        /\ UNCHANGED <<shotImages, image, tensor, keptTensors, rpc, cur, frame>>
        /\ UNCHANGED <<q, taken>>
    BY <1>9 DEF Release
  <2>2. Queued' = Queued
    BY <2>1 DEF Queued
  <2>3. held \in Turns /\ (Active => cur # held)
    BY <2>1, HeldIsElsewhere
  <2>4. Gone(frame[held])
    BY <2>1 DEF HeldTaken, OrphanInv
  <2>5. TensorsKept'
    BY <1>0, <2>1, <2>3, <2>4 DEF OrphanInv, TensorsKept, Gone
  <2>6. rpc = "discard_image" /\ lpd[cur] = "live" => lpd'[cur] = "live"
    BY <1>0, <2>1, <2>3 DEF Active, BetweenFrames
  <2>7. QED
    BY <2>1, <2>2, <2>5, <2>6 DEF OrphanInv, Gone, this
<1> QED
  BY <1>1, <1>2, <1>3, <1>4, <1>5, <1>6, <1>7, <1>8, <1>9
     DEF Next, Camera, Receiver, Main

(***************************************************************************)
(* Where the camera writes tensors first, a tensor is left behind only if  *)
(* it cannot be removed, or with an image that cannot be opened.           *)
(***************************************************************************)
THEOREM LateTensorsAreOrphans == Spec => OrphanNeedsLateTensor
<1>1. Init => OrphanInv
  <2>1. Init => Queued = << >>
    BY DEF Init, Queued
  <2>2. QED
    BY <2>1 DEF Init, OrphanInv, TensorsKept
<1>2. Spec /\ []TensorsFirst => []OrphanInv
  BY <1>1, OrphanStep, TypeCorrect, TurnsAlways, OrderAlways, HeldAlways,
     DetectionsAlways, PTL DEF Spec
<1>3. OrphanInv => TensorsKept
  BY DEF OrphanInv
<1>4. Spec => ([]TensorsFirst => []TensorsKept)
  BY <1>2, <1>3, PTL
<1>5. QED
  BY <1>4 DEF OrphanNeedsLateTensor, TensorsFirst, TensorsKept
=============================================================================
