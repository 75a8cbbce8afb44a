------------------------ MODULE FrameDeliveryProofs ------------------------
(* The proof that FramePipeline implements FrameDelivery, for any number   *)
(* of frames and turns, any directories, any queue size and any of the     *)
(* faults.                                                                 *)
EXTENDS FramePipelineMemoryProofs

-----------------------------------------------------------------------------
(* What Fate looks at, one name for each case.                             *)

Recognised(f) == IsIn(f, Freed)
Held(f)       == IsIn(f, MainHolds)
Waiting(f)    == IsIn(f, InQueue)

FateRules ==
    \A f \in Frames :
        /\ f > shotImages => Fate(f) = "not_shot"
        /\ ~(f > shotImages) =>
              /\ f \in keptImages => Fate(f) = "kept"
              /\ f \notin keptImages =>
                    /\ Recognised(f) => Fate(f) = "recognised"
                    /\ ~Recognised(f) =>
                          /\ Held(f) => Fate(f) = "recognising"
                          /\ ~Held(f) =>
                                /\ Waiting(f) => Fate(f) = "queued"
                                /\ ~Waiting(f) =>
                                      /\ Handling(f) => Fate(f) = "pending"
                                      /\ ~Handling(f) => Fate(f) = "lost"

LEMMA FateRulesHold == FateRules /\ FateRules'
<1>1. FateRules
  BY DEF FateRules, Fate, Recognised, Held, Waiting
<1>2. FateRules'
  BY DEF FateRules, Fate, Recognised, Held, Waiting
<1>3. QED
  BY <1>1, <1>2

\* Only frames that were shot are kept, and detections are released by main
\* when the receiver is done with their turn.
PastInv ==
    /\ \A f \in keptImages : f <= shotImages
    /\ Active => lpd[cur] # "freed"

Inv == /\ TypeOK /\ TurnOrder /\ OrderInv /\ HeldTaken /\ DetectionsInv
       /\ PastInv /\ RoomForPush

fates == [f \in Frames |-> Fate(f)]
wline == [i \in DOMAIN q |-> frame[q[i]]]

LEMMA PastStep ==
    TypeOK /\ TurnOrder /\ OrderInv /\ HeldTaken /\ DetectionsInv /\ PastInv
        /\ [Next]_vars => PastInv'
<1> SUFFICES ASSUME TypeOK, TurnOrder, OrderInv, HeldTaken, DetectionsInv,
                    PastInv, [Next]_vars
             PROVE  PastInv'
  OBVIOUS
<1> USE DEF camera, files, loop, queue, main
<1>0. /\ lpd \in [Turns -> Memory] /\ shotImages \in Nat /\ keptImages \subseteq Nat
      /\ Active => cur \in Turns /\ this <= shotImages
  <2>1. Active => cur \in Turns /\ cur \in 1 .. cur
    BY TurnAssumption DEF TypeOK, Active, Turns
  <2>2. Active => this <= shotImages
    BY <2>1 DEF OrderInv, ScanInv, this
  <2>3. QED
    BY <2>1, <2>2, FrameAssumption DEF TypeOK, Frames
<1>1. CASE WriteImage
  <2>1. shotImages' = shotImages + 1 /\ UNCHANGED <<rpc, keptImages, cur, lpd>>
    BY <1>1 DEF WriteImage
  <2>2. QED
    BY <1>0, <2>1 DEF PastInv, Active, BetweenFrames
<1>2. CASE TakeNext
  <2>1. /\ cur' = cur + 1 /\ cur' \in Turns /\ cur \in Nat
        /\ UNCHANGED <<shotImages, keptImages, lpd>>
    BY <1>2, TurnAssumption DEF TakeNext, BeginTurn, TypeOK, Turns
  <2>2. lpd[cur'] = "none"
    <3>1. ~(cur' <= cur)
      BY <2>1
    <3>2. QED
      BY <2>1, <3>1 DEF DetectionsInv, Fresh
  <2>3. QED
    BY <2>1, <2>2 DEF PastInv
<1>3. CASE Detect
  BY <1>0, <1>3 DEF Detect, PastInv, Active, BetweenFrames
<1>4. CASE DiscardImage \/ RemoveImage
  BY <1>0, <1>4 DEF DiscardImage, RemoveImage, RemoveImageFile, PastInv,
     Active, BetweenFrames
<1>5. CASE Release
  <2>1. /\ mpc = "release" /\ lpd' = [lpd EXCEPT ![held] = "freed"]
        /\ UNCHANGED <<rpc, shotImages, keptImages, cur>>
    BY <1>5 DEF Release
  <2>2. Active => cur # held
    BY <2>1, HeldIsElsewhere
  <2>3. QED
    BY <1>0, <2>1, <2>2 DEF PastInv, Active, BetweenFrames
<1>6. CASE \/ MakeImageDir \/ MakeTensorDir \/ WriteTensor \/ BeginScan
           \/ EndScan \/ ListDone \/ OpenTensor \/ DetectNothing \/ OpenImage
           \/ DiscardTensor \/ RemoveTensor \/ Rotate \/ Crop \/ CheckSize
           \/ DropOldest \/ Push \/ MainPop \/ Recognise \/ UNCHANGED vars
  <2>1. UNCHANGED <<shotImages, keptImages, cur, lpd>> /\ (Active' => Active)
    BY <1>6 DEF MakeImageDir, MakeTensorDir, WriteTensor, BeginScan, EndScan,
       ListDone, OpenTensor, DetectNothing, OpenImage, DiscardTensor,
       RemoveTensor, Rotate, Crop, CheckSize, DropOldest, Push, MainPop,
       Recognise, vars, Active, BetweenFrames
  <2>2. QED
    BY <2>1 DEF PastInv
<1> QED
  BY <1>1, <1>2, <1>3, <1>4, <1>5, <1>6 DEF Next, Camera, Receiver, Main

LEMMA InvAlways == Spec => []Inv
<1>1. Init => PastInv
  BY DEF Init, PastInv, Active, BetweenFrames
<1>2. Spec => []PastInv
  BY <1>1, PastStep, TypeCorrect, TurnsAlways, OrderAlways, HeldAlways,
     DetectionsAlways, PTL DEF Spec
<1>3. QED
  BY <1>2, TypeCorrect, TurnsAlways, OrderAlways, HeldAlways,
     DetectionsAlways, RoomAlways, PTL DEF Inv

-----------------------------------------------------------------------------
(* The fate of a frame in each stage.                                      *)

\* A turn in the queue or with main is past, its detections are live, and it
\* is not in the queue and with main at a time.
LEMMA QueuedOrHeld ==
    ASSUME Inv, NEW t \in Turns, InQueue(t) \/ MainHolds(t)
    PROVE  /\ t \in 1 .. cur /\ (Active => t # cur) /\ lpd[t] = "live"
           /\ frame[t] \in Frames /\ ~(frame[t] > shotImages)
           /\ ~(InQueue(t) /\ MainHolds(t))
<1> USE DEF Inv
<1>0. /\ Len(Queued) = Len(taken) + Len(q)
      /\ Len(taken) \in Nat /\ Len(q) \in Nat /\ DOMAIN q = 1 .. Len(q)
      /\ \A i \in 1 .. Len(taken) + Len(q) :
            Queued[i] = IF i <= Len(taken) THEN taken[i] ELSE q[i - Len(taken)]
  BY ConcatProperties, LenProperties DEF Queued, TypeOK
<1>1. \E i \in 1 .. Len(Queued) : Queued[i] = t
  <2>1. CASE InQueue(t)
    <3>1. PICK j \in 1 .. Len(q) : q[j] = t
      BY <1>0, <2>1 DEF InQueue
    <3>2. Len(taken) + j \in 1 .. Len(Queued) /\ Queued[Len(taken) + j] = t
      BY <1>0, <3>1
    <3>3. QED
      BY <3>2
  <2>2. CASE MainHolds(t)
    BY <2>2 DEF MainHolds, HeldTaken
  <2>3. QED
    BY <2>1, <2>2
<1>2. t \in 1 .. cur /\ (Active => t # cur)
  BY <1>1 DEF TurnOrder
<1>3. frame[t] \in Frames /\ frame[t] <= shotImages /\ shotImages \in Nat
  BY <1>2, FrameAssumption DEF TypeOK, OrderInv, ScanInv
<1>4. ~(frame[t] > shotImages)
  BY <1>3, FrameAssumption DEF Frames
<1>5. lpd[t] = "live"
  BY DEF DetectionsInv, DetectionsLive, InFlight
<1>6. ~(InQueue(t) /\ MainHolds(t))
  BY HeldIsElsewhere DEF MainHolds
<1>7. QED
  BY <1>2, <1>3, <1>4, <1>5, <1>6

\* A frame that is not kept has had one turn at most, and a frame that still
\* has its image or is in the receiver's hands no other turn than this one.
LEMMA OneTurn ==
    ASSUME Inv, NEW t \in 1 .. cur, frame[t] \notin keptImages
    PROVE  /\ \A u \in 1 .. cur : frame[u] = frame[t] => u = t
           /\ Handling(frame[t]) => Active /\ t = cur
<1> USE DEF Inv
<1>1. cur \in Nat /\ t \in Nat
  BY TurnAssumption DEF TypeOK
<1>2. ASSUME NEW u \in 1 .. cur, frame[u] = frame[t], u # t PROVE FALSE
  <2>1. CASE u < t
    BY <1>2, <2>1 DEF OrderInv, Ordered, Later
  <2>2. CASE t < u
    BY <1>2, <2>2 DEF OrderInv, Ordered, Later
  <2>3. QED
    BY <1>1, <1>2, <2>1, <2>2
<1>3. ASSUME Handling(frame[t]) PROVE Active /\ t = cur
  <2>1. CASE frame[t] \in image
    BY <2>1 DEF OrderInv, HandledInv, Later, InHand, ImageStep, Active,
       BetweenFrames
  <2>2. CASE ~BetweenFrames /\ this = frame[t]
    <3>1. cur \in 1 .. cur
      BY <1>1, <2>2
    <3>2. QED
      BY <1>2, <2>2, <3>1 DEF this, Active
  <2>3. QED
    BY <1>3, <2>1, <2>2 DEF Handling
<1>4. QED
  BY <1>2, <1>3

\* Every turn of a frame is one that has begun, and has detections only then.
LEMMA BegunTurns ==
    ASSUME Inv, NEW t \in Turns,
           lpd[t] = "freed" \/ MainHolds(t) \/ InQueue(t)
    PROVE  t \in 1 .. cur
<1>1. CASE lpd[t] = "freed"
  <2>1. t <= cur /\ t \in Nat /\ t >= 1 /\ cur \in Nat
    BY <1>1, TurnAssumption DEF Inv, DetectionsInv, Fresh, TypeOK, Turns
  <2>2. QED
    BY <2>1
<1>2. QED
  BY <1>1, QueuedOrHeld

LEMMA PendingFate ==
    ASSUME Inv, NEW f \in Frames, Handling(f), ~(f > shotImages),
           f \notin keptImages
    PROVE  ~Recognised(f) /\ ~Held(f) /\ ~Waiting(f) /\ Fate(f) = "pending"
<1>1. ASSUME NEW t \in Turns, frame[t] = f,
             lpd[t] = "freed" \/ MainHolds(t) \/ InQueue(t)
      PROVE  FALSE
  <2>1. t \in 1 .. cur
    BY <1>1, BegunTurns
  <2>2. Active /\ t = cur
    BY <1>1, <2>1, OneTurn
  <2>3. lpd[t] # "freed"
    BY <2>2 DEF Inv, PastInv
  <2>4. QED
    BY <1>1, <2>2, <2>3, QueuedOrHeld
<1>2. ~Recognised(f) /\ ~Held(f) /\ ~Waiting(f)
  BY <1>1 DEF Recognised, Freed, Held, Waiting, IsIn
<1>3. QED
  BY <1>2, FateRulesHold DEF FateRules

LEMMA QueuedFate ==
    ASSUME Inv, NEW t \in Turns, InQueue(t) \/ MainHolds(t),
           frame[t] \notin keptImages
    PROVE  /\ ~Recognised(frame[t]) /\ ~Handling(frame[t])
           /\ InQueue(t) => ~Held(frame[t]) /\ Fate(frame[t]) = "queued"
           /\ MainHolds(t) => ~Waiting(frame[t]) /\ Fate(frame[t]) = "recognising"
<1>0. /\ t \in 1 .. cur /\ (Active => t # cur) /\ lpd[t] = "live"
      /\ frame[t] \in Frames /\ ~(frame[t] > shotImages)
      /\ ~(InQueue(t) /\ MainHolds(t))
  BY QueuedOrHeld
<1>1. \A u \in Turns :
         /\ frame[u] = frame[t]
         /\ lpd[u] = "freed" \/ MainHolds(u) \/ InQueue(u)
         => u = t
  BY <1>0, OneTurn, BegunTurns
<1>2. ~Recognised(frame[t])
  BY <1>0, <1>1 DEF Recognised, Freed, IsIn
<1>3. ~Handling(frame[t])
  BY <1>0, OneTurn
<1>4. InQueue(t) => Waiting(frame[t]) /\ ~Held(frame[t])
  BY <1>0, <1>1 DEF Waiting, Held, IsIn
<1>5. MainHolds(t) => Held(frame[t]) /\ ~Waiting(frame[t])
  BY <1>0, <1>1 DEF Waiting, Held, IsIn
<1>6. QED
  BY <1>0, <1>2, <1>3, <1>4, <1>5, FateRulesHold DEF FateRules

\* The line of FrameDelivery: the frames of the turns in the queue.
LEMMA LineType ==
    ASSUME Inv
    PROVE  /\ wline \in Seq(Frames) /\ Len(wline) = Len(q)
           /\ \A i \in 1 .. Len(q) : /\ q[i] \in 1 .. cur /\ q[i] \in Turns
                                     /\ wline[i] = frame[q[i]]
<1>1. q \in Seq(Turns) /\ DOMAIN q = 1 .. Len(q) /\ Len(q) \in Nat
  BY LenProperties DEF Inv, TypeOK
<1>2. ASSUME NEW i \in 1 .. Len(q)
      PROVE  q[i] \in Turns /\ q[i] \in 1 .. cur /\ frame[q[i]] \in Frames
  <2>1. q[i] \in Turns /\ InQueue(q[i])
    BY <1>1, <1>2, ElementOfSeq DEF InQueue
  <2>2. QED
    BY <2>1, QueuedOrHeld
<1>3. wline \in [1 .. Len(q) -> Frames]
  BY <1>1, <1>2 DEF wline
<1>4. wline \in Seq(Frames)
  BY <1>1, <1>3, SeqDef
<1>5. Len(wline) = Len(q)
  BY <1>1, <1>3, <1>4, LenProperties
<1>6. QED
  BY <1>1, <1>2, <1>4, <1>5 DEF wline

-----------------------------------------------------------------------------
(* How a step of the pipeline looks to FrameDelivery.                      *)

\* The step takes none of the turns of f from one stage to another.
Alike(f) ==
    /\ Recognised(f)' <=> Recognised(f)
    /\ Held(f)' <=> Held(f)
    /\ Waiting(f)' <=> Waiting(f)

LEMMA SameFate ==
    ASSUME NEW f \in Frames, Alike(f), f > shotImages' <=> f > shotImages,
           f \in keptImages' <=> f \in keptImages, Handling(f)' <=> Handling(f)
    PROVE  Fate(f)' = Fate(f)
BY FateRulesHold DEF FateRules, Alike

\* Steps that leave the turns and their frames alone.
LEMMA AllAlike ==
    ASSUME UNCHANGED <<frame, q, held>>, mpc' = "pop" <=> mpc = "pop",
           \A t \in Turns : lpd'[t] = "freed" <=> lpd[t] = "freed"
    PROVE  wline' = wline /\ \A f \in Frames : Alike(f)
BY DEF wline, Alike, Recognised, Freed, Held, MainHolds, Waiting, InQueue, IsIn

\* A step that changes none of what Fate looks at.
LEMMA SameFates ==
    ASSUME wline' = wline, UNCHANGED <<shotImages, keptImages>>,
           \A f \in Frames : Alike(f) /\ (Handling(f)' <=> Handling(f))
    PROVE  UNCHANGED Delivery!dvars
<1>1. \A f \in Frames : Fate(f)' = Fate(f)
  BY SameFate
<1>2. fates' = fates
  BY <1>1 DEF fates
<1>3. QED
  BY <1>2 DEF Delivery!dvars, fates, wline

\* A step that changes the fate of one frame.
LEMMA OneFate ==
    ASSUME NEW f \in Frames, NEW from, NEW to, Fate(f) = from, Fate(f)' = to,
           \A g \in Frames \ {f} : Fate(g)' = Fate(g)
    PROVE  Delivery!Become(f, from, to)
<1>1. fates' = [fates EXCEPT ![f] = to]
  BY DEF fates
<1>2. fates[f] = from
  BY DEF fates
<1>3. QED
  BY <1>1, <1>2 DEF fates, Delivery!Become

\* A step that changes no fate, that of a kept frame in particular.
LEMMA KeptFate ==
    ASSUME NEW f \in Frames, ~(f > shotImages), ~(f > shotImages'),
           f \in keptImages, f \in keptImages',
           \A g \in Frames \ {f} : Fate(g)' = Fate(g)
    PROVE  Delivery!Stays(f)
<1>1. Fate(f) = "kept" /\ Fate(f)' = "kept"
  BY FateRulesHold DEF FateRules
<1>2. fates' = fates /\ fates[f] = "kept"
  BY <1>1 DEF fates
<1>3. QED
  BY <1>2 DEF fates, Delivery!Stays

\* What a pop does to the queue: only its head leaves it, and the line.
LEMMA HeadLeaves ==
    ASSUME Inv, Queue!Take, UNCHANGED frame
    PROVE  \E h \in Turns :
              /\ h = Head(q) /\ InQueue(h) /\ ~InQueue(h)'
              /\ \A t \in Turns \ {h} : InQueue(t)' <=> InQueue(t)
              /\ wline # << >> /\ Head(wline) = frame[h]
              /\ wline' = Tail(wline)
<1>0. /\ Len(Queued) = Len(taken) + Len(q)
      /\ Len(taken) \in Nat /\ Len(q) \in Nat /\ DOMAIN q = 1 .. Len(q)
      /\ \A i \in 1 .. Len(taken) + Len(q) :
            Queued[i] = IF i <= Len(taken) THEN taken[i] ELSE q[i - Len(taken)]
  BY ConcatProperties, LenProperties DEF Queued, Inv, TypeOK
<1>1. /\ q \in Seq(Turns) /\ q # << >> /\ q' = Tail(q)
      /\ Len(q) > 0 /\ Head(q) = q[1] /\ q[1] \in Turns
      /\ DOMAIN q' = 1 .. Len(q) - 1
      /\ \A j \in 1 .. Len(q) - 1 : q'[j] = q[j + 1]
  BY <1>0, EmptySeq DEF Inv, TypeOK, Queue!Take
<1>2. \A i, j \in 1 .. Len(q) : i < j => q[i] # q[j]
  <2> SUFFICES ASSUME NEW i \in 1 .. Len(q), NEW j \in 1 .. Len(q), i < j
               PROVE  q[i] # q[j]
    OBVIOUS
  <2>1. /\ Len(taken) + i \in 1 .. Len(Queued) /\ Queued[Len(taken) + i] = q[i]
        /\ Len(taken) + j \in 1 .. Len(Queued) /\ Queued[Len(taken) + j] = q[j]
        /\ Len(taken) + i < Len(taken) + j
    BY <1>0
  <2>2. Queued[Len(taken) + i] < Queued[Len(taken) + j]
    BY <2>1 DEF Inv, TurnOrder
  <2>3. q[i] \in Nat /\ q[j] \in Nat
    BY <1>1, ElementOfSeq, TurnAssumption DEF Turns
  <2>4. QED
    BY <2>1, <2>2, <2>3
<1>3. InQueue(q[1])
  BY <1>0, <1>1 DEF InQueue
<1>4. ASSUME NEW h \in Turns, h = q[1] PROVE ~InQueue(h)'
  BY <1>0, <1>1, <1>2, <1>4 DEF InQueue
<1>5. ASSUME NEW t \in Turns, t # q[1] PROVE InQueue(t)' <=> InQueue(t)
  <2>1. InQueue(t)' => InQueue(t)
    BY <1>0, <1>1 DEF InQueue
  <2>2. ASSUME InQueue(t) PROVE InQueue(t)'
    <3>1. PICK i \in 1 .. Len(q) : q[i] = t
      BY <1>0, <2>2 DEF InQueue
    <3>2. i - 1 \in 1 .. Len(q) - 1 /\ q'[i - 1] = t
      BY <1>0, <1>1, <1>5, <3>1
    <3>3. QED
      BY <1>1, <3>2 DEF InQueue
  <2>3. QED
    BY <2>1, <2>2
<1>6. wline # << >> /\ Head(wline) = frame[q[1]]
  BY <1>0, <1>1, LineType, EmptySeq
<1>7. wline' = Tail(wline)
  <2>1. /\ Tail(wline) \in Seq(Frames) /\ Len(Tail(wline)) = Len(q) - 1
        /\ \A i \in 1 .. Len(q) - 1 : Tail(wline)[i] = wline[i + 1]
    BY <1>6, LineType, HeadTailProperties
  <2>2. /\ wline' = [i \in 1 .. Len(q) - 1 |-> frame[q[i + 1]]]
        /\ \A i \in 1 .. Len(q) - 1 : frame[q[i + 1]] = wline[i + 1]
    BY <1>0, <1>1, LineType DEF wline
  <2>3. DOMAIN Tail(wline) = 1 .. Len(q) - 1
    BY <2>1, LenProperties
  <2>4. wline' \in Seq(Frames) /\ Len(wline') = Len(q) - 1
    <3>1. \A i \in 1 .. Len(q) - 1 : wline[i + 1] \in Frames
      BY <1>0, LineType, ElementOfSeq
    <3>2. /\ Len(q) - 1 \in Nat
          /\ wline' \in [1 .. Len(q) - 1 -> Frames]
      <4>1. Len(q) - 1 \in Nat
        BY <1>0, <1>1
      <4>2. \A i \in 1 .. Len(q) - 1 : frame[q[i + 1]] \in Frames
        BY <2>2, <3>1
      <4>3. QED
        BY <2>2, <4>1, <4>2
    <3>3. wline' \in Seq(Frames)
      BY <3>2, SeqDef
    <3>4. QED
      BY <3>2, <3>3, LenProperties
  <2>5. \A i \in 1 .. Len(wline') : wline'[i] = Tail(wline)[i]
    BY <2>1, <2>2, <2>4
  <2>6. QED
    BY <2>1, <2>4, <2>5, SeqEqual
<1>8. QED
  BY <1>1, <1>3, <1>4, <1>5, <1>6, <1>7

\* What a push does to the line.
LEMMA LineGrows ==
    ASSUME Inv, ~BetweenFrames, Queue!Put(cur), UNCHANGED frame
    PROVE  wline' = Append(wline, this) /\ this \in Frames
<1>1. cur \in Turns /\ this \in Frames
  <2>1. cur \in Turns /\ cur \in 1 .. cur
    BY TurnAssumption DEF Inv, TypeOK, Turns
  <2>2. QED
    BY <2>1 DEF Inv, TypeOK, this
<1>2. /\ Len(q) \in Nat /\ DOMAIN q' = 1 .. Len(q) + 1
      /\ q'[Len(q) + 1] = cur /\ \A i \in 1 .. Len(q) : q'[i] = q[i]
  BY <1>1, AppendProperties, LenProperties DEF Inv, TypeOK, Queue!Put
<1>3. wline' = [i \in 1 .. Len(q) + 1 |-> frame[q'[i]]]
  BY <1>2 DEF wline
<1>4. \A i \in 1 .. Len(q) + 1 :
         frame[q'[i]] = IF i = Len(q) + 1 THEN this ELSE wline[i]
  BY <1>2, LineType DEF this
<1>5. wline' \in [1 .. Len(q) + 1 -> Frames]
  <2>1. \A i \in 1 .. Len(q) : wline[i] \in Frames
    BY LineType, ElementOfSeq
  <2>2. QED
    BY <1>1, <1>2, <1>3, <1>4, <2>1
<1>6. wline' \in Seq(Frames) /\ Len(wline') = Len(q) + 1
  <2>1. wline' \in Seq(Frames)
    BY <1>2, <1>5, SeqDef
  <2>2. QED
    BY <1>2, <1>5, <2>1, LenProperties
<1>7. /\ Append(wline, this) \in Seq(Frames)
      /\ Len(Append(wline, this)) = Len(q) + 1
      /\ \A i \in 1 .. Len(q) : Append(wline, this)[i] = wline[i]
      /\ Append(wline, this)[Len(q) + 1] = this
  BY <1>1, LineType, AppendProperties
<1>8. \A i \in 1 .. Len(wline') : wline'[i] = Append(wline, this)[i]
  BY <1>2, <1>3, <1>4, <1>6, <1>7
<1>9. QED
  BY <1>1, <1>6, <1>7, <1>8, SeqEqual


\* The step changes the fate of f only.
Apart(f) ==
    \A g \in Frames \ {f} :
        /\ Alike(g) /\ (Handling(g)' <=> Handling(g))
        /\ g \in keptImages' <=> g \in keptImages
        /\ g > shotImages' <=> g > shotImages

LEMMA OtherFates ==
    ASSUME NEW f \in Frames, Apart(f)
    PROVE  \A g \in Frames \ {f} : Fate(g)' = Fate(g)
BY SameFate DEF Apart

LEMMA InHandIsShot ==
    ASSUME Inv, Active
    PROVE  /\ cur \in Turns /\ this \in Frames /\ Handling(this)
           /\ ~(this > shotImages)
<1>1. cur \in Turns /\ cur \in 1 .. cur /\ shotImages \in Nat
  BY TurnAssumption, FrameAssumption DEF Inv, TypeOK, Active, Turns
<1>2. this \in Frames /\ this <= shotImages
  BY <1>1 DEF Inv, TypeOK, OrderInv, ScanInv, this
<1>3. this \in Nat
  BY <1>2, FrameAssumption DEF Frames
<1>4. QED
  BY <1>1, <1>2, <1>3 DEF Handling, Active

LEMMA ShootStep ==
    ASSUME Inv, WriteImage
    PROVE  \E f \in Frames : Delivery!Shoot(f)
<1> USE DEF files, loop, queue, main
<1>1. /\ shotImages \in Nat /\ shotImages < FrameCount /\ cur \in Nat
      /\ \A t \in 1 .. cur : frame[t] <= shotImages
      /\ \A g \in keptImages : g <= shotImages
  BY FrameAssumption, TurnAssumption
     DEF WriteImage, Inv, TypeOK, PastInv, OrderInv, ScanInv
<1>2. PICK f \in Frames : f = shotImages + 1
  BY <1>1, FrameAssumption DEF Frames
<1>3. /\ shotImages' = f /\ image' = image \cup {f}
      /\ UNCHANGED <<rpc, cur, frame, keptImages, lpd, q, mpc, held>>
  BY <1>2 DEF WriteImage
<1>4. wline' = wline /\ \A g \in Frames : Alike(g)
  BY <1>3, AllAlike
<1>5. Apart(f)
  <2>1. \A g \in Frames \ {f} : g > shotImages' <=> g > shotImages
    BY <1>1, <1>2, <1>3, FrameAssumption DEF Frames
  <2>2. \A g \in Frames \ {f} : Handling(g)' <=> Handling(g)
    BY <1>3 DEF Handling, this, BetweenFrames
  <2>3. QED
    BY <1>3, <1>4, <2>1, <2>2 DEF Apart
<1>6. f > shotImages /\ ~(f > shotImages') /\ f \notin keptImages'
  BY <1>1, <1>2, <1>3
<1>7. ~Recognised(f) /\ ~Held(f) /\ ~Waiting(f)
  <2>1. \A t \in 1 .. cur : frame[t] # f
    BY <1>1, <1>2
  <2>2. QED
    BY <2>1, BegunTurns DEF Recognised, Freed, Held, Waiting, IsIn
<1>8. ~Recognised(f)' /\ ~Held(f)' /\ ~Waiting(f)' /\ Handling(f)'
  BY <1>3, <1>4, <1>7 DEF Alike, Handling
<1>9. Fate(f) = "not_shot" /\ Fate(f)' = "pending"
  BY <1>6, <1>8, FateRulesHold DEF FateRules
<1>10. Delivery!Become(f, "not_shot", "pending")
  BY <1>5, <1>9, OtherFates, OneFate
<1>11. \A g \in Frames : g < f => fates[g] # "not_shot"
  <2>1. \A g \in Frames : g < f => ~(g > shotImages)
    BY <1>1, <1>2, FrameAssumption DEF Frames
  <2>2. \A g \in Frames : ~(g > shotImages) => Fate(g) # "not_shot"
    BY FateRulesHold DEF FateRules
  <2>3. QED
    BY <2>1, <2>2 DEF fates
<1>12. QED
  BY <1>2, <1>4, <1>10, <1>11 DEF Delivery!Shoot, fates, wline

LEMMA RemovalStep ==
    ASSUME Inv, DiscardImage \/ RemoveImage
    PROVE  \/ UNCHANGED Delivery!dvars
           \/ \E f \in Frames : Delivery!GiveUp(f) \/ Delivery!Keep(f)
<1> USE DEF camera, loop, queue, main
<1>1. /\ Active /\ UNCHANGED <<shotImages, cur, frame, lpd, q, mpc, held>>
      /\ RemoveImageFile
  BY DEF DiscardImage, RemoveImage, Active, BetweenFrames
<1>2. wline' = wline /\ \A g \in Frames : Alike(g)
  BY <1>1, AllAlike
<1>3. /\ this \in Frames /\ ~(this > shotImages) /\ ~(this > shotImages')
      /\ Handling(this) /\ this' = this
  BY <1>1, InHandIsShot DEF this
<1>4. \/ image' = image \ {this} /\ keptImages' = keptImages
      \/ image' = image /\ keptImages' = keptImages \cup {this}
  BY <1>1 DEF RemoveImageFile
<1>5. \A g \in Frames \ {this} : Handling(g)' <=> Handling(g)
  BY <1>3, <1>4 DEF Handling
<1>6. Apart(this)
  BY <1>1, <1>2, <1>4, <1>5 DEF Apart
<1>7. \A g \in Frames \ {this} : Fate(g)' = Fate(g)
  BY <1>3, <1>6, OtherFates
<1>8. CASE this \in keptImages
  <2>1. this \in keptImages'
    BY <1>4, <1>8
  <2>2. Delivery!Stays(this)
    BY <1>3, <1>7, <1>8, <2>1, KeptFate
  <2>3. QED
    BY <1>2, <2>2 DEF Delivery!Stays, Delivery!dvars, fates, wline
<1>9. CASE this \notin keptImages
  <2>1. ~Recognised(this) /\ ~Held(this) /\ ~Waiting(this) /\ Fate(this) = "pending"
    BY <1>3, <1>9, PendingFate
  <2>2. ~Recognised(this)' /\ ~Held(this)' /\ ~Waiting(this)'
    BY <1>2, <1>3, <2>1 DEF Alike
  <2>3. CASE this \in keptImages'
    <3>1. Fate(this)' = "kept"
      BY <1>3, <2>3, FateRulesHold DEF FateRules
    <3>2. Delivery!Become(this, "pending", "kept")
      BY <1>3, <1>7, <2>1, <3>1, OneFate
    <3>3. Delivery!Keep(this)
      BY <1>2, <3>2 DEF Delivery!Keep, fates, wline
    <3>4. QED
      BY <1>3, <3>3
  <2>4. CASE this \notin keptImages' /\ Handling(this)'
    <3>1. UNCHANGED <<shotImages, keptImages>>
      BY <1>1, <1>4, <2>4
    <3>2. UNCHANGED Delivery!dvars
      BY <1>2, <1>3, <1>5, <2>4, <3>1, SameFates
    <3>3. QED
      BY <3>2
  <2>5. CASE this \notin keptImages' /\ ~Handling(this)'
    <3>1. Fate(this)' = "lost"
      BY <1>3, <2>2, <2>5, FateRulesHold DEF FateRules
    <3>2. Delivery!Become(this, "pending", "lost")
      BY <1>3, <1>7, <2>1, <3>1, OneFate
    <3>3. Delivery!GiveUp(this)
      BY <1>2, <3>2 DEF Delivery!GiveUp, fates, wline
    <3>4. QED
      BY <1>3, <3>3
  <2>6. QED
    BY <2>3, <2>4, <2>5
<1>10. QED
  BY <1>8, <1>9

LEMMA AcceptStep ==
    ASSUME Inv, Push
    PROVE  \E f \in Frames : Delivery!Accept(f)
<1> USE DEF camera, files, loop, main
<1>1. /\ Active /\ ~Active' /\ Queue!Put(cur) /\ rpc = "push"
      /\ UNCHANGED <<shotImages, image, keptImages, cur, frame, lpd, mpc, held>>
  BY DEF Push, Active, BetweenFrames
<1>2. /\ cur \in Turns /\ this \in Frames /\ Handling(this)
      /\ ~(this > shotImages) /\ ~(this > shotImages')
  BY <1>1, InHandIsShot
<1>3. wline' = Append(wline, this)
  BY <1>1, LineGrows DEF Active
<1>4. PICK f \in Frames : f = this
  BY <1>2
<1>5. \A t \in Turns : InQueue(t)' <=> (InQueue(t) \/ t = cur)
  <2>1. /\ Len(q) \in Nat /\ DOMAIN q = 1 .. Len(q)
        /\ DOMAIN q' = 1 .. Len(q) + 1
        /\ q'[Len(q) + 1] = cur /\ \A i \in 1 .. Len(q) : q'[i] = q[i]
    BY <1>1, <1>2, AppendProperties, LenProperties DEF Inv, TypeOK, Queue!Put
  <2>2. \A i \in 1 .. Len(q) + 1 : i \in 1 .. Len(q) \/ i = Len(q) + 1
    BY <2>1
  <2>3. 1 .. Len(q) \subseteq 1 .. Len(q) + 1 /\ Len(q) + 1 \in 1 .. Len(q) + 1
    BY <2>1
  <2>4. ASSUME NEW t \in Turns PROVE InQueue(t)' <=> (InQueue(t) \/ t = cur)
    <3>1. InQueue(t)' <=> \E i \in 1 .. Len(q) + 1 : q'[i] = t
      BY <2>1 DEF InQueue
    <3>2. InQueue(t) <=> \E i \in 1 .. Len(q) : q[i] = t
      BY <2>1 DEF InQueue
    <3>3. QED
      BY <2>1, <2>2, <2>3, <3>1, <3>2
  <2>5. QED
    BY <2>4
<1>6. Apart(f)
  <2>1. \A g \in Frames \ {f} : Waiting(g)' <=> Waiting(g)
    BY <1>1, <1>5, <1>4 DEF Waiting, IsIn, this
  <2>2. \A g \in Frames : (Recognised(g)' <=> Recognised(g)) /\ (Held(g)' <=> Held(g))
    BY <1>1 DEF Recognised, Freed, Held, MainHolds, IsIn
  <2>3. \A g \in Frames \ {f} : Handling(g)' <=> Handling(g)
    BY <1>1, <1>4 DEF Handling, this
  <2>4. QED
    BY <1>1, <2>1, <2>2, <2>3 DEF Apart, Alike
<1>7. \A g \in Frames \ {f} : Fate(g)' = Fate(g)
  BY <1>6, OtherFates
<1>8. Delivery!Become(f, "pending", "queued") \/ Delivery!Stays(f)
  <2>1. CASE f \in keptImages
    BY <1>1, <1>2, <1>7, <1>4, <2>1, KeptFate
  <2>2. CASE f \notin keptImages
    <3>1. ~Recognised(f) /\ ~Held(f) /\ Fate(f) = "pending"
      BY <1>2, <1>4, <2>2, PendingFate
    <3>2. ~Recognised(f)' /\ ~Held(f)' /\ Waiting(f)'
      BY <1>1, <1>2, <1>5, <1>4, <3>1
         DEF Recognised, Freed, Held, MainHolds, Waiting, IsIn, this
    <3>3. Fate(f)' = "queued"
      BY <1>1, <1>2, <1>4, <2>2, <3>2, FateRulesHold DEF FateRules
    <3>4. Delivery!Become(f, "pending", "queued")
      BY <1>7, <3>1, <3>3, OneFate
    <3>5. QED
      BY <3>4
  <2>3. QED
    BY <2>1, <2>2
<1>9. Len(wline) < QueueMax
  BY <1>1, LineType DEF Inv, RoomForPush
<1>10. Delivery!Accept(f)
  BY <1>3, <1>8, <1>9, <1>4 DEF Delivery!Accept, fates, wline
<1>11. QED
  BY <1>10

LEMMA PopStep ==
    ASSUME Inv, NEW h \in Turns, h = Head(q),
           InQueue(h), ~InQueue(h)',
           \A t \in Turns \ {h} : InQueue(t)' <=> InQueue(t),
           UNCHANGED <<shotImages, image, keptImages, cur, frame, lpd>>
    PROVE  /\ frame[h] \in Frames /\ ~(frame[h] > shotImages)
           /\ \A g \in Frames \ {frame[h]} :
                 /\ Waiting(g)' <=> Waiting(g)
                 /\ Recognised(g)' <=> Recognised(g)
           /\ frame[h] \notin keptImages =>
                 /\ Fate(frame[h]) = "queued"
                 /\ ~Handling(frame[h])
                 /\ ~Recognised(frame[h])' /\ ~Waiting(frame[h])'
                 /\ ~Held(frame[h])
<1>1. h \in 1 .. cur /\ frame[h] \in Frames /\ ~(frame[h] > shotImages)
  BY QueuedOrHeld
<1>2. \A g \in Frames \ {frame[h]} :
         (Waiting(g)' <=> Waiting(g)) /\ (Recognised(g)' <=> Recognised(g))
  BY DEF Waiting, Recognised, Freed, IsIn
<1>3. ASSUME frame[h] \notin keptImages
      PROVE  /\ Fate(frame[h]) = "queued" /\ ~Handling(frame[h])
             /\ ~Recognised(frame[h])' /\ ~Waiting(frame[h])'
             /\ ~Held(frame[h])
  <2>1. /\ Fate(frame[h]) = "queued" /\ ~Handling(frame[h])
        /\ ~Recognised(frame[h]) /\ ~Held(frame[h])
    BY <1>3, QueuedFate
  <2>2. ~Recognised(frame[h])'
    BY <2>1 DEF Recognised, Freed, IsIn
  <2>3. \A t \in Turns : frame[t] = frame[h] /\ InQueue(t) => t = h
    BY <1>1, <1>3, OneTurn, BegunTurns
  <2>4. ~Waiting(frame[h])'
    BY <2>3 DEF Waiting, IsIn
  <2>5. QED
    BY <2>1, <2>2, <2>4
<1>4. QED
  BY <1>1, <1>2, <1>3

LEMMA DropStep == ASSUME Inv, DropOldest PROVE Delivery!Drop
<1> USE DEF camera, files, loop, main
<1>1. /\ Active /\ Queue!Take /\ (BetweenFrames' <=> BetweenFrames)
      /\ UNCHANGED <<shotImages, image, keptImages, cur, frame>>
      /\ UNCHANGED <<lpd, mpc, held>>
  BY DEF DropOldest, Active, BetweenFrames
<1>2. PICK h \in Turns :
         /\ h = Head(q) /\ InQueue(h) /\ ~InQueue(h)'
         /\ \A t \in Turns \ {h} : InQueue(t)' <=> InQueue(t)
         /\ wline # << >> /\ Head(wline) = frame[h]
         /\ wline' = Tail(wline)
  BY <1>1, HeadLeaves
<1>3. /\ frame[h] \in Frames /\ ~(frame[h] > shotImages)
      /\ \A g \in Frames \ {frame[h]} :
            (Waiting(g)' <=> Waiting(g)) /\ (Recognised(g)' <=> Recognised(g))
      /\ frame[h] \notin keptImages =>
            /\ Fate(frame[h]) = "queued" /\ ~Handling(frame[h])
            /\ ~Recognised(frame[h])' /\ ~Waiting(frame[h])'
            /\ ~Held(frame[h])
  BY <1>1, <1>2, PopStep
<1>4. PICK f \in Frames : f = frame[h] /\ f = frame'[h]
  BY <1>1, <1>3
<1>5. \A g \in Frames : (Held(g)' <=> Held(g)) /\ (Handling(g)' <=> Handling(g))
  BY <1>1 DEF Held, MainHolds, Handling, IsIn, this
<1>6. Apart(f)
  BY <1>1, <1>3, <1>4, <1>5 DEF Apart, Alike
<1>7. \A g \in Frames \ {f} : Fate(g)' = Fate(g)
  BY <1>6, OtherFates
<1>8. Delivery!Become(f, "queued", "lost") \/ Delivery!Stays(f)
  <2>1. CASE f \in keptImages
    BY <1>1, <1>3, <1>4, <1>7, <2>1, KeptFate
  <2>2. CASE f \notin keptImages
    <3>1. /\ Fate(f) = "queued" /\ ~Handling(f) /\ ~Held(f)
          /\ ~Recognised(f)' /\ ~Waiting(f)'
      BY <1>1, <1>3, <1>4, <2>2 DEF Recognised, Waiting, Freed, IsIn
    <3>2. Fate(f)' = "lost"
      BY <1>1, <1>3, <1>4, <1>5, <2>2, <3>1, FateRulesHold DEF FateRules
    <3>3. Delivery!Become(f, "queued", "lost")
      BY <1>7, <3>1, <3>2, OneFate
    <3>4. QED
      BY <3>3
  <2>3. QED
    BY <2>1, <2>2
<1>9. \E g \in Frames : fates[g] \in {"pending", "kept"}
  <2>1. this \in Frames /\ Handling(this) /\ ~(this > shotImages)
    BY <1>1, InHandIsShot
  <2>2. Fate(this) \in {"pending", "kept"}
    BY <2>1, PendingFate, FateRulesHold DEF FateRules
  <2>3. QED
    BY <2>1, <2>2 DEF fates
<1>10. QED
  BY <1>2, <1>4, <1>8, <1>9 DEF Delivery!Drop, Delivery!Leave, fates, wline

LEMMA StartStep == ASSUME Inv, MainPop PROVE Delivery!Start
<1> USE DEF camera, files, loop
<1>1. /\ mpc = "pop" /\ mpc' = "run" /\ held' = Head(q) /\ Queue!Take
      /\ UNCHANGED <<shotImages, image, keptImages, rpc, cur, frame, lpd>>
  BY DEF MainPop
<1>2. PICK h \in Turns :
         /\ h = Head(q) /\ InQueue(h) /\ ~InQueue(h)'
         /\ \A t \in Turns \ {h} : InQueue(t)' <=> InQueue(t)
         /\ wline # << >> /\ Head(wline) = frame[h]
         /\ wline' = Tail(wline)
  BY <1>1, HeadLeaves
<1>3. /\ frame[h] \in Frames /\ ~(frame[h] > shotImages)
      /\ \A g \in Frames \ {frame[h]} :
            (Waiting(g)' <=> Waiting(g)) /\ (Recognised(g)' <=> Recognised(g))
      /\ frame[h] \notin keptImages =>
            /\ Fate(frame[h]) = "queued" /\ ~Handling(frame[h])
            /\ ~Recognised(frame[h])' /\ ~Waiting(frame[h])'
            /\ ~Held(frame[h])
  BY <1>1, <1>2, PopStep
<1>4. PICK f \in Frames : f = frame[h] /\ f = frame'[h]
  BY <1>1, <1>3
<1>5. \A g \in Frames : ~Held(g) /\ (Held(g)' <=> g = f)
  BY <1>1, <1>2, <1>4 DEF Held, MainHolds, IsIn
<1>6. \A g \in Frames : Handling(g)' <=> Handling(g)
  BY <1>1 DEF Handling, BetweenFrames, this
<1>7. Apart(f)
  BY <1>1, <1>3, <1>4, <1>5, <1>6 DEF Apart, Alike
<1>8. \A g \in Frames \ {f} : Fate(g)' = Fate(g)
  BY <1>7, OtherFates
<1>9. Delivery!Become(f, "queued", "recognising") \/ Delivery!Stays(f)
  <2>1. CASE f \in keptImages
    BY <1>1, <1>3, <1>4, <1>8, <2>1, KeptFate
  <2>2. CASE f \notin keptImages
    <3>1. Fate(f) = "queued" /\ ~Recognised(f)' /\ Held(f)'
      BY <1>1, <1>3, <1>4, <1>5, <2>2 DEF Recognised, Freed, IsIn
    <3>2. Fate(f)' = "recognising"
      BY <1>1, <1>3, <1>4, <2>2, <3>1, FateRulesHold DEF FateRules
    <3>3. Delivery!Become(f, "queued", "recognising")
      BY <1>8, <3>1, <3>2, OneFate
    <3>4. QED
      BY <3>3
  <2>3. QED
    BY <2>1, <2>2
<1>10. \A g \in Frames : fates[g] # "recognising"
  <2>1. \A g \in Frames : Fate(g) # "recognising"
    BY <1>5, FateRulesHold DEF FateRules
  <2>2. QED
    BY <2>1 DEF fates
<1>11. QED
  BY <1>2, <1>4, <1>9, <1>10 DEF Delivery!Start, Delivery!Leave, fates, wline

LEMMA FinishStep ==
    ASSUME Inv, Release
    PROVE  \/ UNCHANGED Delivery!dvars
           \/ \E f \in Frames : Delivery!Finish(f)
<1> USE DEF camera, files, loop, queue
<1>1. /\ mpc = "release" /\ mpc' = "pop"
      /\ lpd' = [lpd EXCEPT ![held] = "freed"]
      /\ UNCHANGED <<shotImages, image, keptImages, rpc, cur, frame>>
      /\ UNCHANGED <<q, held>>
  BY DEF Release
<1>2. held \in Turns /\ MainHolds(held) /\ lpd \in [Turns -> Memory]
  BY <1>1 DEF Inv, TypeOK, MainHolds
<1>3. PICK h \in Turns : h = held /\ MainHolds(h)
  BY <1>2
<1>4. PICK f \in Frames :
         f = frame[h] /\ f = frame'[h] /\ ~(f > shotImages)
  BY <1>1, <1>3, QueuedOrHeld
<1>5. wline' = wline /\ \A g \in Frames : Waiting(g)' <=> Waiting(g)
  BY <1>1 DEF wline, Waiting, InQueue, IsIn
<1>6. \A g \in Frames : Handling(g)' <=> Handling(g)
  BY <1>1 DEF Handling, BetweenFrames, this
<1>7. /\ \A g \in Frames : ~Held(g)'
      /\ \A g \in Frames \ {f} : ~Held(g)
  BY <1>1, <1>3, <1>4 DEF Held, MainHolds, IsIn
<1>8. /\ \A g \in Frames \ {f} : Recognised(g)' <=> Recognised(g)
      /\ Recognised(f)'
  BY <1>1, <1>2, <1>3, <1>4 DEF Recognised, Freed, IsIn
<1>9. Apart(f)
  BY <1>1, <1>5, <1>6, <1>7, <1>8 DEF Apart, Alike
<1>10. \A g \in Frames \ {f} : Fate(g)' = Fate(g)
  BY <1>9, OtherFates
<1>11. CASE f \in keptImages
  <2>1. Delivery!Stays(f)
    BY <1>1, <1>4, <1>10, <1>11, KeptFate
  <2>2. QED
    BY <1>5, <2>1 DEF Delivery!Stays, Delivery!dvars, fates, wline
<1>12. CASE f \notin keptImages
  <2>1. Fate(f) = "recognising"
    BY <1>3, <1>4, <1>12, QueuedFate
  <2>2. Fate(f)' = "recognised"
    BY <1>1, <1>4, <1>8, <1>12, FateRulesHold DEF FateRules
  <2>3. Delivery!Become(f, "recognising", "recognised")
    BY <1>10, <2>1, <2>2, OneFate
  <2>4. Delivery!Finish(f)
    BY <1>5, <2>3 DEF Delivery!Finish, fates, wline
  <2>5. QED
    BY <2>4
<1>13. QED
  BY <1>11, <1>12

\* A turn that begins changes no fate: it is in no stage yet, and the
\* receiver takes an image that is there.
LEMMA TurnBegins == ASSUME Inv, TakeNext PROVE UNCHANGED Delivery!dvars
<1> USE DEF camera, files, queue, main
<1>1. PICK f \in listed : BeginTurn(f)
  BY DEF TakeNext
<1>2. /\ cur' = cur + 1 /\ cur' \in Turns /\ cur \in Nat
      /\ BetweenFrames /\ ~BetweenFrames'
      /\ frame' = [frame EXCEPT ![cur'] = f]
      /\ UNCHANGED <<shotImages, image, keptImages, lpd, q, mpc, held>>
  <2>1. cur' = cur + 1 /\ cur < TurnLimit /\ cur \in Nat
    BY <1>1, TurnAssumption DEF TakeNext, BeginTurn, Inv, TypeOK
  <2>2. cur' \in Turns
    BY <2>1, TurnAssumption DEF Turns
  <2>3. BetweenFrames /\ ~BetweenFrames'
    BY <1>1 DEF TakeNext, BeginTurn, BetweenFrames
  <2>4. /\ frame' = [frame EXCEPT ![cur'] = f]
        /\ UNCHANGED <<shotImages, image, keptImages, lpd, q, mpc, held>>
    BY <1>1 DEF BeginTurn
  <2>5. QED
    BY <2>1, <2>2, <2>3, <2>4
<1>3. PICK n \in Turns : n = cur' /\ n \notin 1 .. cur
  BY <1>2
<1>4. /\ frame' = [frame EXCEPT ![n] = f] /\ f \in image
      /\ frame \in [Turns -> Frames \cup {None}] /\ this' = f
  BY <1>2, <1>3 DEF Inv, TypeOK, OrderInv, ListingInv, this
<1>5. \A t \in Turns : lpd[t] = "freed" \/ MainHolds(t) \/ InQueue(t) =>
         t # n /\ frame'[t] = frame[t]
  BY <1>3, <1>4, BegunTurns
<1>6. \A t \in Turns : (MainHolds(t)' <=> MainHolds(t)) /\ (InQueue(t)' <=> InQueue(t))
  BY <1>2 DEF MainHolds, InQueue
<1>7. \A g \in Frames : Alike(g)
  <2>1. \A g \in Frames : Recognised(g)' <=> Recognised(g)
    BY <1>2, <1>5 DEF Recognised, Freed, IsIn
  <2>2. \A g \in Frames : Held(g)' <=> Held(g)
    BY <1>5, <1>6 DEF Held, IsIn
  <2>3. \A g \in Frames : Waiting(g)' <=> Waiting(g)
    BY <1>5, <1>6 DEF Waiting, IsIn
  <2>4. QED
    BY <2>1, <2>2, <2>3 DEF Alike
<1>8. \A g \in Frames : Handling(g)' <=> Handling(g)
  BY <1>2, <1>4 DEF Handling
<1>9. wline' = wline
  <2>1. \A i \in DOMAIN q : frame'[q[i]] = frame[q[i]]
    <3>1. q \in Seq(Turns) /\ DOMAIN q = 1 .. Len(q)
      BY LenProperties DEF Inv, TypeOK
    <3>2. QED
      BY <1>5, <3>1, ElementOfSeq DEF InQueue
  <2>2. QED
    BY <1>2, <2>1 DEF wline
<1>10. QED
  BY <1>2, <1>7, <1>8, <1>9, SameFates

LEMMA DetectStep == ASSUME Inv, Detect PROVE UNCHANGED Delivery!dvars
<1> USE DEF camera, files, queue, main
<1>1. /\ Active /\ (BetweenFrames' <=> BetweenFrames)
      /\ lpd' = [lpd EXCEPT ![cur] = "live"]
      /\ UNCHANGED <<shotImages, image, keptImages, cur, frame>>
      /\ UNCHANGED <<q, mpc, held>>
  BY DEF Detect, Active, BetweenFrames
<1>2. lpd[cur] # "freed" /\ lpd \in [Turns -> Memory]
  BY <1>1 DEF Inv, PastInv, TypeOK
<1>3. \A t \in Turns : lpd'[t] = "freed" <=> lpd[t] = "freed"
  BY <1>1, <1>2
<1>4. wline' = wline /\ \A f \in Frames : Alike(f)
  BY <1>1, <1>3, AllAlike
<1>5. \A f \in Frames : Handling(f)' <=> Handling(f)
  BY <1>1 DEF Handling, this
<1>6. QED
  BY <1>1, <1>4, <1>5, SameFates

LEMMA QuietStep ==
    ASSUME \/ MakeImageDir \/ MakeTensorDir \/ WriteTensor \/ BeginScan
           \/ EndScan \/ ListDone \/ OpenTensor \/ DetectNothing
           \/ DiscardTensor \/ OpenImage \/ RemoveTensor \/ Rotate \/ Crop
           \/ CheckSize \/ Recognise \/ UNCHANGED vars
    PROVE  UNCHANGED Delivery!dvars
<1> USE DEF camera, files, loop, queue, main
<1>1. /\ UNCHANGED <<shotImages, image, keptImages, cur, frame, lpd>>
      /\ UNCHANGED <<q, held>> /\ (mpc' = "pop" <=> mpc = "pop")
      /\ BetweenFrames' <=> BetweenFrames
  BY DEF MakeImageDir, MakeTensorDir, WriteTensor, BeginScan, EndScan,
     ListDone, OpenTensor, DetectNothing, DiscardTensor, OpenImage,
     RemoveTensor, Rotate, Crop, CheckSize, Recognise, vars, BetweenFrames
<1>2. wline' = wline /\ \A f \in Frames : Alike(f)
  BY <1>1, AllAlike
<1>3. \A f \in Frames : Handling(f)' <=> Handling(f)
  BY <1>1 DEF Handling, this
<1>4. QED
  BY <1>1, <1>2, <1>3, SameFates

LEMMA DeliveryStep == Inv /\ [Next]_vars => [Delivery!Next]_(Delivery!dvars)
<1> SUFFICES ASSUME Inv, [Next]_vars
             PROVE  Delivery!Next \/ UNCHANGED Delivery!dvars
  OBVIOUS
<1>1. CASE WriteImage
  BY <1>1, ShootStep DEF Delivery!Next
<1>2. CASE DiscardImage \/ RemoveImage
  BY <1>2, RemovalStep DEF Delivery!Next
<1>3. CASE Push
  BY <1>3, AcceptStep DEF Delivery!Next
<1>4. CASE DropOldest
  BY <1>4, DropStep DEF Delivery!Next
<1>5. CASE MainPop
  BY <1>5, StartStep DEF Delivery!Next
<1>6. CASE Release
  BY <1>6, FinishStep DEF Delivery!Next
<1>7. CASE TakeNext \/ Detect
  BY <1>7, TurnBegins, DetectStep
<1>8. CASE \/ MakeImageDir \/ MakeTensorDir \/ WriteTensor \/ BeginScan
           \/ EndScan \/ ListDone \/ OpenTensor \/ DetectNothing
           \/ DiscardTensor \/ OpenImage \/ RemoveTensor \/ Rotate \/ Crop
           \/ CheckSize \/ Recognise \/ UNCHANGED vars
  BY <1>8, QuietStep
<1> QED
  BY <1>1, <1>2, <1>3, <1>4, <1>5, <1>6, <1>7, <1>8
     DEF Next, Camera, Receiver, Main

(***************************************************************************)
(* The pipeline implements FrameDelivery, whichever calls fail, removals   *)
(* among them: a frame whose image file is removed is lost or recognised   *)
(* once, frames are recognised one at a time in the order of the queue,    *)
(* and only the oldest queued frame is dropped, for another one.           *)
(***************************************************************************)
THEOREM PipelineDelivers == Spec => DeliversFrames
<1>1. Init => Delivery!Init
  <2> SUFFICES ASSUME Init PROVE Delivery!Init
    OBVIOUS
  <2>1. shotImages = 0 /\ q = << >>
    BY DEF Init
  <2>2. ASSUME NEW f \in Frames PROVE Fate(f) = "not_shot"
    <3>1. f > shotImages
      BY <2>1, FrameAssumption DEF Frames
    <3>2. QED
      BY <3>1, FateRulesHold DEF FateRules
  <2>3. wline = << >>
    <3>1. DOMAIN q = {}
      BY <2>1
    <3>2. wline = [i \in {} |-> frame[q[i]]]
      BY <3>1 DEF wline
    <3>3. QED
      BY <3>2
  <2>4. QED
    BY <2>2, <2>3 DEF Delivery!Init, wline
<1>2. QED
  BY <1>1, InvAlways, DeliveryStep, PTL DEF Spec, DeliversFrames, Delivery!Spec

Final(f) == Fate(f) \in {"lost", "recognised"}

(***************************************************************************)
(* What has become of a frame is final: a frame that was lost is never     *)
(* queued or recognised later, and one that was recognised never again,    *)
(* whatever the receiver lists, drops or fails to read.  A frame whose     *)
(* image file could not be removed is neither: it is kept.                 *)
(***************************************************************************)
THEOREM OutcomesAreFinal ==
    Spec => [][\A f \in Frames : Final(f) => Fate(f)' = Fate(f)]_vars
<1> DEFINE FatesStay == \A f \in Frames : Final(f) => Fate(f)' = Fate(f)
<1>1. [Delivery!Next]_(Delivery!dvars) => FatesStay
  <2> SUFFICES ASSUME [Delivery!Next]_(Delivery!dvars), NEW f \in Frames,
                      Final(f)
               PROVE  Fate(f)' = Fate(f)
    OBVIOUS
  <2>0. fates[f] = Fate(f) /\ fates'[f] = Fate(f)'
    BY DEF fates
  <2>1. ASSUME NEW g, NEW from, NEW to, Delivery!Become(g, from, to),
               from \notin {"lost", "recognised"}
        PROVE  fates'[f] = fates[f]
    BY <2>0, <2>1 DEF Delivery!Become, fates, Final
  <2>2. ASSUME NEW g, Delivery!Stays(g) PROVE fates'[f] = fates[f]
    BY <2>2 DEF Delivery!Stays, fates
  <2>3. CASE UNCHANGED Delivery!dvars
    BY <2>0, <2>3 DEF Delivery!dvars, fates
  <2>4. CASE Delivery!Next
    <3>1. ASSUME NEW g \in Frames,
                 \/ Delivery!Shoot(g) \/ Delivery!GiveUp(g) \/ Delivery!Keep(g)
                 \/ Delivery!Accept(g) \/ Delivery!Finish(g)
          PROVE  fates'[f] = fates[f]
      BY <2>1, <2>2, <3>1
         DEF Delivery!Shoot, Delivery!GiveUp, Delivery!Keep, Delivery!Accept,
             Delivery!Finish
    <3>2. ASSUME Delivery!Drop \/ Delivery!Start
          PROVE  fates'[f] = fates[f]
      BY <2>1, <2>2, <3>2 DEF Delivery!Drop, Delivery!Start
    <3>3. fates'[f] = fates[f]
      BY <2>4, <3>1, <3>2 DEF Delivery!Next
    <3>4. QED
      BY <2>0, <3>3
  <2>5. QED
    BY <2>0, <2>3, <2>4
<1>2. Inv /\ [Next]_vars => [FatesStay]_vars
  BY <1>1, DeliveryStep
<1> HIDE DEF FatesStay
<1>3. Spec => [][FatesStay]_vars
  BY <1>2, InvAlways, PTL DEF Spec
<1>4. QED
  BY <1>3 DEF FatesStay
=============================================================================
