--------------------------- MODULE FramePipeline ---------------------------
(***************************************************************************)
(* src/type4_main.cpp after start-up: the camera application (another      *)
(* process) writes, for every frame, an image file Raw/<dir>/<time>_WxH    *)
(* .nv12 and a tensor file InferenceData/<dir>/<time>.bin; the receiver    *)
(* thread (ReceiveDataFromFile) turns pairs of files into frames and       *)
(* pushes them to g_data_queue; the main thread pops them, recognises the  *)
(* plates and releases the memory.                                         *)
(*                                                                         *)
(* A frame is a number: frames are numbered in the order of their image    *)
(* paths, which is the order in which the camera shoots them.  A turn of   *)
(* the receiver's loop over the list of images handles one image file; an  *)
(* image that cannot be removed is listed again and gets another turn.     *)
(* What is allocated is identified by the turn that allocated it, and the  *)
(* queue holds turns.  Each thread is split into steps where the other     *)
(* thread, or the camera, can come in between.  The queue is FifoQueue,    *)
(* which BlockingQueue implements: pop is a step that is enabled only when *)
(* the queue is not empty.                                                 *)
(***************************************************************************)
EXTENDS Naturals, Sequences, FiniteSets

CONSTANTS
    FrameCount,         \* bound of the model: frames the camera shoots
    TurnLimit,          \* bound of the model: turns of the receiver's loop
    Dir,                \* the directory (a number, in path order) of a frame
    QueueMax,           \* MAX_QUEUE_SIZE
    Faults              \* library and system calls that may fail

Frames    == 1 .. FrameCount
Turns     == 1 .. TurnLimit
FaultKinds == {"tensor_open", "image_open", "remove", "crop", "lpr"}
None      == 0          \* no frame, no turn, no directory, a null pointer

ASSUME FrameAssumption == FrameCount \in Nat
ASSUME TurnAssumption == TurnLimit \in Nat
ASSUME DirAssumption ==
    /\ Dir \in [Frames -> Nat \ {None}]
    /\ \A f, g \in Frames : f <= g => Dir[f] <= Dir[g]
ASSUME QueueMaxAssumption == QueueMax \in Nat \ {0}
ASSUME FaultsAssumption == Faults \subseteq FaultKinds

VARIABLES
    shotImages,         \* camera: the images of 1 .. shotImages are written
    shotTensors,        \* camera: the tensors of 1 .. shotTensors are written
    image,              \* frames whose image file exists
    tensor,             \* frames whose tensor file exists
    imageDirs,          \* directories that exist under raw_path
    tensorDirs,         \* directories that exist under inference_path
    keptImages,         \* history: frames whose image was not removed once
    keptTensors,        \* history: frames whose tensor was not removed once
    rpc,                \* receiver: its next step
    listed,             \* receiver: image_list, the images still to handle
    scanned,            \* history: shotImages when the last scan began
    cur,                \* receiver: the turn it is in, or was in last
    frame,              \* turn -> the frame it handles
    horizon,            \* history: turn -> scanned when it began
    preDir,             \* receiver: pre_image_dir (and pre_tensor_dir)
    mapped,             \* turns whose tensor file is mapped in memory
    lpd,                \* turn -> state of the array TS_LPD_run allocates
    buffer,             \* turn -> state of the pixels of crop_and_convert
    data,               \* turn -> the turn whose pixels image_data points to
    q,                  \* g_data_queue
    taken,              \* history: the turns popped, by either thread
    mpc,                \* main: its next step
    held,               \* main: the turn popped
    lpr,                \* turn -> state of the array TS_LPR_run allocates
    result              \* main: the turn whose array lpr_result points to

camera == <<shotImages, shotTensors>>
files  == <<image, tensor, imageDirs, tensorDirs, keptImages, keptTensors>>
loop   == <<listed, scanned, cur, frame, horizon, preDir, mapped>>
queue  == <<q, taken>>
main   == <<mpc, held, lpr, result>>
vars   == <<camera, files, rpc, loop, lpd, buffer, data, queue, main>>

Memory == {"none", "live", "freed"}

ReceiverSteps ==
    {"scan", "scanning", "next", "open_tensor", "detect", "discard_tensor",
     "discard_image", "open_image", "remove_tensor", "remove_image",
     "rotate", "crop", "check", "drop", "push"}
BetweenFrames == rpc \in {"scan", "scanning", "next"}

TypeOK ==
    /\ shotImages \in 0 .. FrameCount
    /\ shotTensors \in 0 .. FrameCount
    /\ image \subseteq Frames
    /\ tensor \subseteq Frames
    /\ imageDirs \subseteq Nat
    /\ tensorDirs \subseteq Nat
    /\ keptImages \subseteq Frames
    /\ keptTensors \subseteq Frames
    /\ rpc \in ReceiverSteps
    /\ listed \subseteq Frames
    /\ scanned \in 0 .. FrameCount
    /\ cur \in 0 .. TurnLimit
    /\ frame \in [Turns -> Frames \cup {None}]
    /\ \A t \in 1 .. cur : frame[t] \in Frames
    /\ ~BetweenFrames => cur \in Turns
    /\ horizon \in [Turns -> 0 .. FrameCount]
    /\ preDir \in Nat
    /\ mapped \subseteq Turns
    /\ lpd \in [Turns -> Memory]
    /\ buffer \in [Turns -> Memory]
    /\ data \in [Turns -> Turns \cup {None}]
    /\ q \in Seq(Turns)
    /\ taken \in Seq(Turns)
    /\ mpc \in {"pop", "run", "release"}
    /\ held \in Turns \cup {None}
    /\ mpc # "pop" => held \in Turns
    /\ lpr \in [Turns -> Memory]
    /\ result \in Turns \cup {None}

Init ==
    /\ shotImages = 0 /\ shotTensors = 0
    /\ image = {} /\ tensor = {}
    /\ imageDirs = {} /\ tensorDirs = {}
    /\ keptImages = {} /\ keptTensors = {}
    /\ rpc = "scan"
    /\ listed = {}
    /\ scanned = 0
    /\ cur = None
    /\ frame = [t \in Turns |-> None]
    /\ horizon = [t \in Turns |-> 0]
    /\ preDir = None
    /\ mapped = {}
    /\ lpd = [t \in Turns |-> "none"]
    /\ buffer = [t \in Turns |-> "none"]
    /\ data = [t \in Turns |-> None]
    /\ q = << >> /\ taken = << >>
    /\ mpc = "pop"
    /\ held = None
    /\ lpr = [t \in Turns |-> "none"]
    /\ result = None

Queue == INSTANCE FifoQueue WITH Items <- Turns

-----------------------------------------------------------------------------
(* The camera application (external): it writes images in order and tensors *)
(* in order, and may write either file of a frame first.  It makes the      *)
(* directory it is about to write into, and makes it again when it is gone. *)

MakeImageDir ==
    /\ shotImages < FrameCount
    /\ Dir[shotImages + 1] \notin imageDirs
    /\ imageDirs' = imageDirs \cup {Dir[shotImages + 1]}
    /\ UNCHANGED <<image, tensor, tensorDirs, keptImages, keptTensors>>
    /\ UNCHANGED <<camera, rpc, loop, lpd, buffer, data, queue, main>>

WriteImage ==
    /\ shotImages < FrameCount
    /\ Dir[shotImages + 1] \in imageDirs
    /\ shotImages' = shotImages + 1
    /\ image' = image \cup {shotImages'}
    /\ UNCHANGED <<shotTensors, tensor, imageDirs, tensorDirs>>
    /\ UNCHANGED <<keptImages, keptTensors>>
    /\ UNCHANGED <<rpc, loop, lpd, buffer, data, queue, main>>

MakeTensorDir ==
    /\ shotTensors < FrameCount
    /\ Dir[shotTensors + 1] \notin tensorDirs
    /\ tensorDirs' = tensorDirs \cup {Dir[shotTensors + 1]}
    /\ UNCHANGED <<image, tensor, imageDirs, keptImages, keptTensors>>
    /\ UNCHANGED <<camera, rpc, loop, lpd, buffer, data, queue, main>>

WriteTensor ==
    /\ shotTensors < FrameCount
    /\ Dir[shotTensors + 1] \in tensorDirs
    /\ shotTensors' = shotTensors + 1
    /\ tensor' = tensor \cup {shotTensors'}
    /\ UNCHANGED <<shotImages, image, imageDirs, tensorDirs>>
    /\ UNCHANGED <<keptImages, keptTensors>>
    /\ UNCHANGED <<rpc, loop, lpd, buffer, data, queue, main>>

Camera == MakeImageDir \/ WriteImage \/ MakeTensorDir \/ WriteTensor

-----------------------------------------------------------------------------
(* The receiver thread, ReceiveDataFromFile.                                *)

\* The frame of this turn.
this == frame[cur]

\* The operators named Faulty... are slips the properties below must catch;
\* no action uses them.

\* GetFileList reads the directories while the camera goes on writing.  It
\* finds every image that is there when it begins; POSIX leaves open which of
\* the later ones readdir returns.
BeginScan ==
    /\ rpc = "scan"
    /\ listed' = image
    /\ scanned' = shotImages
    /\ rpc' = "scanning"
    /\ UNCHANGED <<cur, frame, horizon, preDir, mapped>>
    /\ UNCHANGED <<camera, files, lpd, buffer, data, queue, main>>

\* Nothing found: sleep 1 ms and list again.
EndScan ==
    /\ rpc = "scanning"
    /\ \E late \in SUBSET (image \ listed) : listed' = listed \cup late
    /\ rpc' = IF listed' = {} THEN "scan" ELSE "next"
    /\ UNCHANGED <<scanned, cur, frame, horizon, preDir, mapped>>
    /\ UNCHANGED <<camera, files, lpd, buffer, data, queue, main>>

\* A turn of the loop begins for frame f.
BeginTurn(f) ==
    /\ cur' = cur + 1
    /\ frame' = [frame EXCEPT ![cur'] = f]
    /\ horizon' = [horizon EXCEPT ![cur'] = scanned]
    /\ listed' = listed \ {f}
    /\ rpc' = "open_tensor"
    /\ UNCHANGED <<scanned, preDir, mapped>>
    /\ UNCHANGED <<camera, files, lpd, buffer, data, queue, main>>

FaultyTakeAny ==
    /\ rpc = "next" /\ cur < TurnLimit
    /\ \E f \in listed : BeginTurn(f)

\* The list is sorted: the loop over it takes the least path first.
TakeNext ==
    /\ rpc = "next" /\ cur < TurnLimit
    /\ \E f \in listed : (\A g \in listed : f <= g) /\ BeginTurn(f)

ListDone ==
    /\ rpc = "next"
    /\ listed = {}
    /\ rpc' = "scan"
    /\ UNCHANGED <<camera, files, loop, lpd, buffer, data, queue, main>>

\* ReadFileByMMap(tensor_path)
OpenTensor ==
    /\ rpc = "open_tensor"
    /\ \/ /\ this \in tensor
          /\ mapped' = mapped \cup {cur}
          /\ rpc' = "detect"
       \/ /\ this \notin tensor \/ "tensor_open" \in Faults
          /\ rpc' = "discard_tensor"
          /\ UNCHANGED mapped
    /\ UNCHANGED <<listed, scanned, cur, frame, horizon, preDir>>
    /\ UNCHANGED <<camera, files, lpd, buffer, data, queue, main>>

FaultyDetectKeepsMapping ==
    /\ rpc = "detect"
    /\ lpd' = [lpd EXCEPT ![cur] = "live"]
    /\ rpc' = "open_image"
    /\ UNCHANGED <<camera, files, loop, buffer, data, queue, main>>

\* TS_LPD_run finds vehicles; only then is the tensor unmapped.
Detect ==
    /\ rpc = "detect"
    /\ lpd' = [lpd EXCEPT ![cur] = "live"]
    /\ mapped' = mapped \ {cur}
    /\ rpc' = "open_image"
    /\ UNCHANGED <<listed, scanned, cur, frame, horizon, preDir>>
    /\ UNCHANGED <<camera, files, buffer, data, queue, main>>

FaultyDetectNothingKeepsTensor ==
    /\ rpc = "detect"
    /\ rpc' = "discard_image"
    /\ UNCHANGED <<camera, files, loop, lpd, buffer, data, queue, main>>

\* TS_LPD_run fails or finds no vehicle: `continue' before munmap.
DetectNothing ==
    /\ rpc = "detect"
    /\ rpc' = "discard_tensor"
    /\ UNCHANGED <<camera, files, loop, lpd, buffer, data, queue, main>>

\* ReadFileByMMap(image_path): on failure only the image file is removed.
OpenImage ==
    /\ rpc = "open_image"
    /\ \/ rpc' = "remove_tensor"
       \/ "image_open" \in Faults /\ rpc' = "discard_image"
    /\ UNCHANGED <<camera, files, loop, lpd, buffer, data, queue, main>>

\* RemoveFile: a file that cannot be removed is logged and stays.  It is as
\* good for a file that is not there, whose failure changes nothing.
RemoveTensorFile ==
    \/ tensor' = tensor \ {this} /\ UNCHANGED keptTensors
    \/ /\ "remove" \in Faults /\ this \in tensor
       /\ keptTensors' = keptTensors \cup {this} /\ UNCHANGED tensor

\* Every image that is there, or will be, needs a turn; a removal fails only
\* while TurnLimit leaves a turn for each.
TurnsLeft ==
    Cardinality({f \in Frames : f \in image \/ f > shotImages})
        <= TurnLimit - cur

RemoveImageFile ==
    \/ image' = image \ {this} /\ UNCHANGED keptImages
    \/ /\ "remove" \in Faults /\ TurnsLeft
       /\ keptImages' = keptImages \cup {this} /\ UNCHANGED image

\* RemoveFile(tensor_path); RemoveFile(image_path); continue
DiscardTensor ==
    /\ rpc = "discard_tensor"
    /\ RemoveTensorFile
    /\ rpc' = "discard_image"
    /\ UNCHANGED <<image, imageDirs, tensorDirs, keptImages>>
    /\ UNCHANGED <<camera, loop, lpd, buffer, data, queue, main>>

FaultyDiscardKeepsImage ==
    /\ rpc = "discard_image"
    /\ rpc' = "next"
    /\ UNCHANGED <<camera, files, loop, lpd, buffer, data, queue, main>>

DiscardImage ==
    /\ rpc = "discard_image"
    /\ RemoveImageFile
    /\ rpc' = "next"
    /\ UNCHANGED <<tensor, imageDirs, tensorDirs, keptTensors>>
    /\ UNCHANGED <<camera, loop, lpd, buffer, data, queue, main>>

\* delete_image_tensor is always true: both files go before the crop, which
\* reads the mapping of the image.
RemoveTensor ==
    /\ rpc = "remove_tensor"
    /\ RemoveTensorFile
    /\ rpc' = "remove_image"
    /\ UNCHANGED <<image, imageDirs, tensorDirs, keptImages>>
    /\ UNCHANGED <<camera, loop, lpd, buffer, data, queue, main>>

RemoveImage ==
    /\ rpc = "remove_image"
    /\ RemoveImageFile
    /\ rpc' = "rotate"
    /\ UNCHANGED <<tensor, imageDirs, tensorDirs, keptTensors>>
    /\ UNCHANGED <<camera, loop, lpd, buffer, data, queue, main>>

\* What is left of dirs after RemoveFile(d): the removal fails, silently,
\* when d still holds files, and may fail otherwise.
RemoveDir(dirs, d, dirFiles) ==
    {left \in {dirs, dirs \ {d}} :
        /\ d \notin left => \A f \in dirFiles : Dir[f] # d
        /\ d \in left => \/ \E f \in dirFiles : Dir[f] = d
                         \/ "remove" \in Faults}

FaultyRotateThisDir ==
    /\ rpc = "rotate"
    /\ imageDirs' \in RemoveDir(imageDirs, Dir[this], image)
    /\ tensorDirs' \in RemoveDir(tensorDirs, Dir[this], tensor)
    /\ preDir' = Dir[this]
    /\ rpc' = "crop"
    /\ UNCHANGED <<image, tensor, keptImages, keptTensors>>
    /\ UNCHANGED <<listed, scanned, cur, frame, horizon, mapped>>
    /\ UNCHANGED <<camera, lpd, buffer, data, queue, main>>

\* "Remove unused directory": once, when the first frame of a later one comes.
Rotate ==
    /\ rpc = "rotate"
    /\ IF preDir # None /\ preDir < Dir[this]
          THEN /\ imageDirs' \in RemoveDir(imageDirs, preDir, image)
               /\ tensorDirs' \in RemoveDir(tensorDirs, preDir, tensor)
          ELSE UNCHANGED <<imageDirs, tensorDirs>>
    /\ preDir' = IF preDir < Dir[this] THEN Dir[this] ELSE preDir
    /\ rpc' = "crop"
    /\ UNCHANGED <<image, tensor, keptImages, keptTensors>>
    /\ UNCHANGED <<listed, scanned, cur, frame, horizon, mapped>>
    /\ UNCHANGED <<camera, lpd, buffer, data, queue, main>>

\* TS_LPR_image_crop_and_convert allocates the pixels.  Its result code is
\* ignored: when it fails image_data keeps what the stack slot held before,
\* null or the pointer of an earlier turn.
Crop ==
    /\ rpc = "crop"
    /\ \/ /\ buffer' = [buffer EXCEPT ![cur] = "live"]
          /\ data' = [data EXCEPT ![cur] = cur]
       \/ /\ "crop" \in Faults
          /\ \E p \in {None} \cup {t \in Turns : buffer[t] # "none"} :
                data' = [data EXCEPT ![cur] = p]
          /\ UNCHANGED buffer
    /\ rpc' = "check"
    /\ UNCHANGED <<camera, files, loop, lpd, queue, main>>

FaultyCheckSizeOffByOne ==
    /\ rpc = "check"
    /\ rpc' = IF Len(q) > QueueMax THEN "drop" ELSE "push"
    /\ UNCHANGED <<camera, files, loop, lpd, buffer, data, queue, main>>

\* g_data_queue.size() >= MAX_QUEUE_SIZE: the lock is free again after this.
CheckSize ==
    /\ rpc = "check"
    /\ rpc' = IF Len(q) >= QueueMax THEN "drop" ELSE "push"
    /\ UNCHANGED <<camera, files, loop, lpd, buffer, data, queue, main>>

\* delete[] image_data, unless it is null
FreeImage(t) ==
    buffer' = IF data[t] = None THEN buffer
                                ELSE [buffer EXCEPT ![data[t]] = "freed"]

FaultyDropForgetsImage ==
    /\ rpc = "drop"
    /\ Queue!Take
    /\ rpc' = "push"
    /\ UNCHANGED <<camera, files, loop, lpd, buffer, data, main>>

FaultyDropNewest ==
    /\ rpc = "drop"
    /\ q # << >>
    /\ q' = SubSeq(q, 1, Len(q) - 1)
    /\ taken' = Append(taken, q[Len(q)])
    /\ FreeImage(q[Len(q)])
    /\ rpc' = "push"
    /\ UNCHANGED <<camera, files, loop, lpd, data, main>>

\* g_data_queue.pop(nullptr) blocks while the queue is empty;
\* releaseTensorAndImage frees the image of the frame, not its lpd_result.
DropOldest ==
    /\ rpc = "drop"
    /\ Queue!Take
    /\ FreeImage(Head(q))
    /\ rpc' = "push"
    /\ UNCHANGED <<camera, files, loop, lpd, data, main>>

Push ==
    /\ rpc = "push"
    /\ Queue!Put(cur)
    /\ rpc' = "next"
    /\ UNCHANGED <<camera, files, loop, lpd, buffer, data, main>>

Receiver ==
    \/ BeginScan \/ EndScan \/ TakeNext \/ ListDone
    \/ OpenTensor \/ Detect \/ DetectNothing \/ DiscardTensor \/ DiscardImage
    \/ OpenImage \/ RemoveTensor \/ RemoveImage \/ Rotate
    \/ Crop \/ CheckSize \/ DropOldest \/ Push

-----------------------------------------------------------------------------
(* The main thread: the loop at the end of main().                          *)

FaultyPopWithoutWaiting ==
    /\ mpc = "pop"
    /\ IF q # << >> THEN Queue!Take /\ held' = Head(q)
                    ELSE UNCHANGED <<queue, held>>
    /\ mpc' = "run"
    /\ UNCHANGED <<camera, files, rpc, loop, lpd, buffer, data, lpr, result>>

FaultyPopReleasesDetections ==
    /\ mpc = "pop"
    /\ Queue!Take
    /\ held' = Head(q)
    /\ lpd' = [lpd EXCEPT ![Head(q)] = "freed"]
    /\ mpc' = "run"
    /\ UNCHANGED <<camera, files, rpc, loop, buffer, data, lpr, result>>

MainPop ==
    /\ mpc = "pop"
    /\ Queue!Take
    /\ held' = Head(q)
    /\ mpc' = "run"
    /\ UNCHANGED <<camera, files, rpc, loop, lpd, buffer, data, lpr, result>>

\* TS_LPR_run allocates its result.  A failure is only logged: lpr_result,
\* which has no initial value, then holds what its stack slot held before,
\* anything or the pointer of an earlier turn of the loop.
Recognise ==
    /\ mpc = "run"
    /\ \/ /\ lpr' = [lpr EXCEPT ![held] = "live"]
          /\ result' = held
       \/ /\ "lpr" \in Faults
          /\ result' \in {None, result}
          /\ UNCHANGED lpr
    /\ mpc' = "release"
    /\ UNCHANGED <<camera, files, rpc, loop, lpd, buffer, data, queue, held>>

FaultyReleaseForgetsResult ==
    /\ mpc = "release"
    /\ FreeImage(held)
    /\ lpd' = [lpd EXCEPT ![held] = "freed"]
    /\ mpc' = "pop"
    /\ UNCHANGED <<camera, files, rpc, loop, data, queue, held, lpr, result>>

FaultyReleaseForgetsDetections ==
    /\ mpc = "release"
    /\ FreeImage(held)
    /\ lpr' = IF result = None THEN lpr ELSE [lpr EXCEPT ![result] = "freed"]
    /\ mpc' = "pop"
    /\ UNCHANGED <<camera, files, rpc, loop, lpd, data, queue, held, result>>

\* releaseTensorAndImage, TS_LPR_release and TS_LPD_release of the frame
Release ==
    /\ mpc = "release"
    /\ FreeImage(held)
    /\ lpr' = IF result = None THEN lpr ELSE [lpr EXCEPT ![result] = "freed"]
    /\ lpd' = [lpd EXCEPT ![held] = "freed"]
    /\ mpc' = "pop"
    /\ UNCHANGED <<camera, files, rpc, loop, data, queue, held, result>>

Main == MainPop \/ Recognise \/ Release

Next == Camera \/ Receiver \/ Main

Spec == Init /\ [][Next]_vars

\* Both threads run whenever they can.  The camera owes nothing.
FairSpec == Spec /\ WF_vars(Receiver) /\ WF_vars(Main)

-----------------------------------------------------------------------------
(* Properties                                                               *)

InQueue(t)       == \E i \in DOMAIN q : q[i] = t
MainHolds(t)     == mpc # "pop" /\ held = t
ReceiverHolds(t) == rpc \in {"check", "drop", "push"} /\ cur = t
InFlight(t)      == InQueue(t) \/ MainHolds(t) \/ ReceiverHolds(t)

\* All turns that were pushed, oldest first.
Queued == taken \o q

(***************************************************************************)
(* The queue never holds more than MAX_QUEUE_SIZE frames, although the     *)
(* size is read in one critical section and the frame pushed in a later    *)
(* one, with the main thread popping in between.                           *)
(***************************************************************************)
QueueBounded == Len(q) <= QueueMax

\* So far every crop has given its frame an image.
CropsSucceeded ==
    /\ \A i \in DOMAIN Queued : data[Queued[i]] = Queued[i]
    /\ rpc \in {"check", "drop", "push"} => data[cur] = cur

(***************************************************************************)
(* Pixels have one owner.  As long as crops succeed, the pixels allocated  *)
(* for a frame are live exactly while the frame is in the queue or in the  *)
(* hands of a thread: neither thread frees or uses memory the other one    *)
(* has freed, and a dropped frame loses no pixels, also when files cannot  *)
(* be removed and the frame is queued again.                               *)
(***************************************************************************)
PixelsOwned ==
    CropsSucceeded =>
        \A t \in Turns : buffer[t] = "live" <=> InFlight(t)

(***************************************************************************)
(* No use of released detections: the array of TS_LPD_run is live from the *)
(* detector until the main thread has recognised the frame.                *)
(***************************************************************************)
DetectionsLive == \A t \in Turns : InFlight(t) => lpd[t] = "live"

(***************************************************************************)
(* Each image reaches the queue at most once, and frames are queued in the *)
(* order they were shot, except that a frame may overtake one whose image  *)
(* was written after the scan that found the overtaking frame had begun:   *)
(* no later scan finds a queued image again, and no frame is put behind a  *)
(* later one that the same scan, or a scan begun earlier, has found.  Only *)
(* a frame whose image file could not be removed comes again, and late.    *)
(***************************************************************************)
ShotOrder ==
    \A i, j \in DOMAIN Queued :
        LET earlier == Queued[i]
            later   == Queued[j]
        IN  i < j /\ frame[later] \notin keptImages =>
                /\ frame[earlier] # frame[later]
                /\ \/ frame[earlier] < frame[later]
                   \/ frame[later] > horizon[earlier]

(***************************************************************************)
(* A tensor stays mapped after its frame has left the receiver's hands     *)
(* only when the detector rejected it: the leak is one mapping for each    *)
(* rejected frame, and none for a frame that is queued.                    *)
(***************************************************************************)
MappingsOfRejectedOnly ==
    \A t \in mapped : lpd[t] = "none" /\ ~InFlight(t)

(***************************************************************************)
(* The rotation never takes a directory from under the camera: a directory *)
(* that the camera has made for an image or a tensor it still has to write *)
(* is not removed, although it may be empty at that moment, between two    *)
(* frames or before the first one, and although the camera and the         *)
(* receiver have no lock or message between them.                          *)
(***************************************************************************)
CameraKeepsDirs ==
    [][\A f \in Frames :
          /\ f > shotImages /\ Dir[f] \in imageDirs => Dir[f] \in imageDirs'
          /\ f > shotTensors /\ Dir[f] \in tensorDirs => Dir[f] \in tensorDirs'
      ]_vars

(***************************************************************************)
(* No recognition is lost: an array TS_LPR_run has allocated is live only  *)
(* while main has the frame it was allocated for and lpr_result points to  *)
(* it, also after recognitions that failed and left lpr_result pointing to *)
(* an earlier array, so that at most one is live at any time.              *)
(***************************************************************************)
ResultsReleased ==
    \A t \in Turns :
        lpr[t] = "live" => mpc = "release" /\ held = t /\ result = t

(***************************************************************************)
(* Nothing is released twice.  What the receiver is about to delete for    *)
(* the frame it drops, and main for the frame it has recognised, is live   *)
(* when they do it and not the same: the pixels if crops succeed, the      *)
(* array of TS_LPR_run if recognitions do, the detections in any case.     *)
(***************************************************************************)
ReleasesLive ==
    /\ rpc = "drop" /\ q # << >> /\ CropsSucceeded =>
          /\ buffer[data[Head(q)]] = "live"
          /\ mpc = "release" => data[Head(q)] # data[held]
    /\ mpc = "release" =>
          /\ lpd[held] = "live"
          /\ CropsSucceeded => buffer[data[held]] = "live"
          /\ "lpr" \notin Faults => result = held /\ lpr[held] = "live"

(***************************************************************************)
(* The pipeline implements FrameDelivery: whatever fails and however the   *)
(* threads interleave, a frame whose image file is removed is lost or      *)
(* recognised once and never seen again, one frame is recognised at a      *)
(* time, and only the oldest queued frame is dropped, while the receiver   *)
(* has another one.  A frame whose image file stays may come again, and    *)
(* waits in the same line.                                                 *)
(***************************************************************************)
IsIn(f, Stage(_)) == \E t \in Turns : frame[t] = f /\ Stage(t)
Freed(t) == lpd[t] = "freed"
Handling(f) == f \in image \/ (~BetweenFrames /\ this = f)
Fate(f) ==
    IF f > shotImages             THEN "not_shot"
    ELSE IF f \in keptImages      THEN "kept"
    ELSE IF IsIn(f, Freed)        THEN "recognised"
    ELSE IF IsIn(f, MainHolds)    THEN "recognising"
    ELSE IF IsIn(f, InQueue)      THEN "queued"
    ELSE IF Handling(f)           THEN "pending"
    ELSE                               "lost"
Delivery == INSTANCE FrameDelivery WITH
                fate <- [f \in Frames |-> Fate(f)],
                line <- [i \in DOMAIN q |-> frame[q[i]]]
DeliversFrames == Delivery!Spec

(***************************************************************************)
(* Detections are released: the array of TS_LPD_run is released when it is *)
(* not needed any more (ts_lpr_perception.h, TS_LPD_release), that is, it  *)
(* is live only while a thread or the queue still has the frame.  The code *)
(* breaks this where it drops the oldest frame of a full queue.            *)
(***************************************************************************)
BeingPrepared(t) ==
    rpc \in {"open_image", "remove_tensor", "remove_image", "rotate", "crop"}
    /\ cur = t
DetectionsReleased ==
    \A t \in Turns : lpd[t] = "live" => InFlight(t) \/ BeingPrepared(t)

(***************************************************************************)
(* There is no other way to lose detections: as long as the queue is never *)
(* found full, they are live only while a thread or the queue has their    *)
(* frame, or when the image could not be opened.  That leaves the tensor   *)
(* file behind as well, unless the image could not be removed either and   *)
(* the frame came again.                                                   *)
(***************************************************************************)
LeakNeedsFullQueue ==
    [](rpc # "drop") =>
        [](\A t \in Turns : lpd[t] = "live" =>
               \/ InFlight(t) \/ BeingPrepared(t)
               \/ frame[t] \in tensor \cup keptImages)

(***************************************************************************)
(* TS_LPR_run gets an image (ts_lpr_perception.h, input_image): the pixels *)
(* cropped for this frame.  The code breaks this when a crop fails.        *)
(***************************************************************************)
InputIsImage == mpc = "run" => data[held] = held /\ buffer[held] = "live"

\* Both threads are inside g_data_queue.pop() of an empty queue: only the
\* receiver ever pushes, so that neither will run again.
Stuck == rpc = "drop" /\ mpc = "pop" /\ q = << >>

(***************************************************************************)
(* The pixels of a queued frame are freed in the end, by whichever thread  *)
(* pops the frame; the threads cannot block each other while a frame is    *)
(* left in the queue.  A frame whose crop failed owns no pixels.           *)
(***************************************************************************)
QueuedPixelsFreed ==
    \A t \in Turns : InQueue(t) /\ data[t] = t ~> buffer[t] = "freed"

(***************************************************************************)
(* Every image file is handled and removed in the end unless both threads  *)
(* are stuck in pop() or the removal of this very image fails: there is no *)
(* other way for the pipeline to stop or to pass a frame over, no matter   *)
(* how tensors arrive, which frames the libraries reject, which other      *)
(* files cannot be removed and how often.                                  *)
(***************************************************************************)
HandledOrStuck ==
    \A f \in Frames :
        f \in image ~> f \notin image \/ Stuck \/ f \in keptImages

(***************************************************************************)
(* The tool reads and processes the image files (release_README.md, 3.2):  *)
(* every image file is handled and removed in the end.  The code breaks    *)
(* this when the main thread empties the queue after the receiver has      *)
(* found it full and before it pops the oldest frame.                      *)
(***************************************************************************)
EveryImageHandled == \A f \in Frames : f \in image ~> f \notin image

(***************************************************************************)
(* The tool reads and processes the tensor files (release_README.md, 3.2): *)
(* once both files of a frame are written, its tensor file is removed in   *)
(* the end.  The code breaks this for a tensor that is written after the   *)
(* receiver has given its image up.                                        *)
(***************************************************************************)
EveryTensorHandled ==
    \A f \in Frames :
        f \in tensor /\ f <= shotImages ~> f \notin tensor

(***************************************************************************)
(* There is no other way to leave a tensor behind: when the camera writes  *)
(* the tensor of each frame before its image, a tensor file outlives the   *)
(* image file only if it could not be removed itself, or if the detector   *)
(* has accepted the frame and the image could not be opened.               *)
(***************************************************************************)
OrphanNeedsLateTensor ==
    [](shotImages <= shotTensors) =>
        [](\A f \in tensor :
               f <= shotImages =>
                   \/ f \in image \/ f \in keptTensors
                   \/ \E t \in Turns : frame[t] = f /\ lpd[t] = "live")
=============================================================================
