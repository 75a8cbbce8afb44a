# Verification of type4_parking_online

`type4_parking_online` (`src/src/type4_main.cpp`) reads tensors and NV12 images that a camera
application writes to two directory trees, detects vehicles (LPD), crops the image to the vehicle,
recognises the plates (LPR) and deletes the files.  This directory holds TLA+ models of the program,
TLC configurations for them, and proofs checked by TLAPS.

## 1. Inventory

| component | state | operations | talks to |
|---|---|---|---|
| `BlockingQueue` (`include/BlockingQueue.h`) | `Q_`, one mutex, one condition variable | `push`, `pop`, `peek`, `try_pop`, `try_peek`, `clear`, `size` | shared by the two threads below |
| receiver thread (`ReceiveDataFromFile`) | list of images, directory of the last frame, one frame in progress | scan, read tensor, detect, read image, delete files, rotate directories, crop, drop, push | file system, LPD/LPR library, queue |
| main loop (`main`, from `type4_main.cpp:267`) | one frame, one result | pop, recognise, release | queue, library |
| start-up (`main`, up to `type4_main.cpp:262`) | configuration, magnification, modules initialised | read and check the configuration, licence, `*_init`, `*_setParam` | configuration, library |
| crop geometry (`type4_main.cpp:521-532`, `convertLPDResult`) | vehicle and plate boxes, crop rectangle | crop, convert in place | runs in the receiver |
| file utilities (`utils.cpp`) | none | `GetFileList`, `ReadFileByMMap`, `RemoveFile`, `split_string`, `GetTimeStampFromUTC` | file system |
| `DataTrans` (`data_trans.cpp`) | socket, two buffers, client, refresher thread | `init`, `send_message`, `deinit`, destructor, `client_refresher` | MQTT-C; its calls in `main` are commented out |
| MQTT-C (vendored, `mqtt.c`) | message queue in the send buffer, `send_offset`, error, mutex | connect, publish, `mqtt_sync` (receive, send, keep-alive) | socket, broker |
| json11, b64, draw_helper | - | parsing, encoding, debug drawing | - |
| camera application, LPR library, broker | external | | |

Hard behaviour: two threads and another process interleave; the size of the queue is tested in one
critical section and acted upon in another; image and tensor of a frame are two files; a directory
is read while it is written; nine steps between listing an image and queueing its frame can fail,
each with its own clean-up, which may fail in its turn and leave a file that is found again; three kinds of memory (mapping, detections, pixels) travel with a frame
from thread to thread.  In `DataTrans` a thread is told to stop after what it works on has been released,
and is not waited for; the MQTT client cuts messages up over calls, and matches answers by their kind.
`PROJECT.json` lists the hazards line by line with the properties for them.

## 2. Modules

| module | models | refines / used by |
|---|---|---|
| `FifoQueue` | what the queue promises: first in first out, each item once | |
| `BlockingQueue` | `BlockingQueue.h` with its lock and wait set | implements `FifoQueue` |
| `FrameDelivery` | what the program promises for a frame whose file it can remove: recognised once or lost, in line order | |
| `FramePipeline` | camera, receiver thread, main loop | implements `FrameDelivery`; uses `FifoQueue` for `g_data_queue` |
| `Startup` | `main()` up to the start of the receiver | hands over to `FramePipeline` |
| `CropGeometry` | the integer geometry of one detection | a step of the receiver |
| `DataTrans` | sessions of one `DataTrans` object: caller and refresher threads | calls of the client work or fail here; what they do is in `MqttClient` |
| `MessageDelivery` | what the client promises for a message: accepted once, delivered in order, the link only gets worse | |
| `MqttClient` | message queue, sending in parts, answers, keep-alive of MQTT-C | implements `MessageDelivery`; the client of one session of `DataTrans` |
| `MC...` | instances for TLC | |
| `...Proofs` | theorems | section 4 |

**BlockingQueue.**  Each member function holds the mutex from its first line to its return or to
`condvar_.wait`, so that such a stretch is one step.  `waiting` is the wait set of the condition
variable; `wait` releases the mutex and joins it in one step, `NotifyOne` takes one thread out of it,
`SpuriousWakeup` any.  `call` says which blocking call a thread is inside of; a woken thread
tests `Q_.empty()` again in a step of its own, and any thread may come first.  `taken` is a history
variable.  `size`, `try_peek` and `try_pop` of an empty queue change nothing and have no action.

**FramePipeline.**  A frame is a number; numbers follow the order of image paths, which is the order
in which the camera shoots.  A *turn* is one pass through the body of the `for` over the list: it handles one
image file.  An image that could not be removed is listed again and gets a turn more, so that memory and the
queue belong to turns (`frame[t]` is the frame of turn `t`, `this` that of the present one).  Each thread has a program
counter (`rpc`, `mpc`) and is split where another thread or the camera can come in between:

| steps of `ReceiveDataFromFile` | action |
|---|---|
| `GetFileList`, the inner `while`, `std::sort` | `BeginScan`, `EndScan` |
| `for` over the list | `TakeNext` (with `BeginTurn`), `ListDone` |
| `ReadFileByMMap(tensor_path)`, which fails for a missing file and, at will, for one that is there | `OpenTensor` |
| `TS_LPD_run`, `munmap` | `Detect`, `DetectNothing` |
| `RemoveFile` twice and `continue` | `DiscardTensor`, `DiscardImage` (with `RemoveTensorFile`, `RemoveImageFile`) |
| `ReadFileByMMap(image_path)` | `OpenImage` |
| `RemoveFile` of files and of old directories | `RemoveTensor`, `RemoveImage`, `Rotate` (with `RemoveDir`) |
| crop rectangle, `TS_LPR_image_crop_and_convert` | `Crop` |
| `size() >= MAX_QUEUE_SIZE`, `pop` and release, `push` | `CheckSize`, `DropOldest`, `Push` |

| steps of the main loop | action |
|---|---|
| `pop(nullptr)` | `MainPop` |
| `TS_LPR_run` | `Recognise` |
| `releaseTensorAndImage`, `TS_LPR_release`, `TS_LPD_release` | `Release` |

`RemoveFile` logs a failure and returns (`utils.cpp:167-174`): a removal is a choice between removing the file and leaving it.
`keptImages` and `keptTensors` are history variables, the frames of which a file has stayed once.  The camera, another
process, makes a directory and creates a file in it in two steps (`MakeImageDir`, `WriteImage` and the same for tensors), and
the rotation may come in between.  `Faults` says which calls may fail: `tensor_open`, `image_open` (`ReadFileByMMap`), `remove`
(`RemoveFile`), `crop`, `lpr` (`TS_LPR_run`); the detector may always fail or find nothing.

A scan reads directories while the camera writes.  POSIX promises that a file present from the
beginning is returned and leaves it open for others: `BeginScan` lists the images present, `EndScan`
adds any subset of those written since.  This covers every interleaving of `readdir` with the camera,
and every order in which directories are read, because the list is sorted afterwards.
Memory is tracked by owner: `mapped` (tensor mappings), `lpd` (arrays of `TS_LPD_run`), `buffer`
(pixels), `lpr` (arrays of `TS_LPR_run`); `data` and `result` are the pointers to the last two, which
are uninitialised variables in the code: when the call that sets them fails they hold what their
stack slot held before, modelled as null or any pointer stored there in an earlier turn.  `horizon`
is a history variable: for each turn, how many images were written when the scan that found its image began.

The refinement mapping is `Fate`: a frame not yet written is `not_shot`; one whose image could not be removed is `kept`; one whose
detections were released is `recognised`; one popped by main is `recognising`, one in `q` `queued`; one whose image file
exists, or that the receiver has in hand, is `pending`; any other is `lost`.  Deleting the files of a rejected frame maps to `GiveUp`,
a failing removal of the image to `Keep`, `Push` to `Accept`, `DropOldest` to `Drop`; the `line` is `q` with its turns replaced by
their frames.  `FrameDelivery` promises nothing for a `kept` frame but that it waits in the same line (`Stays`).

**Startup.**  The configuration is part of the initial state, and every call may succeed or fail.
Steps are the calls of `main()` in their order.

**CropGeometry.**  x and y are treated alike, so one axis is modelled.  The magnification is a rational, `Num / Den`, and the code's
float product is that product plus an error, `Round`, a constant operator of which only the bound `Err` is assumed: less than half
a pixel, and none when 0 is magnified.  `Cut` is the conversion to int.  For the magnifications of the repository (6.3375, and 6.3333 next
to it), coordinates of 0 to 640 and whole offsets from -600 to 600 a comparison of the code's float arithmetic with exact
fractions finds errors of 4e-4 pixel at most, 1.6 in the units of the run, where `Err` is 2; and the pixel it is cut off to is always the exact one.
`Image` is the extent of the image, 4032 in the run, and not what the tensor is magnified to: 640 * 6.3375 is 4056, so that a vehicle at the
right edge of the tensor leaves the image (section 5), and `CropInImage` is about vehicles that lie in it once magnified and moved.
`offset` is `x_offset`, which `main()` reads once; it is a float in the code and taken to be a whole number, of either sign.  The code adds it to
three of the four sums of `convertLPDResult` and to the start of the crop; the properties say how far the boxes may move against the crop for it
(`CutSlack`: conversion to int cuts off towards 0, so that below 0 a pixel more is lost; `RoundSlack`: a pixel for the rounding; `ShiftSlack`:
both, where there is an offset).

**DataTrans.**  A session is what one `init()` makes; its number stands for its socket, its buffers and
its thread.  `held` is what the members of the object point to, `live` what is allocated, `daemon` the
member `client_daemon_`, and `client_` with its mutex is one variable for all sessions.

| steps of the caller | action |
|---|---|
| `init`: `open_nb_socket`; the first buffer, the second, each with its way out for want of memory | `OpenSocket`; `AllocateSend`, `AllocateRecv` |
| `mqtt_init`, `mqtt_connect` and the test of `client_.error`, `pthread_create` | `InitClient`, `Connect`, `CreateThread` |
| `send_message`: argument, `mqtt_publish`, test of `client_.error` | `SendMessage`, `Publish`, `Report` |
| `deinit` or destructor: `release`, `pthread_cancel` | `Deinit`, `Cancel` |

| steps of `client_refresher` | action |
|---|---|
| a lock of the mutex in `mqtt_sync`, for `__mqtt_recv` or `__mqtt_send` | `Lock` |
| `recv()`; the rest of `__mqtt_recv` with its unlock | `Recv`, `Parse` |
| `__mqtt_send` with its unlock, or cancelled inside of `send()` | `SendQueue`, `DieSending` |
| `usleep` | `Sleep` |

A thread is cancelled at a cancellation point only (`recv`, `send`, `usleep`), and what it has locked stays
locked.  `owner` is who has the mutex locked: a refresher, the caller (`Main`, from `mqtt_init` to `mqtt_connect`) or nobody; a thread that died
with it stays its owner.  `mqtt_init` makes a new mutex of the one member, whoever holds the old one.  After a failing
`pthread_create`, and before the first one, `client_daemon_` is indeterminate: `pthread_cancel` then does
nothing, or the process crashes.  An `init()` that gets no socket changes nothing and is no step; `mqtt_init` fails for null pointers only, which it is
not given.  A message that `mqtt_publish` cannot pack, or that does not fit, is an error (`failed`, `full`).

**MqttClient.**  Every critical section of the client's mutex is one action: `Publish` is `mqtt_publish`;
`SendAll`, `SendPart`, `SendFails` are `__mqtt_send` by what the socket makes of it (takes everything, a
part of the message at `k`, fails there), `Recv` and `RecvFails` `__mqtt_recv` for one answer.  A message
keeps its place (`start`) and `size` in the buffer; `mq.curr` is where the next one goes, and headers grow from
the other end.  `TryPack` is the macro `MQTT_CLIENT_TRY_PACK` (clean, try again, give up; packing itself, which fails for arguments the
program does not pass, `mqtt.c:232-238`, is left out: it would set another error than that of a full buffer), `Clean` is `mqtt_mq_clean`, and `KeepAlive` the ping at the end of `__mqtt_send`.  `out` is a history variable: which bytes of
a message the broker already has.  When the next byte the code sends is not the next the broker waits for
(`~Follows`) the stream breaks, and the model ends there (`SendWrong`).  `time_of_last_send` is not initialised by
`mqtt_init`, so a ping may be due from the start; `Expire` lets an answer take more than the 30 seconds of
`response_timeout`.  The broker answers what it has received whole, in order, and may refuse the connection.

The refinement mapping to `MessageDelivery` is `Link`: the link is `open` while the stream is intact and there is no error,
`full` after `MQTT_ERROR_SEND_BUFFER_IS_FULL`, and `broken` after any other error or a broken stream.  An accepting `Publish`
maps to `Accept`; a send, in which any number of whole messages may get out before it fails, to `Deliver`, and so do the errors.

Operators named `Faulty...` are slips (a dropped guard, a swapped order) that the properties must
catch; nothing uses them except that check.

## 3. Runs

| run (configuration) | bounds | shows |
|---|---|---|
| `queue` (`BlockingQueue.cfg`) | 6 threads, 2 items per pusher | no lost wakeup, every item leaves, refinement of `FifoQueue` |
| `pipeline_safety` | 3 frames in 2 directories, 3 turns, queue of 2; opening files, removing tensors and directories, `TS_LPR_run` may fail | queue bound, results are not lost, the camera keeps its directories |
| `pipeline_live` | 2 frames in one directory, 3 turns, queue of 2; every call but `TS_LPR_run` may fail | pixels have one owner and are freed; detections are live where they are used; which mappings leak; order; refinement of `FrameDelivery`; the only way to stop is both threads in `pop()`; no other ways to lose detections and tensors than those of section 5 |
| `pipeline_stuck`, `_orphan`, `_leak` | 2 to 4 frames, as many turns, no call fails | disagreements with the documentation, section 5 |
| `startup` | magnifications -1, 0, 6 | readiness, licence and clean-up over every configuration |
| `startup_magnify` | the same | disagreement, section 5 |
| `crop` | tensor of 640, image of 4032, magnification 25350/4000 = 6.3375, offsets -12, 0 and 1, boxes with their ends at 15 places, errors of -2 to 2 units of 1/4000 | crop within image, boxes within crop |
| `datatrans` | 3 sessions, any number of messages | nothing leaks, old refreshers stop, failures are reported, buffers stay until a refresher is told to stop, the mutex has an owner, nobody waits for ever in a single session |
| `datatrans_use` | 1 session | disagreement, section 5 |
| `mqtt` | buffer of 9, messages of 1 to 3, headers of 1, 3 publications, 1 late answer | buffer layout, whole messages on the wire, order, answers, delivery, refinement of `MessageDelivery` |

Bounds.  `FrameCount` bounds what the camera shoots, `TurnLimit` the turns of the receiver.  A removal of an image fails only while a
turn is left for every image that is there or to come (`TurnsLeft`), so that no image is passed over because the bound is
reached.  `pipeline_live` has a turn more than frames: one frame can stay and come again while the first copy of it is queued, held by main
or recognised.  `pipeline_safety` has three frames, for a full queue with one frame in the receiver's hands or main's; the first two share a
directory, so that a rotation happens and the camera can be about to write to either.  It has no turn to spare, so that no image removal
fails there; what image removals do to its properties (nothing) is in the proofs.  With a turn more it has 25 million states.
`pipeline_leak` has 4 frames: one in main's hands, two in the queue, one in the receiver's.
The queue run: two consumers besides the thread that pushes and pops are needed for one to steal the item of a woken one.
The ends of boxes in `crop` are where products are whole (multiples of 80) and next to it, at both ends of the tensor, and around 636, where the
vehicle leaves the image.
The safety properties of the pipeline are proved for all values as well.
`DataTrans`: three sessions, so that refreshers of two earlier ones run while another is set up, use the same
client and may die with its mutex; the safety properties are proved for any number.  The two liveness
properties are about the first session only (`last > 1` excepts the rest): with a second one they do not hold,
see section 5.  `MqttClient`: the buffer has room for three small messages or two large ones, so that it is full,
is cleaned with messages still open before and after those that go, and is full for good; three publications
and a ping put up to four messages into a row.  `FramingHolds` and `AcksMatch` are stated until the first late answer,
because they do not hold afterwards (section 5); the model goes on, and `Layout`, `NothingForgotten` and `DeliversMessages` hold there
too.

Three properties say how far the disagreements of section 5 reach: `OrphanNeedsLateTensor` and `LeakNeedsFullQueue` have a
hypothesis about the whole behaviour (tensors are written first; the queue is never found full), which fair behaviours
of the run satisfy and others do not, and `LiveUntilStopped` excepts the steps of `deinit()` only.  An image that cannot be opened is
the other way to lose detections and tensor in both, and a tensor or an image that cannot be removed stays, so that they leave these room.

Three properties follow from others and are proved without a run of their own: `PushOrder` (order is what `ImplementsFifo` promises),
`ReleasesLive` (from `PixelsOwned`, `DetectionsLive` and `Recognise`) and `DeliveredInOrder` (part of `DeliversMessages`).

Deadlock is checked for the queue.  It is not for the pipeline and the geometry: the camera may stop,
and the pipeline really can stop (section 5); `main()` ends when start-up fails.  Nor is it for `DataTrans`, whose
later sessions may find the mutex taken by a dead thread, and for `MqttClient`, where nothing is sent any more after an
error of the connection.

Fairness.  `FramePipeline!FairSpec`: each of the two threads runs when it can (weak fairness), as any
preemptive scheduler gives it.  Nothing is assumed of the camera or of which library calls fail.
`BlockingQueue!FairSpec`: a thread inside `pop` or `peek` and not asleep runs, and a thread that only
pops calls `pop` again, like the loop of `main()`.  Nothing is assumed of pushers or of spurious wakeups.
`DataTrans!FairSpec`: the caller goes on inside of `deinit` and `send_message` (weak fairness), refreshers run, and who waits
for the mutex gets it when it is free again and again (strong fairness for `Publish` and `Lock`: the refresher gives it up for
20 ms in every turn, much longer than a wakeup takes).  Nobody has to call `init` or `deinit`.
`MqttClient!FairSpec`: `mqtt_sync` is called every 20 ms and the broker reads, so that the socket takes at least one more
byte of what is due (`Progress`).  Nothing is assumed of answers, of `mqtt_publish` calls or of errors.

## 4. Proofs

For every value of the constants:

* `BlockingQueueProofs!WakeupsSuffice`: `NoLostWakeup` is inductive together with the type: a push adds
  one item and one woken thread; a pop takes one of each, or only an item when the thread has just
  arrived; a thread that falls asleep has found the queue empty.  A woken `peek()` takes a notification
  and no item: the property is stated for as long as no such call has returned, and nothing in the
  program calls `peek()`.
* `BlockingQueueProofs!PushersKeepOrder`: over what was taken followed by what is queued (`Entered`): a pop moves an item from
  one part to the other and leaves the whole alone, `clear()` cuts the end off, and a push adds a number above all that its
  pusher has used (`Numbered`).
* `BlockingQueueProofs!RefinesFifo`: every step maps to `Put`, `Take`, `Discard` or a stutter.
* `FramePipelineProofs!BoundedQueue`: inductive with `RoomForPush`: between the test of the size and the
  push the queue can only have become shorter, because only the receiver pushes.
* `FramePipelineProofs!QueuedInShotOrder`: the invariant is over turns.  Turns are queued in the order they begin, each once
  (`TurnOrder`), so that what is to be shown is about any two turns: the later one handles a frame that comes after that of the earlier, or that
  is beyond its horizon, or that was kept (`Ordered`).  `OrderInv` adds what keeps this true: every image that is there is on the list, beyond
  the horizon of the last scan, kept, or in the receiver's hands (`ListingInv`), and those not kept come after every turn so far
  (`HandledInv`).
* `FramePipelineProofs!PixelsHaveOneOwner`: only turns in the history of the queue or handed over have pixels (`PixelsAccounted`), and each
  position of the history has its own, live exactly when it is still in the queue or is the turn main holds (`PixelsKept`); that
  the turns of the history are distinct makes a release hit one position only, also when two turns are of one frame.  It is stated
  for crops that succeed: with a failing crop the property is false (section 5).
* `FramePipelineMemoryProofs`: `DetectionsInv` says where the detections of a turn are for each place of the turn (`HeldTaken`: main's turn is one of
  those taken; `Carried`: the receiver's; `Fresh`: none before `TS_LPD_run`), which with `TurnOrder` gives `DetectionsOutliveFrames`
  and `RejectedMappingsOnly`; they hold whatever fails.  `CameraDirsAreSafe`: the frame for which the rotation removes an earlier directory has
  both its files written (`Written`), and the camera writes in path order, so that all it still has to write goes into that
  frame's directory or a later one.  `ResultsNotLost` is inductive with the types: `TS_LPR_run` makes `lpr_result` point to what it allocates.
* `NothingReleasedTwice` (same module): from the two owners above and `ResultReady`, what either thread passes to `delete[]`,
  `TS_LPR_release` or `TS_LPD_release` is live, and the two never pass the same pixels.  Each part is stated for as long as the call that
  allocates succeeds; without that it is false (section 5).
* The limits of the disagreements (same module).  `ImagesWhereCropsSucceed`: no other way to recognise a frame without its
  pixels.  `StuckForGood`: nothing wakes two threads in `pop()`.  `DropsLoseDetections` and `LateTensorsAreOrphans`: under the
  hypothesis that the queue is never found full, or that tensors are written first, `LeakInv` and `OrphanInv` are invariants.  `LeakInv`
  needs that the tensor file is there while detector and image are tried (`TensorThere`) and that no rejected turn has detections (`Fresh`);
  `OrphanInv` that the tensor of a frame that was queued is gone or was kept (`Gone`), or `Release` would break it.
* `FrameDeliveryProofs!PipelineDelivers`: every step of the pipeline is one of `FrameDelivery` or a stutter.  Beyond the invariants above the
  mapping needs that two turns are of two frames, unless the frame was kept (`OneTurn`), so that a step changes
  the fate of one frame only, and that main has not released the detections of the turn in the receiver's hands (`PastInv`).  `OutcomesAreFinal`
  follows from it: no step of `FrameDelivery` leaves `lost` or `recognised`, so no step of the pipeline does.  A frame goes from `pending` to
  `kept` when its image cannot be removed, and is counted neither as lost nor as recognised.
* `StartupProofs`: the invariant records which tests each step of `main()` has behind it (`ConfigChecked`,
  `ZoomChecked`, `Licensed`, `ModulesReady`, `NothingYet`).
* `CropGeometryProofs`, for every extent of the tensor and of the image, every magnification `Num / Den`, every integer offset and every `Round` within
  `RoundAssumption`: lemmas about integer division (cutting off is monotone; the parts of a sum cut off separately never exceed the sum cut
  off) with the rounding carried through them give all four properties.  Start and length of the crop are two products with an error each, which
  together stay below a pixel: that is why the crop leaves the image not even by one.
* `DataTransProofs`, for any number of sessions: `HeldIsLive` ties the pointers of the object to what is allocated at each step of the caller,
  so that each way out of `init()`, those for want of memory included, releases all there is (`NoSessionLeaks`);
  `OldRefreshersStopping` and `FailureIsReported` are inductive with it.  The latter holds because `client_.error` never
  becomes "ok" again within a session, whatever a refresher, also an old one, writes to it.
* `BuffersOutliveRefresher` (`DataTransProofs`): a refresher that was not told to stop is the one of the session that is up (`ThreadToCome` for the
  thread about to be created), whose buffers the object holds until `deinit()` (`BuffersHeld`).  `MutexHasAnOwner`: whoever takes
  the mutex is its `owner` and `Inside`, every way out gives it up, and what `mqtt_init` locks `mqtt_connect` gives up; only `DieSending` and dying in
  `recv()` leave it locked, and the owner then is the very thread that was cancelled there.
* `MqttClientProofs!NothingIsOverwritten`, for every size of buffer, header and messages: `Sound` says that each message begins where the one
  before it ends and that messages and headers do not meet; `Register` keeps it when there is `Room`, `Clean` always, and
  everything else leaves places and sizes alone.
* `FramingIsKept`, `AcksAreMatched` (`MqttClientProofs`): as long as nothing is late the queue has a shape, `Flow`: what was sent comes before
  what was not (`SentFirst`), `send_offset` is how much is out of the first message that was not sent, and of no other (`Begun`), and the
  answers still owed are those of the messages that await one, in their order (`Matches`).  From it follows that the next byte
  is the one the broker waits for, and that `mqtt_mq_find` finds the message that has waited the longest.
* `DeliveryIsInOrder`, `TypeCorrect` (`MqttClientProofs`): what was accepted and has not arrived is in the queue, unsent and in the order of the calls
  (`Pending`), whatever is late or fails; cleaning removes none of it.  `Deliver` lists the places of the messages due with
  `Ascending`, and `AscendingOnto` shows that the list leaves none out.  `AcceptedIsQueued` states the half of `Pending` that
  matters to a caller.
* `ClientDelivers` (`MqttClientProofs`): every step maps to `Accept`, `Deliver` or a stutter.  What `Deliver` adds is a run of consecutive
  messages (`DeliverStep`, `UpTo`, from `DeliveryIsInOrder`), and errors only get worse (`ErrorWorsens`), because
  `mqtt_publish` accepts nothing once there is one and `__mqtt_send` does nothing once it is not just a full buffer.

Assumptions: the named `ASSUME`s of the modules (finite sets of threads, at least one place in the
queue, directories ordered like frames, rounding errors below half a pixel, sizes of messages above 0, a send buffer that takes the first message).

Model-checked only: the liveness properties `EveryItemLeaves`, `QueuedPixelsFreed`, `HandledOrStuck`, `RefreshersEnd`, `SendReturns` and
`PublishesArrive`, because liveness under fairness is beyond the prover.  Every other property of a passing run is proved, and so are
the safety facts those rest on: a queued item has a woken consumer (`WakeupsSuffice`), queued pixels are live and owned
(`PixelsHaveOneOwner`), being stuck is final (`StuckForGood`), a locked mutex has a thread that will give it up (`MutexHasAnOwner`), and
an accepted message is in the queue, unsent (`AcceptedIsQueued`).

## 5. Where the code and its documentation disagree

1. Both threads can wait in `pop()` for ever (`type4_main.cpp:563-565`), run `pipeline_stuck`.
2. A tensor written after its image was given up stays for ever (`:448`), `pipeline_orphan`.
3. Dropping a frame loses its detections (`:566`), `pipeline_leak`.
4. A magnification of 0 is accepted (`type4_main.cpp:162`), although the message says that it must be above 0, `startup_magnify`.
5. `deinit()` frees the buffers and closes the socket under a refresher that is inside `mqtt_sync`
   (`data_trans.cpp:145`), `datatrans_use`.

Seen by reading or while modelling, without a run of their own:

* A failing crop is not noticed (`:542`): `output_image.image_data` has no value of its own then, and the frame is queued with it, recognised and
  deleted.  `PixelsOwned` excepts it, and `ImagesWhereCropsSucceed` says that it is the only way to recognise other pixels than the frame's.
* A file that cannot be removed is only logged (`utils.cpp:171`): its image is listed, detected and queued again by every later scan.  `ShotOrder`,
  `DeliversFrames` and `HandledOrStuck` say what holds of the other frames, and how such a frame waits in line.
* A vehicle at the right edge of the tensor is cropped beyond the image: 640 * 6.3375 is 4056, the image 4032 wide (`release_README.md:41`), and the
  code does not clip (`type4_main.cpp:522-532`).
* A failing `TS_LPR_run` is logged, and its unset (or stale) pointer released all the same (`type4_main.cpp:303-328`); the model
  releases a null pointer or, a second time, an earlier result; `ResultsReleased` says that nothing allocated is lost.
* Directories of which all frames were rejected, or that were not empty when the rotation came, stay (`:498-517`); `CameraKeepsDirs` says only that
  none is removed too early.
* Without the object `InputTensorToRawZoomInParam` no test is made and both magnifications stay 0 (`:141`).
* `TS_LPR_log` (`:171`) is called before `TS_LPR_add_license`, which is to come before any other interface
  (`ts_lpr_perception.h:13`).  The level of the log is not modelled; `LicenseFirst` covers the modules.
* Mappings of rejected tensors are never removed (`:458-475`; `MappingsOfRejectedOnly` says that no others leak), and a
  failing `TS_LPR_init` leaves the LPD module initialised (`:209-213`; `ExitReleasesModules` excepts it).
* The offset is added to left and top of a plate and not to right and bottom (`:595-604`): the ends of a plate may then be out
  of order by as much as the offset, and the vehicle box, to whose end it is added as well, does not end with the crop.
* A second `init()` initialises the same client again (`mqtt.h:1347`: "Only initialize an MQTT client once"); a refresher of the first
  session that was cancelled late can then die holding the new mutex, and everybody waits.  Threads are never joined, and
  `deinit()` reads `client_daemon_` even if no thread was ever created (`data_trans.cpp:147`).
* After an answer that took more than 30 seconds a message is sent again from its first byte, with `send_offset` set to 0 in the middle
  of another (`mqtt.c:545-554`): the bytes on the wire are then no messages.  The answer to the first copy completes the message,
  the answer to the second finds none and is `MQTT_ERROR_ACK_OF_UNKNOWN`.
* `MQTT_ERROR_SEND_BUFFER_IS_FULL` is never cleared without a reconnect, which `DataTrans` does not ask for: after it, what is queued is still sent
  (`PublishesArrive`) and nothing is accepted any more.
* `ReadFileByMMap` does not look at what `mmap` returns (`utils.cpp:59`); `tm_isdst` is never set (`:152`); `std::stoi` may throw
  on a file name (`type4_main.cpp:434`).

## 6. Not modelled

* Frame-rate statistics, timestamps and the derivation of names and sizes from paths: they feed the log and the recogniser, and no
  control depends on them.  `split_string` and `GetTimeStampFromUTC` (`utils.cpp`) therefore have no definition.
* Files that appear incomplete: the camera is assumed to make a file appear complete.  A `mmap` that fails (`utils.cpp:59`) is not an error for the code and
  not modelled; the other failures of `ReadFileByMMap` are.
* That a removal fails half-way or without a reason that lasts: each removal of each file is a choice of its own.
* Offsets that are not whole numbers.
* Detections of a frame after the first: `convertLPDResult` converts them as well, relative to their own vehicle, while the crop is
  that of the first.
* Of MQTT-C: QoS 1 and 2, subscriptions, reconnecting, packet ids and the encoding of packets; `DataTrans` uses none of the first
  four, and the encoding is data that no modelled step looks at.
* `set_device_id`, `set_model_id` and `fetch_current_time` of `DataTrans` serve code that is commented out.
* json11, b64 (vendored) and the debug drawing (`draw_helper.cpp`, whose calls are commented out).

## 7. What could come next

1. Leaving `Startup` for `FramePipeline`: one theorem that what `ReadyBeforeFrames` promises is what the first step of the receiver needs.
2. Names: `split_string`, the paths of image and tensor, and `GetTimeStampFromUTC` as functions.
3. QoS 1 and reconnecting, should `DataTrans` come to use them.
