--------------------------- MODULE FrameDelivery ---------------------------
(***************************************************************************)
(* What the program promises for a frame the camera shoots, with no files, *)
(* threads or memory in sight: each frame is recognised once or lost, and  *)
(* stays what it has become; frames wait in one bounded line, are          *)
(* recognised one at a time in the order of the line, and only the oldest  *)
(* of the line is dropped, in favour of another one.  The promise ends for *)
(* a frame that is kept, because its file cannot be removed: it may wait   *)
(* in the line several times.  FramePipeline implements this specification *)
(* (see there).                                                            *)
(***************************************************************************)
EXTENDS Naturals, Sequences

CONSTANTS
    Frames,             \* numbered in the order they are shot
    QueueMax            \* the most frames that wait at a time

VARIABLES
    fate,               \* what has become of each frame
    line                \* the frames that wait, oldest first

dvars == <<fate, line>>

Fates == {"not_shot", "pending", "kept", "lost", "queued", "recognising",
          "recognised"}

Become(f, from, to) ==
    /\ fate[f] = from
    /\ fate' = [fate EXCEPT ![f] = to]

\* The fate of a kept frame does not change any more.
Stays(f) == fate[f] = "kept" /\ UNCHANGED fate

Init ==
    /\ fate = [f \in Frames |-> "not_shot"]
    /\ line = << >>

Shoot(f) ==
    /\ \A g \in Frames : g < f => fate[g] # "not_shot"
    /\ Become(f, "not_shot", "pending")
    /\ UNCHANGED line

GiveUp(f) ==
    /\ Become(f, "pending", "lost")
    /\ UNCHANGED line

Keep(f) ==
    /\ Become(f, "pending", "kept")
    /\ UNCHANGED line

Accept(f) ==
    /\ Len(line) < QueueMax
    /\ Become(f, "pending", "queued") \/ Stays(f)
    /\ line' = Append(line, f)

Leave == line # << >> /\ line' = Tail(line)

Drop ==
    /\ Leave
    /\ Become(Head(line), "queued", "lost") \/ Stays(Head(line))
    /\ \E f \in Frames : fate[f] \in {"pending", "kept"}

Start ==
    /\ Leave
    /\ Become(Head(line), "queued", "recognising") \/ Stays(Head(line))
    /\ \A f \in Frames : fate[f] # "recognising"

Finish(f) ==
    /\ Become(f, "recognising", "recognised")
    /\ UNCHANGED line

Next ==
    \/ \E f \in Frames :
          Shoot(f) \/ GiveUp(f) \/ Keep(f) \/ Accept(f) \/ Finish(f)
    \/ Drop
    \/ Start

Spec == Init /\ [][Next]_dvars
=============================================================================
