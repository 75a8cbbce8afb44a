-------------------------- MODULE MCFramePipeline --------------------------
(* Instances of FramePipeline for TLC.                                     *)
EXTENDS FramePipeline

\* The first two frames in one directory, the others in the next one, as when
\* the camera application starts a new minute.
TwoDirs == [f \in Frames |-> IF f <= 2 THEN 1 ELSE 2]

NoFaults      == {}
AllButCrops   == FaultKinds \ {"crop"}
AllButResults == FaultKinds \ {"lpr"}
=============================================================================
