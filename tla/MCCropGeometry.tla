--------------------------- MODULE MCCropGeometry ---------------------------
(* Instance of CropGeometry for TLC: the width, with the magnification of  *)
(* config.json, 6.3375, a VGA tensor and an image of 4032 pixels.          *)
EXTENDS CropGeometry

Numerator   == 25350
Denominator == 4000

\* Where products are whole (at multiples of 80) and next to it, at both ends
\* of the tensor, and where the vehicle leaves the image (from 636 to 637).
EndsNearTheEdges == {0, 1, 2, 79, 80, 81, 319, 320, 321, 559, 560,
                     635, 636, 637, 639, 640}

\* No offset, as in config.json, one to the left and one to the right.
NoneLeftRight == {0, -12, 1}

\* Every error within the bound occurs, in turn.  The code's own floats are off
\* by 1.6 / Den at most, for this magnification and whole offsets.
SomeError(a, b) == IF a = 0 THEN 0 ELSE ((a + 3 * b) % (2 * Err + 1)) - Err
=============================================================================
