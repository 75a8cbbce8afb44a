---------------------------- MODULE CropGeometry ----------------------------
(***************************************************************************)
(* The integer geometry of one detection in ReceiveDataFromFile and        *)
(* convertLPDResult (src/type4_main.cpp): the vehicle box of the detector, *)
(* in tensor coordinates, is turned into the rectangle cropped from the    *)
(* image, and then vehicle and plate box are rewritten, in place, relative *)
(* to that rectangle.  x and y are treated alike, so one axis is modelled: *)
(* lo stands for left and top, hi for right and bottom.                    *)
(*                                                                         *)
(* The magnification is the rational Num / Den.  The code multiplies and   *)
(* adds floats: Round says by how much, in units of 1 / Den, the float it  *)
(* gets is off.  A float assigned to an int is cut off towards zero.       *)
(***************************************************************************)
EXTENDS Integers

CONSTANTS
    Size,               \* extent of the tensor
    Image,              \* extent of the image: its width or its height
    Num, Den,           \* magnify = Num / Den
    Offsets,            \* the values x_offset or y_offset is configured to
    Round(_, _),        \* (float)(a * magnify + b) - (a * magnify + b)
    Err,                \* bound of Round
    Ends                \* bound of the model: where boxes may begin and end

Shifts == {0} \cup Offsets \cup {b - 1 : b \in Offsets}

ASSUME SizeAssumption == Size \in Nat /\ Image \in Nat /\ Ends \subseteq 0 .. Size
ASSUME MagnifyAssumption == Num \in Nat /\ Den \in Nat \ {0}
ASSUME OffsetAssumption == Offsets \subseteq Int
\* The error is less than half a pixel and half a step of the magnification,
\* and there is none when 0 is magnified.
ASSUME RoundAssumption ==
    /\ Err \in Nat /\ 2 * Err < Den /\ 2 * Err <= Num
    /\ \A a \in 0 .. Size, b \in Shifts : Round(a, b) \in -Err .. Err
    /\ \A b \in Shifts : Round(0, b) = 0

VARIABLES
    offset,             \* x_offset, y_offset, as main() has read it
    step,               \* "detected", "cropped", "converted"
    vehicle, plate,     \* the boxes, rewritten in place
    crop,               \* crop_x and crop_width
    seen                \* history: the boxes as the detector gave them

vars == <<offset, step, vehicle, plate, crop, seen>>

Box == [lo : Int, hi : Int]

\* The operators named Faulty... are slips the properties below must catch;
\* no action uses them.
FaultyMagnifyUp(a, b) == (a * Num + b * Den + Den - 1) \div Den

\* (int)(a * magnify + b): conversion to int cuts the fraction off.
Cut(n) == IF n >= 0 THEN n \div Den ELSE -((-n) \div Den)
Magnify(a, b) == Cut(a * Num + b * Den + Round(a, b))

\* What the detector returns: a plate inside a vehicle.
Extents == [lo : Ends, hi : Ends]
Detections ==
    {d \in Extents \X Extents :
        /\ d[1].lo <= d[2].lo
        /\ d[2].lo <= d[2].hi
        /\ d[2].hi <= d[1].hi}

TypeOK ==
    /\ offset \in Offsets
    /\ step \in {"detected", "cropped", "converted"}
    /\ vehicle \in Box /\ plate \in Box
    /\ crop \in [start : Int, length : Nat]

Init ==
    /\ offset \in Offsets
    /\ step = "detected"
    /\ seen \in Detections
    /\ vehicle = seen[1]
    /\ plate = seen[2]
    /\ crop = [start |-> 0, length |-> 0]

-----------------------------------------------------------------------------
\* NV12 stores the colour of two by two pixels.
Even(n) == (n \div 2) * 2

FaultyCropSwapped ==
    /\ step = "detected"
    /\ crop' = [start  |-> Magnify(vehicle.lo, offset),
                length |-> Even(Magnify(vehicle.lo - vehicle.hi, 0))]
    /\ step' = "cropped"
    /\ UNCHANGED <<offset, vehicle, plate, seen>>

Crop ==
    /\ step = "detected"
    /\ crop' = [start  |-> Magnify(vehicle.lo, offset),
                length |-> Even(Magnify(vehicle.hi - vehicle.lo, 0))]
    /\ step' = "cropped"
    /\ UNCHANGED <<offset, vehicle, plate, seen>>

FaultyConvertVehicleFirst ==
    /\ step = "cropped"
    /\ vehicle' = [lo |-> 0,
                   hi |-> Magnify(vehicle.hi - vehicle.lo, offset - 1)]
    /\ plate' = [lo |-> Magnify(plate.lo - vehicle'.lo, offset),
                 hi |-> Magnify(plate.hi - vehicle'.lo, 0)]
    /\ step' = "converted"
    /\ UNCHANGED <<offset, crop, seen>>

FaultyConvertInclusive ==
    /\ step = "cropped"
    /\ plate' = [lo |-> Magnify(plate.lo - vehicle.lo, offset),
                 hi |-> Magnify(plate.hi - vehicle.lo, 0)]
    /\ vehicle' = [lo |-> 0,
                   hi |-> Magnify(vehicle.hi - vehicle.lo, offset + 1)]
    /\ step' = "converted"
    /\ UNCHANGED <<offset, crop, seen>>

\* convertLPDResult: the plate first, while the vehicle box is still the
\* detector's; the offset goes into three of the four sums.
Convert ==
    /\ step = "cropped"
    /\ plate' = [lo |-> Magnify(plate.lo - vehicle.lo, offset),
                 hi |-> Magnify(plate.hi - vehicle.lo, 0)]
    /\ vehicle' = [lo |-> 0,
                   hi |-> Magnify(vehicle.hi - vehicle.lo, offset - 1)]
    /\ step' = "converted"
    /\ UNCHANGED <<offset, crop, seen>>

Next == Crop \/ Convert

Spec == Init /\ [][Next]_vars

-----------------------------------------------------------------------------
\* The pixels by which cutting off towards 0, which is to the right there,
\* and rounding may move an end; without an offset neither does.
CutSlack   == IF offset < 0 THEN 1 ELSE 0
RoundSlack == IF Err = 0 THEN 0 ELSE 1
ShiftSlack == IF offset = 0 THEN 0 ELSE CutSlack + RoundSlack

(***************************************************************************)
(* If the vehicle, magnified and moved by the offset, lies in the image,   *)
(* so does the crop: start and length are rounded and cut off separately,  *)
(* and still neither the start nor their sum leaves the image, not even by *)
(* a pixel.  And no crop starts further left than the offset.              *)
(***************************************************************************)
CropInImage ==
    step # "detected" =>
        /\ offset <= crop.start
        /\ /\ 0 <= seen[1].lo * Num + offset * Den
           /\ seen[1].hi * Num + offset * Den <= Image * Den
           => 0 <= crop.start /\ crop.start + crop.length <= Image

(***************************************************************************)
(* The rewritten plate still is a plate of the crop, as far as the offset  *)
(* lets it be one, which only its start is moved by: without an offset its *)
(* ends are in order, with one they may be out of order by no more than    *)
(* that, up to rounding.  It sticks out of the crop to the right by one    *)
(* pixel at most (the pixel that making the crop even may take away).      *)
(***************************************************************************)
PlateInCrop ==
    step = "converted" =>
        /\ offset <= plate.lo /\ plate.lo <= plate.hi + offset + ShiftSlack
        /\ 0 <= plate.hi /\ plate.hi <= crop.length + 1

(***************************************************************************)
(* The rewritten vehicle box begins with the crop and ends with it, moved  *)
(* by the offset and up to rounding; its last index exceeds the crop by    *)
(* one more when the crop was shortened to be even.                        *)
(***************************************************************************)
VehicleCoversCrop ==
    step = "converted" /\ crop.length > 0 =>
        /\ vehicle.lo = 0
        /\ vehicle.hi - offset \in crop.length - 1 - RoundSlack
                                      .. crop.length + CutSlack + RoundSlack
=============================================================================
