------------------------- MODULE CropGeometryProofs -------------------------
(* Proofs about CropGeometry, for a tensor and an image of any extent, for *)
(* every magnification that is a fraction, and for any rounding errors     *)
(* within the bound.                                                       *)
EXTENDS CropGeometry, TLAPS

-----------------------------------------------------------------------------
(* Integer division.                                                       *)

LEMMA LessByFactor ==
    ASSUME NEW d \in Nat \ {0}, NEW u \in Int, NEW v \in Int, d * u < d * v
    PROVE  u < v
<1> SUFFICES ASSUME v <= u PROVE FALSE
  OBVIOUS
<1>1. d * (u - v) = d * u - d * v
  OBVIOUS
<1>2. d * (u - v) >= 0
  OBVIOUS
<1>3. QED
  BY <1>1, <1>2

LEMMA Quotient ==
    ASSUME NEW n \in Nat, NEW d \in Nat \ {0}
    PROVE  /\ n \div d \in Nat
           /\ d * (n \div d) <= n
           /\ n < d * ((n \div d) + 1)
OBVIOUS

LEMMA Distribute ==
    ASSUME NEW d \in Int, NEW u \in Int, NEW v \in Int
    PROVE  d * u \in Int /\ d * (u + v) = d * u + d * v /\ d * (-u) = -(d * u)
OBVIOUS

\* The pixel a position is cut off to.
LEMMA CutBetween ==
    ASSUME NEW n \in Int
    PROVE  /\ Cut(n) \in Int
           /\ n >= 0 => /\ Cut(n) >= 0
                        /\ Den * Cut(n) <= n /\ n < Den * (Cut(n) + 1)
           /\ n < 0 => /\ Cut(n) <= 0
                       /\ Den * (Cut(n) - 1) < n /\ n <= Den * Cut(n)
<1>1. CASE n >= 0
  <2>1. n \in Nat /\ Cut(n) = n \div Den
    BY <1>1 DEF Cut
  <2>2. QED
    BY <1>1, <2>1, MagnifyAssumption, Quotient
<1>2. CASE n < 0
  <2> DEFINE r == (-n) \div Den
  <2>1. -n \in Nat /\ Cut(n) = -r
    BY <1>2 DEF Cut
  <2>2. r \in Nat /\ Den * r <= -n /\ -n < Den * (r + 1)
    BY <2>1, MagnifyAssumption, Quotient
  <2> HIDE DEF r
  <2>3. Den * (-r) = -(Den * r) /\ Den * (-r - 1) = -(Den * (r + 1))
    BY <2>2, MagnifyAssumption
  <2>4. QED
    BY <1>2, <2>1, <2>2, <2>3, MagnifyAssumption
<1>3. QED
  BY <1>1, <1>2

\* What is known of a position bounds the pixel it is cut off to.
LEMMA CutAtLeast ==
    ASSUME NEW n \in Int, NEW k \in Int, Den * k <= n
    PROVE  k <= Cut(n)
<1>1. Cut(n) \in Int /\ n < Den * (Cut(n) + 1) /\ (n < 0 => n <= Den * Cut(n))
  <2>1. Den * (Cut(n) + 1) = Den * Cut(n) + Den
    BY CutBetween, MagnifyAssumption
  <2>2. Den * Cut(n) \in Int /\ Den > 0
    BY CutBetween, MagnifyAssumption
  <2>3. QED
    BY <2>1, <2>2, CutBetween, MagnifyAssumption
<1>2. Den * k \in Int /\ Den * (Cut(n) + 1) \in Int
  BY <1>1, MagnifyAssumption
<1>3. k < Cut(n) + 1
  BY <1>1, <1>2, LessByFactor, MagnifyAssumption
<1>4. QED
  BY <1>1, <1>3

LEMMA CutAtMost ==
    ASSUME NEW n \in Int, NEW k \in Int, n < Den * (k + 1)
    PROVE  /\ Cut(n) <= k + 1
           /\ k >= 0 => Cut(n) <= k
<1> DEFINE c == Cut(n)
<1>1. /\ c \in Int
      /\ n >= 0 => Den * c <= n
      /\ n < 0 => c <= 0 /\ Den * (c - 1) < n
  BY CutBetween
<1> HIDE DEF c
<1>2. Den * c \in Int /\ Den * (c - 1) \in Int /\ Den * (k + 1) \in Int
  BY <1>1, MagnifyAssumption
<1>3. n >= 0 => c < k + 1
  BY <1>1, <1>2, LessByFactor, MagnifyAssumption
<1>4. n < 0 => c - 1 < k + 1
  BY <1>1, <1>2, LessByFactor, MagnifyAssumption
<1>5. QED
  BY <1>1, <1>3, <1>4 DEF c

-----------------------------------------------------------------------------
(* Magnification.                                                          *)

LEMMA RoundBound ==
    ASSUME NEW a \in 0 .. Size, NEW b \in Shifts
    PROVE  /\ Round(a, b) \in Int /\ -Err <= Round(a, b) /\ Round(a, b) <= Err
           /\ b \in Int /\ Den * b \in Int /\ b * Den = Den * b
           /\ a * Num \in Nat /\ Magnify(a, b) \in Int
<1>1. b \in Int
  BY OffsetAssumption DEF Shifts
<1>2. Round(a, b) \in Int /\ -Err <= Round(a, b) /\ Round(a, b) <= Err
  BY RoundAssumption
<1>3. /\ a \in Nat /\ Num \in Nat /\ Den \in Nat
      /\ a * Num \in Nat /\ b * Den = Den * b /\ Den * b \in Int
  BY <1>1, SizeAssumption, MagnifyAssumption
<1>4. a * Num + b * Den + Round(a, b) \in Int
  BY <1>2, <1>3
<1>5. Magnify(a, b) \in Int
  BY <1>4, CutBetween DEF Magnify
<1>6. QED
  BY <1>1, <1>2, <1>3, <1>5

\* What is magnified has at least the size of the error.
LEMMA ErrorIsSmall ==
    ASSUME NEW a \in 0 .. Size, NEW b \in Shifts
    PROVE  a * Num + Round(a, b) >= 0
<1>1. CASE a = 0
  BY <1>1, RoundAssumption, MagnifyAssumption
<1>2. CASE a # 0
  <2>1. a \in Nat /\ a >= 1 /\ Num \in Nat
    BY <1>2, SizeAssumption, MagnifyAssumption
  <2>2. a * Num >= Num
    BY <2>1
  <2>3. QED
    BY <2>1, <2>2, RoundBound, RoundAssumption
<1>3. QED
  BY <1>1, <1>2

LEMMA ZeroShift == 0 \in Shifts /\ 0 * Den = 0
BY MagnifyAssumption DEF Shifts

LEMMA MagnifyNat ==
    ASSUME NEW a \in 0 .. Size
    PROVE  /\ Magnify(a, 0) \in Nat
           /\ Den * Magnify(a, 0) <= a * Num + Round(a, 0)
           /\ a * Num + Round(a, 0) < Den * (Magnify(a, 0) + 1)
<1> DEFINE n == a * Num + Round(a, 0)
<1>1. n \in Int /\ n >= 0 /\ Magnify(a, 0) = Cut(n)
  BY ZeroShift, RoundBound, ErrorIsSmall DEF Magnify
<1> HIDE DEF n
<1>2. QED
  <2>1. Cut(n) \in Nat /\ Den * Cut(n) <= n /\ n < Den * (Cut(n) + 1)
    BY <1>1, CutBetween
  <2>2. QED
    BY <1>1, <2>1 DEF n

LEMMA MagnifyOrder ==
    ASSUME NEW a \in 0 .. Size, NEW b \in 0 .. Size, a <= b
    PROVE  Magnify(a, 0) <= Magnify(b, 0)
<1>1. CASE a = b
  BY <1>1, MagnifyNat
<1>2. CASE a < b
  <2> DEFINE M == Magnify(a, 0)
             n == b * Num + Round(b, 0)
  <2>1. M \in Nat /\ Den * M <= a * Num + Round(a, 0)
    BY MagnifyNat
  <2>2. /\ n \in Int /\ Magnify(b, 0) = Cut(n)
        /\ Round(a, 0) <= Err /\ -Err <= Round(b, 0)
        /\ Round(a, 0) \in Int /\ Round(b, 0) \in Int
        /\ a * Num \in Nat /\ b * Num \in Nat
    BY ZeroShift, RoundBound DEF Magnify
  <2>3. b * Num >= a * Num + Num
    <3>1. b - a >= 1 /\ b - a \in Nat /\ a \in Nat /\ Num \in Nat
      BY <1>2, SizeAssumption, MagnifyAssumption
    <3>2. (b - a) * Num >= Num
      BY <3>1
    <3>3. b * Num = a * Num + (b - a) * Num
      BY <3>1
    <3>4. QED
      BY <2>2, <3>1, <3>2, <3>3
  <2>4. a * Num + Round(a, 0) <= n
    BY <2>2, <2>3, RoundAssumption, MagnifyAssumption
  <2> HIDE DEF M, n
  <2>5. Den * M \in Int
    BY <2>1, MagnifyAssumption
  <2>6. Den * M <= n
    BY <2>1, <2>2, <2>4, <2>5
  <2>7. M <= Cut(n)
    BY <2>1, <2>2, <2>6, CutAtLeast
  <2>8. QED
    BY <2>2, <2>7 DEF M
<1>3. QED
  BY <1>1, <1>2, SizeAssumption

\* Nothing is moved further left than the offset.
LEMMA MagnifyLeft ==
    ASSUME NEW a \in 0 .. Size, NEW b \in Shifts
    PROVE  b <= Magnify(a, b)
<1> DEFINE n == a * Num + b * Den + Round(a, b)
<1>1. /\ b \in Int /\ Den * b \in Int /\ n = (a * Num + Round(a, b)) + Den * b
      /\ n \in Int /\ Den * b <= n
  BY RoundBound, ErrorIsSmall
<1>2. Magnify(a, b) = Cut(n)
  BY DEF Magnify
<1> HIDE DEF n
<1>3. QED
  BY <1>1, <1>2, CutAtLeast

\* Adding b after the magnification moves the result by b, up to a pixel for
\* the rounding, and by one more when it is left of 0, where cutting off is to
\* the right.
LEMMA MagnifyShift ==
    ASSUME NEW a \in 0 .. Size, NEW b \in Shifts
    PROVE  /\ Magnify(a, 0) + b - RoundSlack <= Magnify(a, b)
           /\ Magnify(a, b) <= Magnify(a, 0) + b + RoundSlack + 1
           /\ Magnify(a, 0) + b >= 0 =>
                 Magnify(a, b) <= Magnify(a, 0) + b + RoundSlack
<1> DEFINE M == Magnify(a, 0)
           n == a * Num + b * Den + Round(a, b)
           d == Round(a, b) - Round(a, 0)
<1>1. /\ M \in Nat /\ Den * M <= a * Num + Round(a, 0)
      /\ a * Num + Round(a, 0) < Den * (M + 1)
  BY MagnifyNat
<1>2. /\ b \in Int /\ n \in Int /\ Den * b \in Int /\ a * Num \in Nat
      /\ Magnify(a, b) = Cut(n) /\ Round(a, 0) \in Int
      /\ n = (a * Num + Round(a, 0)) + Den * b + d
  BY RoundBound, ZeroShift DEF Magnify
<1>3. d \in Int /\ -(Den * RoundSlack) <= d /\ d <= Den * RoundSlack
  <2>1. /\ Round(a, b) \in Int /\ -Err <= Round(a, b) /\ Round(a, b) <= Err
        /\ Round(a, 0) \in Int /\ -Err <= Round(a, 0) /\ Round(a, 0) <= Err
    BY RoundBound, ZeroShift
  <2>2. Err = 0 => Den * RoundSlack = 0
    BY MagnifyAssumption DEF RoundSlack
  <2>3. Err # 0 => Den * RoundSlack = Den
    BY MagnifyAssumption DEF RoundSlack
  <2>4. QED
    BY <2>1, <2>2, <2>3, RoundAssumption, MagnifyAssumption
<1> HIDE DEF M, n, d
<1>4. RoundSlack \in Int
  BY DEF RoundSlack
<1>5. /\ Den * (M + b - RoundSlack) = Den * M + Den * b - Den * RoundSlack
      /\ Den * ((M + b + RoundSlack) + 1)
            = Den * (M + 1) + Den * b + Den * RoundSlack
      /\ Den * M \in Int /\ Den * (M + 1) \in Int /\ Den * RoundSlack \in Int
  BY <1>1, <1>2, <1>4, MagnifyAssumption
<1>6. Den * (M + b - RoundSlack) <= n
  BY <1>1, <1>2, <1>3, <1>5
<1>7. n < Den * ((M + b + RoundSlack) + 1)
  BY <1>1, <1>2, <1>3, <1>5
<1> DEFINE low == M + b - RoundSlack
           high == M + b + RoundSlack
<1>8. low \in Int /\ high \in Int
  BY <1>1, <1>2, <1>4
<1>9. Den * low <= n /\ n < Den * (high + 1)
  BY <1>6, <1>7
<1> HIDE DEF low, high
<1>10. low <= Cut(n) /\ Cut(n) <= high + 1 /\ (high >= 0 => Cut(n) <= high)
  BY <1>2, <1>8, <1>9, CutAtLeast, CutAtMost
<1>11. QED
  BY <1>1, <1>2, <1>4, <1>10 DEF M, low, high, RoundSlack

LEMMA EvenBelow ==
    ASSUME NEW n \in Nat
    PROVE  Even(n) \in Nat /\ Even(n) \in {n - 1, n} /\ Even(n) % 2 = 0
BY DEF Even

-----------------------------------------------------------------------------
(* The state is a function of the detection and of the steps taken.        *)

Width  == seen[1].hi - seen[1].lo
Within(x) == x - seen[1].lo

IInv ==
    /\ offset \in Offsets
    /\ seen \in Detections
    /\ step \in {"detected", "cropped", "converted"}
    /\ step # "converted" => vehicle = seen[1] /\ plate = seen[2]
    /\ crop = IF step = "detected"
                THEN [start |-> 0, length |-> 0]
                ELSE [start  |-> Magnify(seen[1].lo, offset),
                      length |-> Even(Magnify(Width, 0))]
    /\ step = "converted" =>
          /\ plate = [lo |-> Magnify(Within(seen[2].lo), offset),
                      hi |-> Magnify(Within(seen[2].hi), 0)]
          /\ vehicle = [lo |-> 0, hi |-> Magnify(Width, offset - 1)]

LEMMA IInvAlways == Spec => []IInv
<1>1. Init => IInv
  BY DEF Init, IInv
<1>2. IInv /\ [Next]_vars => IInv'
  <2> SUFFICES ASSUME IInv, [Next]_vars PROVE IInv'
    OBVIOUS
  <2>1. CASE Crop
    BY <2>1 DEF Crop, IInv, Width, Within
  <2>2. CASE Convert
    BY <2>2 DEF Convert, IInv, Width, Within
  <2>3. CASE UNCHANGED vars
    BY <2>3 DEF vars, IInv, Width, Within
  <2>4. QED
    BY <2>1, <2>2, <2>3 DEF Next
<1>3. QED
  BY <1>1, <1>2, PTL DEF Spec

\* The boxes the detector gives are inside each other and inside the tensor.
LEMMA DetectionShape ==
    ASSUME IInv
    PROVE  /\ seen[1].lo \in 0 .. Size /\ seen[1].hi \in 0 .. Size
           /\ Width \in 0 .. Size /\ seen[1].hi = seen[1].lo + Width
           /\ Within(seen[2].lo) \in 0 .. Size
           /\ Within(seen[2].hi) \in 0 .. Size
           /\ Within(seen[2].lo) <= Within(seen[2].hi)
           /\ Within(seen[2].hi) <= Width
           /\ seen[1] \in Box /\ seen[2] \in Box
<1>1. /\ seen \in Extents \X Extents
      /\ seen[1].lo <= seen[2].lo /\ seen[2].lo <= seen[2].hi
      /\ seen[2].hi <= seen[1].hi
  BY DEF IInv, Detections
<1>2. Ends \subseteq 0 .. Size /\ Size \in Nat
  BY SizeAssumption
<1>3. /\ seen[1] \in [lo : Ends, hi : Ends] /\ seen[2] \in [lo : Ends, hi : Ends]
  BY <1>1 DEF Extents
<1>4. /\ seen[1].lo \in 0 .. Size /\ seen[1].hi \in 0 .. Size
      /\ seen[2].lo \in 0 .. Size /\ seen[2].hi \in 0 .. Size
  BY <1>2, <1>3
<1>5. seen[1] \in Box /\ seen[2] \in Box
  <2>1. Ends \subseteq Int
    BY <1>2
  <2>2. QED
    BY <1>3, <2>1 DEF Box
<1>6. QED
  BY <1>1, <1>2, <1>4, <1>5 DEF Width, Within

LEMMA OffsetShape ==
    ASSUME IInv
    PROVE  /\ offset \in Shifts /\ offset - 1 \in Shifts /\ offset \in Int
           /\ (offset = 0 \/ offset < 0 \/ offset > 0)
BY OffsetAssumption DEF IInv, Shifts

LEMMA CropShape ==
    ASSUME IInv, step # "detected"
    PROVE  /\ crop.start = Magnify(seen[1].lo, offset)
           /\ crop.length \in Nat /\ Magnify(Width, 0) \in Nat
           /\ crop.length \in {Magnify(Width, 0) - 1, Magnify(Width, 0)}
           /\ crop.length % 2 = 0
<1>1. crop.start = Magnify(seen[1].lo, offset) /\ crop.length = Even(Magnify(Width, 0))
  BY DEF IInv
<1>2. Magnify(Width, 0) \in Nat
  BY DetectionShape, MagnifyNat
<1>3. QED
  BY <1>1, <1>2, EvenBelow

(***************************************************************************)
(* Type correctness: whatever the detector finds, crop and boxes are       *)
(* integers and the length of the crop is not negative.                    *)
(***************************************************************************)
THEOREM TypeCorrect == Spec => []TypeOK
<1>1. IInv => TypeOK
  <2> SUFFICES ASSUME IInv PROVE TypeOK
    OBVIOUS
  <2>1. Magnify(Width, 0) \in Nat /\ Even(Magnify(Width, 0)) \in Nat
    BY DetectionShape, MagnifyNat, EvenBelow
  <2>2. /\ Magnify(seen[1].lo, offset) \in Int
        /\ Magnify(Width, offset - 1) \in Int
        /\ Magnify(Within(seen[2].lo), offset) \in Int
        /\ Magnify(Within(seen[2].hi), 0) \in Int
    BY DetectionShape, OffsetShape, ZeroShift, RoundBound
  <2>3. crop \in [start : Int, length : Nat]
    BY <2>1, <2>2 DEF IInv
  <2>4. vehicle \in Box /\ plate \in Box
    BY <2>2, DetectionShape DEF IInv, Box
  <2>5. QED
    BY <2>3, <2>4 DEF IInv, TypeOK
<1>2. QED
  BY <1>1, IInvAlways, PTL

(***************************************************************************)
(* A vehicle that, magnified and moved by the offset, lies in the image    *)
(* gives a crop in the image, whatever the rounding errors, and no crop    *)
(* starts further left than the offset.                                    *)
(***************************************************************************)
THEOREM CropStaysInImage == Spec => []CropInImage
<1>1. IInv => CropInImage
  <2> SUFFICES ASSUME IInv, step # "detected"
               PROVE  /\ offset <= crop.start
                      /\ /\ 0 <= seen[1].lo * Num + offset * Den
                         /\ seen[1].hi * Num + offset * Den <= Image * Den
                         => 0 <= crop.start /\ crop.start + crop.length <= Image
    BY DEF CropInImage
  <2>1. offset <= crop.start
    BY CropShape, DetectionShape, OffsetShape, MagnifyLeft
  <2>2. ASSUME 0 <= seen[1].lo * Num + offset * Den,
               seen[1].hi * Num + offset * Den <= Image * Den
        PROVE  0 <= crop.start /\ crop.start + crop.length <= Image
    <3> DEFINE x == seen[1].lo * Num + offset * Den
               y == Width * Num
               e == Round(seen[1].lo, offset)
               g == Round(Width, 0)
               M == Magnify(Width, 0)
               c == Cut(x + e)
    <3>1. /\ x \in Int /\ y \in Nat /\ x >= 0 /\ x + y <= Image * Den
          /\ crop.start = c
      <4>1. seen[1].hi * Num = seen[1].lo * Num + Width * Num
        BY DetectionShape, MagnifyAssumption, SizeAssumption
      <4>2. seen[1].lo * Num \in Nat /\ offset * Den \in Int /\ y \in Nat
        BY DetectionShape, OffsetShape, RoundBound, ZeroShift
      <4>3. crop.start = c
        BY CropShape DEF Magnify
      <4>4. QED
        BY <2>2, <4>1, <4>2, <4>3
    <3>2. /\ e \in Int /\ -Err <= e /\ e <= Err
          /\ g \in Int /\ -Err <= g /\ g <= Err
      BY DetectionShape, OffsetShape, RoundBound, ZeroShift
    <3>3. /\ M \in Nat /\ Den * M <= y + g /\ crop.length \in Int
          /\ crop.length <= M
      BY DetectionShape, MagnifyNat, CropShape
    <3> HIDE DEF x, y, e, g, M
    <3>4. /\ c \in Int /\ (x + e >= 0 => c >= 0 /\ Den * c <= x + e)
          /\ (x + e < 0 => c <= 0 /\ x + e <= Den * c)
      BY <3>1, <3>2, CutBetween
    <3> HIDE DEF c
    <3>5. /\ Den \in Nat \ {0} /\ Image \in Nat /\ Image * Den = Den * Image
          /\ Den * c \in Int /\ Den * M \in Int /\ Den * Image \in Int
          /\ Den * (-1) = -Den /\ Den * (Image + 1) = Den * Image + Den
      BY <3>3, <3>4, MagnifyAssumption, SizeAssumption
    <3>6. c >= 0
      <4>1. x + e < 0 => Den * (-1) < Den * c
        BY <3>1, <3>2, <3>4, <3>5, RoundAssumption
      <4>2. x + e < 0 => -1 < c
        BY <3>4, <3>5, <4>1, LessByFactor
      <4>3. QED
        BY <3>1, <3>2, <3>4, <4>2
    <3>7. c + M <= Image
      <4>1. CASE x + e >= 0
        <5>1. Den * (c + M) = Den * c + Den * M
          BY <3>3, <3>4, <3>5
        <5>2. Den * (c + M) < Den * (Image + 1)
          BY <3>1, <3>2, <3>3, <3>4, <3>5, <4>1, <5>1, RoundAssumption
        <5>3. c + M < Image + 1
          BY <3>3, <3>4, <3>5, <5>2, LessByFactor
        <5>4. QED
          BY <3>3, <3>4, <3>5, <5>3
      <4>2. CASE x + e < 0
        <5>1. c = 0
          BY <3>4, <3>6, <4>2
        <5>2. Den * M < Den * (Image + 1)
          BY <3>1, <3>2, <3>3, <3>5, RoundAssumption
        <5>3. M < Image + 1
          BY <3>3, <3>5, <5>2, LessByFactor
        <5>4. QED
          BY <3>3, <3>5, <5>1, <5>3
      <4>3. QED
        BY <3>1, <3>2, <4>1, <4>2
    <3>8. QED
      BY <3>1, <3>3, <3>4, <3>5, <3>6, <3>7
  <2>3. QED
    BY <2>1, <2>2
<1>2. QED
  BY <1>1, IInvAlways, PTL

(***************************************************************************)
(* The rewritten plate has its ends in order, as far as the offset lets    *)
(* it, and sticks out of the crop to the right by one pixel at most.       *)
(***************************************************************************)
THEOREM PlateStaysInCrop == Spec => []PlateInCrop
<1>1. IInv => PlateInCrop
  <2> SUFFICES ASSUME IInv, step = "converted"
               PROVE  /\ offset <= plate.lo
                      /\ plate.lo <= plate.hi + offset + ShiftSlack
                      /\ 0 <= plate.hi /\ plate.hi <= crop.length + 1
    BY DEF PlateInCrop
  <2> DEFINE a == Within(seen[2].lo)
             b == Within(seen[2].hi)
             w == Width
  <2>1. plate.lo = Magnify(a, offset) /\ plate.hi = Magnify(b, 0)
    BY DEF IInv
  <2>2. /\ a \in 0 .. Size /\ b \in 0 .. Size /\ w \in 0 .. Size
        /\ a <= b /\ b <= w
    BY DetectionShape
  <2>3. crop.length \in {Magnify(w, 0) - 1, Magnify(w, 0)}
    BY CropShape
  <2> HIDE DEF a, b, w
  <2>4. /\ Magnify(a, 0) \in Nat /\ Magnify(b, 0) \in Nat
        /\ Magnify(w, 0) \in Nat
        /\ Magnify(a, 0) <= Magnify(b, 0) /\ Magnify(b, 0) <= Magnify(w, 0)
    BY <2>2, MagnifyNat, MagnifyOrder
  <2>5. offset <= Magnify(a, offset) /\ Magnify(a, offset) \in Int
    BY <2>2, OffsetShape, MagnifyLeft, RoundBound
  <2>6. Magnify(a, offset) <= Magnify(a, 0) + offset + ShiftSlack
    <3>1. CASE offset = 0
      BY <2>4, <3>1 DEF ShiftSlack
    <3>2. CASE offset # 0
      <4>1. Magnify(a, offset) <= Magnify(a, 0) + offset + RoundSlack + CutSlack
        <5>1. /\ Magnify(a, offset) <= Magnify(a, 0) + offset + RoundSlack + 1
              /\ Magnify(a, 0) + offset >= 0 =>
                    Magnify(a, offset) <= Magnify(a, 0) + offset + RoundSlack
          BY <2>2, OffsetShape, MagnifyShift
        <5>2. RoundSlack \in Int /\ offset \in Int
          BY OffsetShape DEF RoundSlack
        <5>3. QED
          BY <2>4, <2>5, <5>1, <5>2 DEF CutSlack
      <4>2. RoundSlack \in Int /\ CutSlack \in Int /\ ShiftSlack = CutSlack + RoundSlack
        BY <3>2 DEF RoundSlack, CutSlack, ShiftSlack
      <4>3. QED
        BY <2>4, <2>5, <4>1, <4>2, OffsetShape
    <3>3. QED
      BY <3>1, <3>2
  <2>7. ShiftSlack \in Int
    BY DEF ShiftSlack, CutSlack, RoundSlack
  <2>8. QED
    BY <2>1, <2>3, <2>4, <2>5, <2>6, <2>7, OffsetShape
<1>2. QED
  BY <1>1, IInvAlways, PTL

(***************************************************************************)
(* The rewritten vehicle box covers a crop that is not empty, moved by the *)
(* offset, up to the pixel lost by making its length even and rounding.    *)
(***************************************************************************)
THEOREM VehicleIsCrop == Spec => []VehicleCoversCrop
<1>1. IInv => VehicleCoversCrop
  <2> SUFFICES ASSUME IInv, step = "converted", crop.length > 0
               PROVE  /\ vehicle.lo = 0
                      /\ vehicle.hi - offset
                           \in crop.length - 1 - RoundSlack
                                .. crop.length + CutSlack + RoundSlack
    BY DEF VehicleCoversCrop
  <2>1. vehicle.lo = 0 /\ vehicle.hi = Magnify(Width, offset - 1)
    BY DEF IInv
  <2>2. /\ Magnify(Width, 0) \in Nat /\ Width \in 0 .. Size
        /\ crop.length \in {Magnify(Width, 0) - 1, Magnify(Width, 0)}
    BY DetectionShape, CropShape
  <2>3. offset \in Int /\ offset - 1 \in Shifts
    BY OffsetShape
  <2>4. /\ Magnify(Width, 0) + (offset - 1) - RoundSlack
               <= Magnify(Width, offset - 1)
        /\ Magnify(Width, offset - 1)
               <= Magnify(Width, 0) + (offset - 1) + RoundSlack + 1
        /\ Magnify(Width, 0) + (offset - 1) >= 0 =>
              Magnify(Width, offset - 1)
                 <= Magnify(Width, 0) + (offset - 1) + RoundSlack
        /\ Magnify(Width, offset - 1) \in Int
    BY <2>2, <2>3, MagnifyShift, RoundBound
  <2> DEFINE M == Magnify(Width, 0)
             v == Magnify(Width, offset - 1)
  <2>5. RoundSlack \in Int /\ M \in Nat /\ v \in Int /\ vehicle.hi = v
    BY <2>1, <2>2, <2>4 DEF RoundSlack
  <2> HIDE DEF M, v
  <2>6. /\ M + (offset - 1) - RoundSlack <= v
        /\ v <= M + (offset - 1) + RoundSlack + 1
        /\ M + (offset - 1) >= 0 => v <= M + (offset - 1) + RoundSlack
        /\ crop.length \in {M - 1, M}
    BY <2>2, <2>4 DEF M, v
  <2>7. QED
    BY <2>1, <2>3, <2>5, <2>6 DEF CutSlack
<1>2. QED
  BY <1>1, IInvAlways, PTL
=============================================================================
