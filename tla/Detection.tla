------------------------------- MODULE Detection -------------------------------
(***************************************************************************)
(* The numbers of src/processors/deal_with_it.py and of the sizes in       *)
(* src/derivatives.py: the picture the detector sees, what its answers are *)
(* on the picture that was submitted, and where the glasses go.  Scores    *)
(* are in hundredths, and what YuNet and dlib report is in thousandths of  *)
(* the picture they look at.  Faces are upright and frontal: the rotation  *)
(* and the lean are left out, and so is the vertical side of a box, which  *)
(* is treated like the horizontal one.                                     *)
(***************************************************************************)
EXTENDS Integers

CONSTANT MaxDetectionSize \* settings.max_detection_size

ASSUME DetectionAssumption == MaxDetectionSize \in Nat

ScoreThreshold == 65
FallbackThreshold == 80
AnimationSize == 640 \* derivatives.ANIMATION

Larger(a, b) == IF a >= b THEN a ELSE b
Smaller(a, b) == IF a <= b THEN a ELSE b

\* Python's round of a / b: halves go to the even neighbour.
RoundDiv(a, b) ==
  LET q == a \div b
      r == a % b
  IN  IF 2 * r < b \/ (2 * r = b /\ q % 2 = 0) THEN q ELSE q + 1

Longest(size) == Larger(size.w, size.h)

\* Both sides of a picture that is shrunk until the longer one is `longest`.
Shrunk(size, longest) ==
  [w |-> Larger(1, RoundDiv(size.w * longest, Longest(size))),
   h |-> Larger(1, RoundDiv(size.h * longest, Longest(size)))]

\* _fit: never upscales.
Fit(size, longest) == IF Longest(size) <= longest THEN size ELSE Shrunk(size, longest)

\* A factor, in lowest terms.
Gcd[p \in Nat \X Nat] == IF p[2] = 0 THEN p[1] ELSE Gcd[<<p[2], p[1] % p[2]>>]
Ratio(a, b) == [num |-> a \div Gcd[<<a, b>>], den |-> b \div Gcd[<<a, b>>]]

\* _detection_input: the size of what the detector sees...
Shrinks(size) == MaxDetectionSize # 0 /\ Longest(size) > MaxDetectionSize
DetectionSize(size) == IF Shrinks(size) THEN Shrunk(size, MaxDetectionSize) ELSE size

\* ...and the factor that undoes it.
Factor(size) ==
  IF Shrinks(size) THEN Ratio(Longest(size), MaxDetectionSize) ELSE Ratio(1, 1)

\* find_faces: a box on a picture of this width, cut at its edges.
FoundBox(c, width) ==
  [left |-> Larger(RoundDiv(c.left * width, 1000), 0),
   right |-> Smaller(RoundDiv(c.right * width, 1000), width)]

\* Face.scaled.
ScaledBox(box, factor) ==
  [left |-> RoundDiv(box.left * factor.num, factor.den),
   right |-> RoundDiv(box.right * factor.num, factor.den)]

Half == Ratio(1, 2)

\* detect: the box a pass finds, in the coordinates of what the detector was
\* given.  The second pass looks at the picture doubled.
PassBox(c, pass, width) ==
  IF pass = "upscaled" THEN ScaledBox(FoundBox(c, 2 * width), Half) ELSE FoundBox(c, width)

\* Mutant of BoxOf: the box stays where the detector saw it.
BoxAsSeen(c, pass, size) == PassBox(c, pass, DetectionSize(size).w)

\* call: `face.scaled(upscale)`, the box of a face that a pass found.
BoxOf(c, pass, size) == ScaledBox(PassBox(c, pass, DetectionSize(size).w), Factor(size))

\* Which answers a pass keeps.
SureEnough(c, pass) == c.score >= IF pass = "plain" THEN ScoreThreshold ELSE FallbackThreshold

\* landmarks_for: dlib answers in whole pixels of what the detector was given.
Landmarks(c, size) ==
  LET seen == DetectionSize(size) IN
    [left |-> RoundDiv(c.eyes[1] * seen.w, 1000),
     right |-> RoundDiv(c.eyes[2] * seen.w, 1000),
     line |-> RoundDiv(c.line * seen.h, 1000)]

\* The factor of landmarks_for(...).scaled(upscale).
LandmarkFactor(size) == Factor(size)

\* place, for landmarks times a factor: the width of the glasses, their height
\* (the artwork is 3000 by 487) and the pixel their top left corner goes on.
Place(m, factor) ==
  LET span  == Larger((m.right - m.left) * factor.num, factor.den)
      width == Larger(16, RoundDiv(47 * span, 20 * factor.den))
      high  == Larger(1, RoundDiv(487 * width, 3000))
  IN  [w |-> width, h |-> high,
       x |-> RoundDiv(m.left * factor.num, factor.den) - (width * 415) \div 1024,
       y |-> RoundDiv(m.line * factor.num, factor.den) - high \div 2]

\* Mutant of GifScale: as if every picture were shrunk for the animation.
GifScaleAlways(size) == Ratio(AnimationSize, Longest(size))

\* write_animation: `base.width / image.width`.
GifScale(size) == Ratio(Fit(size, AnimationSize).w, size.w)

\* Where the glasses of a face go on the finished picture, and on the GIF.
OnPicture(c, size) == Place(Landmarks(c, size), LandmarkFactor(size))
OnGif(c, size) ==
  Place(Landmarks(c, size), Ratio(LandmarkFactor(size).num * GifScale(size).num,
                                  LandmarkFactor(size).den * GifScale(size).den))
=============================================================================
