----------------------------- MODULE Choreography -----------------------------
(***************************************************************************)
(* src/animation.py: the frames of the GIF.  A sprite is a pair of glasses *)
(* with the place it ends on, as Detection has it.                         *)
(***************************************************************************)
EXTENDS Detection, Sequences

FallSteps == 12
SpreadSteps == 5
FallMargin == 8
CaptionFrames == 3 \* Len(CAPTION_POP)

\* render: `sprites.sort(key=lambda sprite: sprite[1])`.
Arrange(s) == \A i, j \in DOMAIN s : i < j => s[i].x <= s[j].x

Spread(s) == IF Len(s) > 1 THEN SpreadSteps ELSE 0

\* The step at which the i-th pair starts to fall.
StartStep(s, i) == RoundDiv(Spread(s) * (i - 1), Larger(Len(s) - 1, 1))

\* How far the i-th pair has come, in twelfths.
Fallen(s, i, step) == Larger(Smaller(step - StartStep(s, i), FallSteps), 0)

\* How many pixels above its place it is drawn.
Drop(s, i, step) ==
  RoundDiv((FallSteps * FallSteps - Fallen(s, i, step) * Fallen(s, i, step))
             * (s[i].y + s[i].h + FallMargin), FallSteps * FallSteps)

\* Mutant of LastFall: the stagger is forgotten.
LastFallEarly(s) == FallSteps

\* The frame on which the fall ends; the caption follows.
LastFall(s) == FallSteps + Spread(s)
LastFrame(s) == LastFall(s) + CaptionFrames

\* What a caption frame shows is the last frame of the fall.
Shown(s, frame) == Smaller(frame, LastFall(s))
=============================================================================
