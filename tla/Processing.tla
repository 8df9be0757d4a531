------------------------------- MODULE Processing -------------------------------
(***************************************************************************)
(* process_image of src/tasks.py, whole: the picture is loaded, its        *)
(* thumbnail written, the faces found in up to three passes while a second *)
(* thread writes the Before half, the glasses drawn, the files written,    *)
(* the GIF made frame by frame, and meta.json last.  Any write may fail.   *)
(***************************************************************************)
EXTENDS Loading, Choreography

CONSTANTS
  Sizes,      \* what pictures measure, at most max_image_pixels
  Candidates, \* what the detector may report in a pass, at any score it gives
  MaxFaces    \* bound: faces in a picture

ASSUME ProcessingAssumption ==
  /\ Sizes \subseteq [w : Nat \ {0}, h : Nat \ {0}]
  /\ IsFiniteSet(Candidates) /\ MaxFaces \in Nat

VARIABLES
  size,    \* of the picture
  jpeg,    \* whether it came as a JPEG
  pass,    \* which look the detector has; `detection` in the end
  faces,   \* what it found: DealWithItProcessor.faces
  before,  \* the second thread: "none", "pending", "done" or "broken"
  stored,  \* files of the job in the store
  listed,  \* files the result names, in `images` or in `downloads`
  sprites, \* the glasses on the GIF
  frame    \* which frame of it is drawn

workVars == <<size, jpeg, pass, faces, before, stored, listed, sprites, frame>>
procVars == <<at, target, pins, hops, clock, kept, dialled, dripped,
              size, jpeg, pass, faces, before, stored, listed, sprites, frame>>
fetched == <<target, pins, hops, clock, kept, dialled, dripped>>

NoSize == [w |-> 0, h |-> 0]
Over == {"done", "refused", "raised"}
Stages == {"start", "resolve", "dial", "read", "decode", "thumb", "look", "nofaces", "draw",
           "unwind", "join", "result", "animate", "frames", "meta"} \cup Over

InitProcessing ==
  /\ InitLoading
  /\ size = NoSize /\ jpeg = FALSE
  /\ pass = "plain" /\ faces = {}
  /\ before = "none" /\ stored = {} /\ listed = {}
  /\ sprites = <<>> /\ frame = 0

\* images.load, and the size and the format of what it returns.
LoadImage ==
  /\ Load
  /\ IF at' = "thumb" THEN size' \in Sizes /\ jpeg' \in BOOLEAN ELSE UNCHANGED <<size, jpeg>>
  /\ UNCHANGED <<pass, faces, before, stored, listed, sprites, frame>>

\* One put: the file is there and the task goes on, or it raises.
Put(n, next) ==
  \/ stored' = stored \cup {n} /\ at' = next
  \/ UNCHANGED stored /\ Raise

WriteThumb ==
  /\ at = "thumb"
  /\ Put("thumb", "look")
  /\ before' = IF at' = "look" THEN "pending" ELSE before
  /\ UNCHANGED <<fetched, size, jpeg, pass, faces, listed, sprites, frame>>

\* The second thread.
WriteBefore ==
  /\ before = "pending"
  /\ \/ before' = "done" /\ stored' = stored \cup {"before"}
     \/ before' = "broken" /\ UNCHANGED stored
  /\ UNCHANGED <<at, fetched, size, jpeg, pass, faces, listed, sprites, frame>>

NextPass == [plain |-> "upscaled", upscaled |-> "equalised", equalised |-> "plain"]

\* detect, one pass: its faces, or another look if it has none.  After the
\* last there are none.
Look ==
  /\ at = "look"
  /\ \E reported \in SUBSET Candidates :
       LET found == {c \in reported : SureEnough(c, pass)} IN
         /\ Cardinality(found) <= MaxFaces
         /\ faces' = found
         /\ IF found # {}
              THEN at' = "draw" /\ UNCHANGED pass
              ELSE /\ pass' = NextPass[pass]
                   /\ at' = IF pass = "equalised" THEN "nofaces" ELSE "look"
  /\ UNCHANGED <<fetched, size, jpeg, before, stored, listed, sprites, frame>>

\* Mutant of NoFaces: the refusal does not wait for the second thread.
NoFacesAtOnce ==
  /\ at = "nofaces"
  /\ Refuse
  /\ UNCHANGED <<fetched, size, jpeg, pass, faces, before, stored, listed, sprites, frame>>

\* call raised: `before.result()` comes first, and a write that failed is
\* raised in place of the refusal.
NoFaces ==
  /\ at = "nofaces" /\ before # "pending"
  /\ IF before = "broken" THEN Raise ELSE Refuse
  /\ UNCHANGED <<fetched, size, jpeg, pass, faces, before, stored, listed, sprites, frame>>

\* Anything else call raises, the death penalty included, waits for the
\* second thread as well.
CallRaises ==
  /\ at \in {"look", "draw"}
  /\ at' = "unwind"
  /\ UNCHANGED <<fetched, size, jpeg, pass, faces, before, stored, listed, sprites, frame>>

Unwind ==
  /\ at = "unwind" /\ before # "pending"
  /\ Raise
  /\ UNCHANGED <<fetched, size, jpeg, pass, faces, before, stored, listed, sprites, frame>>

DrawGlasses ==
  /\ at = "draw"
  /\ at' = "join"
  /\ UNCHANGED <<fetched, size, jpeg, pass, faces, before, stored, listed, sprites, frame>>

\* Leaving the executor's block waits for its thread, and says nothing of how
\* it went.
LeavePool ==
  /\ at = "join" /\ before # "pending"
  /\ at' = "result"
  /\ UNCHANGED <<fetched, size, jpeg, pass, faces, before, stored, listed, sprites, frame>>

\* write_result: the files, in order, and for each of them whether it is named.
ResultFiles ==
  IF jpeg THEN <<"full", "view", "card", "webp">> ELSE <<"full", "view", "card", "webp", "jpg">>
Missing == {i \in DOMAIN ResultFiles : ResultFiles[i] \notin stored}

WriteResult ==
  /\ at = "result"
  /\ \E i \in Missing : (\A k \in Missing : i <= k) /\ Put(ResultFiles[i], "result")
  /\ UNCHANGED <<fetched, size, jpeg, pass, faces, before, listed, sprites, frame>>

\* Mutant of Name: how the Before half went is not asked.
NameAll ==
  /\ at = "result" /\ Missing = {}
  /\ at' = "animate"
  /\ listed' = {ResultFiles[i] : i \in DOMAIN ResultFiles} \cup {"thumb", "before"}
  /\ UNCHANGED <<fetched, size, jpeg, pass, faces, before, stored, sprites, frame>>

\* `written |= result | before.result()`.
Name ==
  /\ at = "result" /\ Missing = {}
  /\ IF before = "broken"
       THEN Raise /\ UNCHANGED listed
       ELSE /\ at' = "animate"
            /\ listed' = {ResultFiles[i] : i \in DOMAIN ResultFiles} \cup {"thumb", "before"}
  /\ UNCHANGED <<fetched, size, jpeg, pass, faces, before, stored, sprites, frame>>

\* animate swallows its failures: a job without a GIF goes on.
NoAnimation ==
  /\ at \in {"animate", "frames"}
  /\ at' = "meta"
  /\ UNCHANGED <<fetched, size, jpeg, pass, faces, before, stored, listed, sprites, frame>>

\* render: the glasses of each face, left to right.  Equal places make more
\* than one order right.
Arranged == {s \in [1..Cardinality(faces) -> {OnGif(c, size) : c \in faces}] :
               {s[i] : i \in DOMAIN s} = {OnGif(c, size) : c \in faces} /\ Arrange(s)}

BeginAnimation ==
  /\ at = "animate"
  /\ at' = "frames" /\ frame' = 1 /\ sprites' \in Arranged
  /\ UNCHANGED <<fetched, size, jpeg, pass, faces, before, stored, listed>>

DrawFrame ==
  /\ at = "frames" /\ frame < LastFrame(sprites)
  /\ frame' = frame + 1
  /\ UNCHANGED <<at, fetched, size, jpeg, pass, faces, before, stored, listed, sprites>>

WriteAnimation ==
  /\ at = "frames" /\ frame = LastFrame(sprites)
  /\ at' = "meta" /\ stored' = stored \cup {"gif"} /\ listed' = listed \cup {"gif"}
  /\ UNCHANGED <<fetched, size, jpeg, pass, faces, before, sprites, frame>>

WriteMeta ==
  /\ at = "meta"
  /\ Put("meta", "done")
  /\ UNCHANGED <<fetched, size, jpeg, pass, faces, before, listed, sprites, frame>>

\* The task is over, one way or another.
Ended == at \in Over /\ before # "pending" /\ UNCHANGED procVars

NextProcessing ==
  \/ LoadImage \/ WriteThumb \/ WriteBefore \/ Look \/ NoFaces \/ CallRaises
  \/ Unwind \/ DrawGlasses \/ LeavePool \/ WriteResult \/ Name \/ NoAnimation \/ BeginAnimation
  \/ DrawFrame \/ WriteAnimation \/ WriteMeta \/ Ended

SpecProcessing == InitProcessing /\ [][NextProcessing]_procVars

-----------------------------------------------------------------------------
(* Properties. *)

\* The type invariant.
TypeOKProcessing ==
  /\ TypeOKLoading
  /\ at \in Stages /\ size \in Sizes \cup {NoSize} /\ jpeg \in BOOLEAN
  /\ pass \in DOMAIN NextPass /\ faces \subseteq Candidates
  /\ before \in {"none", "pending", "done", "broken"}
  /\ DOMAIN sprites = 1..Len(sprites) /\ frame \in Nat
  /\ at \in Stages \ {"start", "resolve", "dial", "read", "decode", "refused", "raised"}
       => size # NoSize

\* "Never leave the pool with work in flight": a task that is over, whatever
\* became of it, has nothing still to write.
NothingInFlight == at \in Over => before # "pending"

\* What a result or meta.json names is in the store, though any write on the
\* way there may have failed, the second thread's included.
ResultIsWhole ==
  at = "done" \/ "meta" \in stored
    => {"thumb", "before", "full", "view", "card"} \subseteq listed /\ listed \subseteq stored

\* A pixel of what the detector saw, on the picture that was submitted.
Pixel(s) == Factor(s).num \div Factor(s).den + 1

\* Through up to two changes of scale, each rounded, both edges of a box are
\* within two of the detector's pixels, and a pixel more, of where the detector
\* saw the face, cut at the edges of the picture...
BoxOnFace(c) ==
  LET box == BoxOf(c, pass, size)
      off == 1000 * (2 * Pixel(size) + 1)
  IN  /\ box.left * 1000 - Larger(c.left, 0) * size.w \in (-off)..off
      /\ box.right * 1000 - Smaller(c.right, 1000) * size.w \in (-off)..off

\* ...and the glasses are where its eyes are: the left lens on the left eye, the
\* right eye behind them as well, and, but for the narrowest there are, no wider
\* than 47/20 of what is between the eyes, as far as the detector could see.
GlassesOnEyes(c) ==
  LET g    == OnPicture(c, size)
      lens == g.x + (g.w * 415) \div 1024
      off  == 1000 * (Pixel(size) + 1)
  IN  /\ lens * 1000 - c.eyes[1] * size.w \in (-off)..off
      /\ (g.x + g.w) * 1000 >= c.eyes[2] * size.w - off
      /\ g.w > 16 => 20 * (g.w * 1000) <= 47 * ((c.eyes[2] - c.eyes[1]) * size.w + 2 * off)

\* "What was found, in the coordinates of the original image", whatever the
\* picture was shrunk or doubled by on the way.
FoundWhereTheyAre == \A c \in faces : BoxOnFace(c) /\ GlassesOnEyes(c)

\* "The last frame of the GIF is the picture the job produced": a pair wider
\* than the narrowest there is lands within four pixels of where the finished
\* picture has it, scaled.  The scale is that of the rounded width, so on a
\* tall picture the line drifts, by a pixel for every time it is taller than
\* wide.
LandsWhereDrawn ==
  \A c \in faces :
    LET still == OnPicture(c, size)
        moved == OnGif(c, size)
        base  == Fit(size, AnimationSize)
    IN  moved.w > 16 =>
          /\ moved.x * size.w - still.x * base.w \in (-4 * size.w)..(4 * size.w)
          /\ (moved.x + moved.w) * size.w - (still.x + still.w) * base.w
               \in (-4 * size.w)..(4 * size.w)
          /\ LET drift == 4 + size.h \div size.w IN
               moved.y * size.h - still.y * base.h \in (-drift * size.h)..(drift * size.h)

\* "Left to right, so a staggered fall crosses the picture": no pair is ahead
\* of one to its left.
FallsInOrder ==
  \A i, j \in DOMAIN sprites :
    sprites[i].x < sprites[j].x
      => Fallen(sprites, i, Shown(sprites, frame)) >= Fallen(sprites, j, Shown(sprites, frame))

\* Nothing is "half-visible on the first frame" of the fall.
HiddenAtFirst ==
  \A i \in DOMAIN sprites : sprites[i].y - Drop(sprites, i, 1) + sprites[i].h <= 0

\* Glasses only ever fall: none is higher on the next frame.
NeverRises ==
  \A i \in DOMAIN sprites :
    Drop(sprites, i, Shown(sprites, frame + 1)) <= Drop(sprites, i, Shown(sprites, frame))

\* "The caption belongs to the last frames only": by then every pair is where
\* it ends.
CaptionComesLast ==
  frame >= LastFall(sprites) =>
    \A i \in DOMAIN sprites : Drop(sprites, i, Shown(sprites, frame)) = 0

\* What the GIF shows, frame by frame, however many faces there are.
Timeline ==
  at = "frames" => FallsInOrder /\ (frame = 1 => HiddenAtFirst) /\ NeverRises /\ CaptionComesLast

-----------------------------------------------------------------------------
(* The faces a network may report: what the proofs take of its answers.     *)

\* A box that overlaps the picture, and eyes no further from it than its width.
Reported(c) ==
  /\ c.left \in Int /\ c.right \in Int /\ c.left <= c.right /\ c.left <= 1000 /\ c.right >= 0
  /\ \A i \in {1, 2} : c.eyes[i] \in Int /\ -1000 <= c.eyes[i] /\ c.eyes[i] <= 1000
Reports == \A c \in Candidates : Reported(c)

\* Glasses no further above or below the picture than it is tall.
Reaches(c, s) ==
  LET g == OnPicture(c, s) IN c.line \in Int /\ -s.h <= g.y /\ g.y <= s.h
ReachThePicture == \A s \in Sizes, c \in Candidates : Reaches(c, s)

\* Glasses whose lower edge is, on the GIF, no higher than the margin above its
\* top and not twice its 640 pixels down.
Sprite(g) == g.x \in Int /\ g.y \in Int /\ g.h \in Nat
LandsNear ==
  \A s \in Sizes, c \in Candidates :
    LET g == OnGif(c, s) IN Sprite(g) /\ g.y + g.h \in (-FallMargin)..1215
=============================================================================
