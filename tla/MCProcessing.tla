------------------------------ MODULE MCProcessing ------------------------------
(* An instance of Processing for TLC: two hosts, two public addresses and a   *)
(* private one; a picture that is shrunk for the detector and for the GIF, a  *)
(* tall one whose sides do not divide, a strip thirty times as tall as wide,  *)
(* and a small picture that is not shrunk at all;                             *)
(* a face cut by the left edge, a small one, and one cut by the right edge.   *)
EXTENDS Processing, TLC

MCSizes == {[w |-> 3200, h |-> 1600], [w |-> 1333, h |-> 2000],
             [w |-> 100, h |-> 3000], [w |-> 200, h |-> 100]}

MCCandidates ==
  { [left |-> -40, right |-> 203, eyes |-> <<17, 133>>, line |-> 951, score |-> 66],
    [left |-> 411, right |-> 449, eyes |-> <<421, 437>>, line |-> 77, score |-> 81],
    [left |-> 777, right |-> 1049, eyes |-> <<855, 977>>, line |-> 333, score |-> 92] }

\* These faces are ones the proofs speak of.
ASSUME FacesReported == Reports /\ ReachThePicture /\ LandsNear
=============================================================================
