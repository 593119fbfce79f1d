------------------------------- MODULE MCApp -------------------------------
(* Small instances of App for TLC. *)
EXTENDS App, TLC

CONSTANTS t1, t2, p1, p2, c1, ada

(* Two taps and two pictures, so that one tap's picture can come late into *)
(* the other's dialog; one student and one tap on Send, as MarkAttendance  *)
(* is checked with more.                                                   *)
MCTaps == {t1, t2}
MCShots == {p1, p2}
MCScreens == (MCTaps \X {"loading", "camera", "refusal"}) \union MCShots
MCBase == {Courses}
MCSends == {c1}
MCStudents == {ada}
MCSymmetry == Permutations(MCTaps) \union Permutations(MCShots)
MCConfidences == {66}

(* On either side of the limit of 10. *)
MCDistances == {10, 11}
=============================================================================
