-------------------------- MODULE MCMarkAttendance --------------------------
(* Small instances of MarkAttendance for TLC. *)
EXTENDS MarkAttendance

CONSTANTS s1, s2, c1, c2, ada, ben

(* Two pictures, and taps enough for two runs to overlap on one screen.   *)
MCScreens == {s1, s2}
MCOneScreen == {s1}
MCSends == {c1, c2}
MCStudents == {ada, ben}

(* On either side of the threshold of 65. *)
MCConfidences == {65, 66}
=============================================================================
