-------------------------- MODULE MCCameraControl --------------------------
(* Small instances of CameraControl for TLC. *)
EXTENDS CameraControl, TLC

CONSTANTS i1, i2, i3, i4, p1, p2

(* The first run, and three switches that can overlap. *)
MCInits == {i1, i2, i3, i4}
MCCaptures == {p1, p2}

(* Runs and taps are interchangeable. *)
MCSymmetry == Permutations(MCInits) \union Permutations(MCCaptures)
=============================================================================
