-------------------------- MODULE MCFaceEnrolment --------------------------
(* Small instances of FaceEnrolment for TLC. *)
EXTENDS FaceEnrolment, TLC

CONSTANTS v1, v2, p1, p2, u1, u2, u3

(* Two visits to the camera, two pictures, and taps enough on Upload to    *)
(* pop every route.                                                        *)
MCVisits == {v1, v2}
MCShots == {p1, p2}
MCUploads == {u1, u2, u3}
MCScreens == MCVisits \union MCShots
MCBase == {Start, Profile}

(* Visits, pictures and taps are interchangeable. *)
MCSymmetry == Permutations(MCVisits) \union Permutations(MCShots)
                \union Permutations(MCUploads)
=============================================================================
