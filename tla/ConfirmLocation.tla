-------------------------- MODULE ConfirmLocation --------------------------
(***************************************************************************)
(* The Courses screen (lib/Location/Confirm_Location.dart): tapping a      *)
(* course shows a loading dialog that cannot be dismissed, asks for the    *)
(* position, judges its distance from the lecture room, and opens the      *)
(* camera or a refusal.                                                    *)
(*                                                                         *)
(* The dialog keeps the list from being tapped again, so there is one run  *)
(* of onTap at a time; the phone moves while it waits, and a camera that   *)
(* is being left may still put a preview over whatever is there.           *)
(***************************************************************************)
EXTENDS Integers, Sequences, SequencesExt

CONSTANTS Places,     \* where the phone can be
          Metres,     \* getDistanceFromLatLonInMetres of each from the room
          MaxRoutes,  \* bound: routes above the profile
          Null

ASSUME PlacesAssumption ==
  /\ Places # {}
  /\ Metres \in [Places -> Nat]
  /\ Null \notin Places
  /\ MaxRoutes \in Nat

VARIABLES
  here,              \* where the phone is
  near,              \* where it has been since the last tap
  stack,             \* the kinds of the routes above the profile, the top last
  leaving,           \* whether a camera that was left is still mounted
  run,               \* the run of onTap: none, awaiting the position, or thrown
  currentPosition,   \* _currentPosition
  distanceInMeters,  \* _distanceInMeters
  visited            \* history: where the phone has been since Courses opened

vars == <<here, near, stack, leaving, run, currentPosition, distanceInMeters,
          visited>>

Routes == {"courses", "loading", "refusal", "camera", "preview"}

Top(r) == stack # <<>> /\ Last(stack) = r
Has(r) == r \in ToSet(stack)

TypeOK ==
  /\ here \in Places
  /\ near \subseteq Places
  /\ stack \in Seq(Routes)
  /\ leaving \in BOOLEAN
  /\ run \in {"none", "locating", "thrown"}
  /\ currentPosition \in Places \union {Null}
  /\ distanceInMeters \in Nat
  /\ visited \subseteq Places

Init ==
  /\ here \in Places
  /\ near = {}
  /\ stack = <<>>
  /\ leaving = FALSE
  /\ run = "none"
  /\ currentPosition = Null
  /\ distanceInMeters = 0
  /\ visited = {}

-----------------------------------------------------------------------------

Move(p) ==
  /\ here' = p
  /\ near' = near \union {p}
  /\ visited' = visited \union {p}
  /\ UNCHANGED <<stack, leaving, run, currentPosition, distanceInMeters>>

(* Mutant: the position is kept from one Courses screen to the next. *)
OpenCoursesKeepingPosition ==
  /\ stack = <<>>
  /\ stack' = <<"courses">>
  /\ run' = "none"
  /\ distanceInMeters' = 0
  /\ near' = {}
  /\ visited' = {here}
  /\ UNCHANGED <<here, leaving, currentPosition>>

(* Mutant: the distance starts unset. *)
OpenCoursesUnmeasured ==
  /\ stack = <<>>
  /\ stack' = <<"courses">>
  /\ run' = "none"
  /\ currentPosition' = Null
  /\ distanceInMeters' = Null
  /\ near' = {}
  /\ visited' = {here}
  /\ UNCHANGED <<here, leaving>>

(* Take Attendance pushes Courses, with a state of its own. *)
OpenCourses ==
  /\ stack = <<>>
  /\ stack' = <<"courses">>
  /\ run' = "none"
  /\ currentPosition' = Null
  /\ distanceInMeters' = 0
  /\ near' = {}
  /\ visited' = {here}
  /\ UNCHANGED <<here, leaving>>

(* The dialog covers Courses before the position is asked for. *)
Tap ==
  /\ Top("courses")
  /\ stack' = Append(stack, "loading")
  /\ run' = "locating"
  /\ near' = {here}
  /\ UNCHANGED <<here, leaving, currentPosition, distanceInMeters, visited>>

(* _condition measures how far away the position is.  It throws on one     *)
(* that never was there, and then hideOpenDialog is not reached.           *)
Condition ==
  \/ /\ currentPosition' = Null
     /\ run' = "thrown"
     /\ UNCHANGED distanceInMeters
  \/ /\ currentPosition' # Null
     /\ run' = "none"
     /\ distanceInMeters' = Metres[currentPosition']

(* Mutant: the distance is judged before it is measured. *)
JudgeBeforeMeasuring ==
  \/ run' = "thrown" /\ UNCHANGED stack
  \/ /\ run' = "none"
     /\ stack' = Append(Front(stack),
                        IF distanceInMeters > 10 THEN "camera" ELSE "refusal")

(* The rest of onTap, if _condition has not thrown: hideOpenDialog pops    *)
(* whatever is on top, and the camera or the refusal is pushed.            *)
Judge ==
  \/ run' = "thrown" /\ UNCHANGED stack
  \/ /\ run' = "none"
     /\ stack' = Append(Front(stack),
                        IF distanceInMeters' > 10 THEN "camera" ELSE "refusal")

(* The platform answers with a place the phone has been at since the tap. *)
PositionArrives ==
  /\ run = "locating"
  /\ currentPosition' \in near
  /\ Condition
  /\ Judge
  /\ UNCHANGED <<here, near, leaving, visited>>

(* Location is off, denied or without a provider: catchError prints it and *)
(* the position of an earlier tap, if there is one, is judged again.       *)
PositionFails ==
  /\ run = "locating"
  /\ UNCHANGED currentPosition
  /\ Condition
  /\ Judge
  /\ UNCHANGED <<here, near, leaving, visited>>

(* A picture is ready: the preview goes on top of everything, if its       *)
(* camera is still mounted.                                                *)
PictureTaken ==
  /\ leaving \/ Has("camera")
  /\ Len(stack) < MaxRoutes
  /\ stack' = Append(stack, "preview")
  /\ UNCHANGED <<here, near, leaving, run, currentPosition, distanceInMeters, visited>>

(* Back, or the button of the refusal.  WillPopScope keeps the loading     *)
(* dialog, and barrierDismissible lets only the refusal be tapped away.    *)
GoBack ==
  /\ stack # <<>>
  /\ ~Top("loading")
  /\ stack' = Front(stack)
  /\ leaving' = (leaving \/ Top("camera"))
  /\ UNCHANGED <<here, near, run, currentPosition, distanceInMeters, visited>>

(* The exit transition of the last camera that was left is over. *)
Unmount ==
  /\ leaving
  /\ leaving' = FALSE
  /\ UNCHANGED <<here, near, stack, run, currentPosition, distanceInMeters, visited>>

(* The app is killed: the only way out of a dialog that nobody closes. *)
Kill ==
  /\ stack' = <<>>
  /\ leaving' = FALSE
  /\ run' = "none"
  /\ UNCHANGED <<here, near, currentPosition, distanceInMeters, visited>>

-----------------------------------------------------------------------------

Next ==
  \/ \E p \in Places : Move(p)
  \/ OpenCourses
  \/ Tap
  \/ PositionArrives
  \/ PositionFails
  \/ PictureTaken
  \/ GoBack
  \/ Unmount
  \/ Kill

Spec == Init /\ [][Next]_vars

-----------------------------------------------------------------------------

(* A camera or a refusal, on top or under previews, is there on account of *)
(* the position last obtained, and never of the distance 0 a new screen    *)
(* starts with, though positions fail and screens are left and opened      *)
(* again (onTap, _condition).                                              *)
VerdictOnPosition ==
  Has("camera") \/ Has("refusal") =>
    /\ currentPosition # Null
    /\ distanceInMeters = Metres[currentPosition]
    /\ Has("camera") => distanceInMeters > 10
    /\ Has("refusal") => distanceInMeters <= 10

(* What is judged, stale or not, is a place the phone has been at since    *)
(* this screen was opened (_currentPosition is a field of its state).      *)
PositionFromThisScreen ==
  Has("courses") /\ currentPosition # Null => currentPosition \in visited

(* "uses face recognition and location to take class attendance" and the   *)
(* texts of onTap: the camera, with 'Your Location Has Been Confirmed!!!', *)
(* is for who is in class, and "I'LL GO TO CLASS" for who is not.          *)
ConfirmedMeansInClass ==
  /\ Top("camera") => distanceInMeters <= 10
  /\ Top("refusal") => distanceInMeters > 10
=============================================================================
