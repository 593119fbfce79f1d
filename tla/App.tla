-------------------------------- MODULE App --------------------------------
(***************************************************************************)
(* From a course to a row of the sheet: Courses                            *)
(* (lib/Location/Confirm_Location.dart) asks for the position and opens    *)
(* the camera (lib/Attendance/camera_screen.dart), which takes pictures    *)
(* and opens their previews, on which the student sends them: module       *)
(* MarkAttendance, all of whose actions are taken here.                    *)
(*                                                                         *)
(* The three screens share the Navigator.  The loading dialog of a tap     *)
(* cannot be left; the camera and the previews can, while a picture is     *)
(* being taken or an answer awaited.  Every step here is one of the        *)
(* Navigator and, where it concerns a preview, one of MarkAttendance.      *)
(***************************************************************************)
EXTENDS Navigator

CONSTANTS Taps,       \* taps on a course
          Shots,      \* taps on the capture button, and the previews
          Distances,  \* distances from the lecture room
          Courses,    \* the route of the Courses screen
          Sends, Students, Confidences, Signed, YetToBeTaken, Null

(* A tap opens the dialog, and later the camera or the refusal. *)
Loading(t) == <<t, "loading">>
Camera(t)  == <<t, "camera">>
Refusal(t) == <<t, "refusal">>

ASSUME ScreensAssumption ==
  /\ Screens = (Taps \X {"loading", "camera", "refusal"}) \union Shots
  /\ Shots \intersect (Taps \X {"loading", "camera", "refusal"}) = {}
  /\ Base = {Courses}
  /\ Null \notin Taps \union Distances
  /\ Distances \subseteq Nat
ASSUME StudentsAssumption ==
  /\ Signed \in Students
  /\ YetToBeTaken \notin Students
  /\ Null \notin Students \union Shots
  /\ YetToBeTaken # Null
  /\ Confidences \subseteq 0..100

VARIABLES
  run,              \* where the run of onTap of each tap is
  currentPosition,  \* _currentPosition of Courses
  judged,           \* history: the distance each tap was judged by
  shot,             \* where each capture is
  origin,           \* the tap whose camera took each picture
  late,             \* history: pictures displayed while their camera was left
  feedbackItems, response, status, studentId, pc, screen, matricno, saved,
  told, sheet, answers  \* those of MarkAttendance

tapVars  == <<run, currentPosition, judged>>
shotVars == <<shot, origin, late>>
attVars  == <<feedbackItems, response, status, studentId, pc, screen, matricno,
              saved, told, sheet, answers>>
vars == <<navVars, tapVars, shotVars, attVars>>

(* The n-th number of the set S, in ascending order. *)
Nth(S, n) == CHOOSE i \in {i \in S : Cardinality({j \in S : j <= i}) = n} : TRUE

(* The previews among the routes q, in the order they lie. *)
PreviewsAt(q) == {i \in DOMAIN q : q[i] \in Shots}
Previews(q) ==
  [n \in 1..Cardinality(PreviewsAt(q)) |-> q[Nth(PreviewsAt(q), n)]]

(* What there is of taking attendance in the whole. *)
Att == INSTANCE MarkAttendance
         WITH Screens <- Shots, Base <- {},
              stack <- Previews(stack),
              life <- [p \in Shots |-> life[p]]

TypeOK ==
  /\ NavTypeOK
  /\ Att!TypeOK
  /\ run \in [Taps -> {"none", "locating", "thrown", "done"}]
  /\ currentPosition \in Distances \union {Null}
  /\ judged \in [Taps -> Distances \union {Null}]
  /\ shot \in [Shots -> {"idle", "taking", "displayed", "failed"}]
  /\ origin \in [Shots -> Taps \union {Null}]
  /\ late \subseteq Shots

Init ==
  /\ stack = <<Courses>>
  /\ life = [s \in Screens |-> "unopened"]
  /\ run = [t \in Taps |-> "none"]
  /\ currentPosition = Null
  /\ judged = [t \in Taps |-> Null]
  /\ shot = [p \in Shots |-> "idle"]
  /\ origin = [p \in Shots |-> Null]
  /\ late = {}
  /\ Att!Init

-----------------------------------------------------------------------------
(* Mutant: the loading dialog can be dismissed. *)
GoBackAnywhere ==
  /\ Last(stack) # Courses
  /\ Pop
  /\ UNCHANGED <<tapVars, shotVars, attVars>>

(* Back from a preview, the camera or the refusal.  WillPopScope keeps the *)
(* dialog; how Courses itself is left is in ConfirmLocation.               *)
GoBack ==
  /\ Last(stack) # Courses
  /\ \A t \in Taps : ~OnTop(Loading(t))
  /\ Pop
  /\ UNCHANGED <<tapVars, shotVars, attVars>>

Unmount(s) ==
  /\ Dispose(s)
  /\ UNCHANGED <<tapVars, shotVars, attVars>>

-----------------------------------------------------------------------------
(* Courses. *)

TapCourse(t) ==
  /\ OnTop(Courses)
  /\ run[t] = "none"
  /\ Push(Loading(t))
  /\ run' = [run EXCEPT ![t] = "locating"]
  /\ UNCHANGED <<currentPosition, judged, shotVars, attVars>>

(* Mutant: the camera is opened after a refusal as well. *)
VerdictAlwaysCamera(t) == Camera(t)

(* The screen that comes of a position. *)
Verdict(t) == IF currentPosition' > 10 THEN Camera(t) ELSE Refusal(t)

(* Mutant: the dialog is hidden only if the position was new. *)
JudgeHidingSometimes(t) ==
  /\ run[t] = "locating"
  /\ currentPosition' # Null
  /\ run' = [run EXCEPT ![t] = "done"]
  /\ judged' = [judged EXCEPT ![t] = currentPosition']
  /\ IF currentPosition' # currentPosition
     THEN PushReplacement(Verdict(t))
     ELSE Push(Verdict(t))
  /\ UNCHANGED <<shotVars, attVars>>

(* The rest of onTap: _condition throws if there never was a position;     *)
(* hideOpenDialog pops the route on top, and the verdict is pushed.        *)
Judge(t) ==
  /\ run[t] = "locating"
  /\ \/ /\ currentPosition' = Null
        /\ run' = [run EXCEPT ![t] = "thrown"]
        /\ UNCHANGED <<navVars, judged>>
     \/ /\ currentPosition' # Null
        /\ run' = [run EXCEPT ![t] = "done"]
        /\ judged' = [judged EXCEPT ![t] = currentPosition']
        /\ PushReplacement(Verdict(t))
  /\ UNCHANGED <<shotVars, attVars>>

(* A position, or none and the one of an earlier tap is judged again. *)
PositionArrives(t) == \E d \in Distances : currentPosition' = d /\ Judge(t)
PositionFails(t)   == UNCHANGED currentPosition /\ Judge(t)

-----------------------------------------------------------------------------
(* The camera. *)

(* Mutant: a picture is said to be of the camera's route, not of its tap.  *)
TapCaptureByRoute(p, t) ==
  /\ OnTop(Camera(t))
  /\ shot[p] = "idle"
  /\ shot' = [shot EXCEPT ![p] = "taking"]
  /\ origin' = [origin EXCEPT ![p] = Last(stack)]
  /\ UNCHANGED <<navVars, tapVars, late, attVars>>

TapCapture(p, t) ==
  /\ OnTop(Camera(t))
  /\ shot[p] = "idle"
  /\ shot' = [shot EXCEPT ![p] = "taking"]
  /\ origin' = [origin EXCEPT ![p] = t]
  /\ UNCHANGED <<navVars, tapVars, late, attVars>>

Displayed(p) ==
  /\ shot' = [shot EXCEPT ![p] = "displayed"]
  /\ late' = IF life[Camera(origin[p])] = "leaving" THEN late \union {p} ELSE late

(* Mutant: the preview takes the place of the camera. *)
PictureTakenReplacing(p) ==
  /\ shot[p] = "taking"
  /\ Mounted(Camera(origin[p])) /\ Last(stack) \notin Shots
  /\ PushReplacement(p)
  /\ Displayed(p)
  /\ UNCHANGED <<tapVars, origin, attVars>>

(* Mutant: a preview starts with the student of the one before. *)
PictureTakenKnown(p) ==
  /\ shot[p] = "taking"
  /\ Mounted(Camera(origin[p]))
  /\ Push(p)
  /\ Displayed(p)
  /\ \E q \in Shots : studentId' = [studentId EXCEPT ![p] = studentId[q]]
  /\ UNCHANGED <<tapVars, origin, feedbackItems, response, status, pc, screen,
                 matricno, saved, told, sheet, answers>>

(* The picture is displayed on top of everything; Navigator.push throws if *)
(* the camera screen is gone.                                              *)
PictureTaken(p) ==
  /\ shot[p] = "taking"
  /\ \/ /\ Mounted(Camera(origin[p]))
        /\ Push(p)
        /\ Displayed(p)
     \/ /\ ~Mounted(Camera(origin[p]))
        /\ shot' = [shot EXCEPT ![p] = "failed"]
        /\ UNCHANGED <<navVars, late>>
  /\ UNCHANGED <<tapVars, origin, attVars>>

CaptureFails(p) ==
  /\ shot[p] = "taking"
  /\ shot' = [shot EXCEPT ![p] = "failed"]
  /\ UNCHANGED <<navVars, tapVars, origin, late, attVars>>

-----------------------------------------------------------------------------
(* The previews. *)

ListArrives(p) ==
  /\ UNCHANGED <<navVars, tapVars, shotVars>>
  /\ Att!FeedbackListArrives(p)

Send(c, p) ==
  /\ OnTop(p)
  /\ UNCHANGED <<navVars, tapVars, shotVars>>
  /\ Att!Send(c, p)

Network(c) ==
  /\ UNCHANGED <<navVars, tapVars, shotVars>>
  /\ Att!Network(c)

-----------------------------------------------------------------------------

Next ==
  \/ GoBack
  \/ \E s \in Screens : Unmount(s)
  \/ \E t \in Taps :
        \/ TapCourse(t)
        \/ PositionArrives(t)
        \/ PositionFails(t)
        \/ \E p \in Shots : TapCapture(p, t)
  \/ \E p \in Shots :
        \/ PictureTaken(p)
        \/ CaptureFails(p)
        \/ ListArrives(p)
        \/ \E c \in Sends : Send(c, p)
  \/ \E c \in Sends : Network(c)

Spec == Init /\ [][Next]_vars

-----------------------------------------------------------------------------

(* Every row comes of a picture taken by a camera that a confirmed         *)
(* position opened, whatever is left, late or judged again in between      *)
(* (onTap, _onCapturePressed, _submitForm).                                *)
RowsFromConfirmedTaps ==
  \A i \in DOMAIN sheet :
    LET t == origin[sheet[i].screen] IN
    t # Null /\ judged[t] # Null /\ judged[t] > 10

(* The pop of hideOpenDialog takes away a dialog or, at worst, a preview;  *)
(* Courses stays, though the pop is for whatever is on top (onTap).        *)
CoursesStays == stack # <<>> /\ Head(stack) = Courses

DialogShown(t) == life[Loading(t)] = "shown"

(* A dialog outlasts its run only if the run threw for want of any         *)
(* position, or if a picture came on top of it from a camera being left,   *)
(* and then the pop of hideOpenDialog took the preview instead.  In time,  *)
(* the waiting run's dialog is on top, and there are never two: a dialog   *)
(* that stays keeps every later tap away (onTap, hideOpenDialog).          *)
DialogsAreClosed ==
  /\ \A t, u \in Taps : DialogShown(t) /\ DialogShown(u) => t = u
  /\ \A t \in Taps : DialogShown(t) =>
        \/ run[t] = "locating"
        \/ run[t] = "thrown" /\ currentPosition = Null
        \/ run[t] = "done" /\ late # {}
  /\ late = {} => \A t \in Taps : run[t] = "locating" => OnTop(Loading(t))

(* A dialog that its run has left on is never taken away, neither by Back  *)
(* nor by the pop of another run: no course is tapped or judged any more   *)
(* (WillPopScope, onTap, hideOpenDialog).                                  *)
DialogsLeftOnStay ==
  [][\A t \in Taps : DialogShown(t) /\ run[t] # "locating" =>
        DialogShown(t)' /\ UNCHANGED run]_vars

(* As long as no picture is late: above Courses there is one dialog, one   *)
(* refusal, or one camera with previews of its own pictures above it,      *)
(* however many captures overlap (onTap, _onCapturePressed).               *)
ScreensInOrder ==
  late = {} =>
    \/ stack = <<Courses>>
    \/ \E t \in Taps :
          \/ stack \in {<<Courses, Loading(t)>>, <<Courses, Refusal(t)>>}
          \/ /\ Len(stack) > 1 /\ stack[2] = Camera(t)
             /\ \A i \in 3..Len(stack) : stack[i] \in Shots /\ origin[stack[i]] = t

(* Seen from its previews the whole is taking attendance: a preview that   *)
(* hideOpenDialog pops by mistake has been left, a late one opened, and    *)
(* nothing that Courses or the camera does touches a run (preview_screen). *)
ImplementsAttendance == Att!Spec

(* The pictures of the rows, as AttendanceGate sees them. *)
rows == [i \in DOMAIN sheet |-> sheet[i].screen]

Gate == INSTANCE AttendanceGate
          WITH Pictures <- Shots,
               Confirmed <- {d \in Distances : d > 10}

(* The way to a row as a whole: each tap is judged once, each picture is   *)
(* taken for a tap that had been confirmed, and is only ever that tap's,   *)
(* and each row is of a picture taken, whatever is left, fails, comes late *)
(* or is tapped twice (onTap, _onCapturePressed, _submitForm).             *)
ImplementsGate == Gate!Spec
=============================================================================
