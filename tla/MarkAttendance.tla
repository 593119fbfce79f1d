--------------------------- MODULE MarkAttendance ---------------------------
(***************************************************************************)
(* Taking attendance: the preview screen of a face picture                 *)
(* (lib/Attendance/preview_screen.dart), the recognition request it makes  *)
(* (recogImage, lib/utils/face_recognition.dart) and the form it posts to  *)
(* the script behind the Google sheet (submitForm,                         *)
(* lib/Attendance/mark_attendance.dart).                                   *)
(*                                                                         *)
(* Each tap on the Send button is a separate run of one async handler.     *)
(* The button stays enabled, so several runs on one screen overlap and     *)
(* share the screen's state and its one FaceRecognition object; the user   *)
(* may leave the screen while a run waits for the network.  Runs give way  *)
(* to one another only where they await a reply, so a reply and all the    *)
(* code up to the next await are one step.                                 *)
(***************************************************************************)
EXTENDS Navigator  \* Screens: the preview screens, one per picture taken

CONSTANTS Sends,        \* taps on a Send button
          Students,     \* subject ids of the face gallery
          Confidences,  \* confidences of a recognition, in percent
          Signed,       \* the student who is signed in on this phone
          YetToBeTaken, \* the text studentId starts with
          Null

ASSUME StudentsAssumption ==
  /\ Signed \in Students
  /\ YetToBeTaken \notin Students
  /\ Null \notin Students \union Screens
  /\ YetToBeTaken # Null
ASSUME ConfidencesAssumption == Confidences \subseteq 0..100

VARIABLES
  feedbackItems, \* whether the list fetched by initState has been set
  response,      \* FaceRecognition.response, which survives from run to run
  status,        \* _PreviewImageScreenState.status
  studentId,     \* _PreviewImageScreenState.studentId
  pc,            \* where each run is
  screen,        \* the screen of each run
  matricno,      \* the matricno of the FeedbackForm of each run
  saved,         \* the status the script computed for each run
  told,          \* the outcome each run has shown in a snackbar
  sheet,         \* the rows of the Google sheet
  answers        \* history: the candidates answered for a screen's picture

screenVars == <<navVars, feedbackItems, response, status, studentId>>
runVars == <<pc, screen, matricno, saved, told, sheet, answers>>
vars == <<screenVars, runVars>>

-----------------------------------------------------------------------------
(* What the recognition service answers: the best candidate, images       *)
(* without candidates, or errors without images.                           *)
Candidate == [kind: {"candidate"}, subject_id: Students, confidence: Confidences]
Reply     == Candidate \union [kind: {"noCandidates", "noImages"}]

(* The value response starts with. *)
NullReply == [kind |-> "null"]

(* The parsing in recogImage throws on everything but a candidate: the    *)
(* test for missing images or candidates uses && and dereferences the      *)
(* images it has just found missing, and a null response parses to null.   *)
Parses(r)     == r.kind = "candidate"
screenInfo(r) == [status |-> r.confidence > 65, subjectId |-> r.subject_id]

Places == {"idle", "recognizing", "posting", "ran", "redirected", "done", "failed"}

Row == [send: Sends, screen: Screens, matricno: Students]

TypeOK ==
  /\ NavTypeOK
  /\ feedbackItems \in [Screens -> BOOLEAN]
  /\ response \in [Screens -> Reply \union {NullReply}]
  /\ status \in [Screens -> BOOLEAN]
  /\ studentId \in [Screens -> Students \union {YetToBeTaken}]
  /\ pc \in [Sends -> Places]
  /\ screen \in [Sends -> Screens \union {Null}]
  /\ matricno \in [Sends -> Students \union {Null}]
  /\ saved \in [Sends -> {"none", "SUCCESS", "ERROR"}]
  /\ told \in [Sends -> {"nothing", "Attendance Uploaded", "Error Occurred!"}]
  /\ sheet \in Seq(Row)
  /\ answers \in [Screens -> SUBSET Candidate]

Init ==
  /\ stack = <<>>
  /\ life = [s \in Screens |-> "unopened"]
  /\ feedbackItems = [s \in Screens |-> FALSE]
  /\ response = [s \in Screens |-> NullReply]
  /\ status = [s \in Screens |-> FALSE]
  /\ studentId = [s \in Screens |-> YetToBeTaken]
  /\ pc = [c \in Sends |-> "idle"]
  /\ screen = [c \in Sends |-> Null]
  /\ matricno = [c \in Sends |-> Null]
  /\ saved = [c \in Sends |-> "none"]
  /\ told = [c \in Sends |-> "nothing"]
  /\ sheet = <<>>
  /\ answers = [s \in Screens |-> {}]

-----------------------------------------------------------------------------
(* The life of a screen. *)

(* The camera screen pushes the preview of a picture it has taken: on top  *)
(* of the one before, if two captures were under way.                      *)
OpenPreview(s) ==
  /\ Push(s)
  /\ UNCHANGED <<feedbackItems, response, status, studentId, runVars>>

(* The reply to the GET of initState: setState throws if unmounted. *)
FeedbackListArrives(s) ==
  /\ Mounted(s)
  /\ ~feedbackItems[s]
  /\ feedbackItems' = [feedbackItems EXCEPT ![s] = TRUE]
  /\ UNCHANGED <<navVars, response, status, studentId, runVars>>

LeavePreview(s) ==
  /\ OnTop(s)
  /\ Pop
  /\ UNCHANGED <<feedbackItems, response, status, studentId, runVars>>

Unmount(s) ==
  /\ Dispose(s)
  /\ UNCHANGED <<feedbackItems, response, status, studentId, runVars>>

-----------------------------------------------------------------------------
(* One run of the Send handler. *)

Goto(c, place) == pc' = [pc EXCEPT ![c] = place]

Send(c, s) ==
  /\ pc[c] = "idle"
  /\ OnTop(s)
  /\ Goto(c, "recognizing")
  /\ screen' = [screen EXCEPT ![c] = s]
  /\ UNCHANGED <<screenVars, matricno, saved, told, sheet, answers>>

(* Mutant: the form is built before studentId is assigned. *)
SubmitBeforeAssigning(c, r) ==
  LET s == screen[c] IN
  /\ status' = [status EXCEPT ![s] = screenInfo(r).status]
  /\ studentId' = [studentId EXCEPT ![s] = screenInfo(r).subjectId]
  /\ matricno' = [matricno EXCEPT ![c] = studentId[s]]
  /\ Goto(c, "posting")

(* Mutant: a face once recognised stays recognised. *)
SubmitKeepingStatus(c, r) ==
  LET s == screen[c] IN
  /\ status' = [status EXCEPT ![s] = @ \/ screenInfo(r).status]
  /\ studentId' = [studentId EXCEPT ![s] = screenInfo(r).subjectId]
  /\ matricno' = [matricno EXCEPT ![c] = studentId'[s]]
  /\ Goto(c, "posting")

(* The setState of the handler and the _submitForm inside it: the form is *)
(* built from the studentId just assigned and posted whatever status is.   *)
Submit(c, r) ==
  LET s == screen[c] IN
  /\ status' = [status EXCEPT ![s] = screenInfo(r).status]
  /\ studentId' = [studentId EXCEPT ![s] = screenInfo(r).subjectId]
  /\ matricno' = [matricno EXCEPT ![c] = studentId'[s]]
  /\ Goto(c, "posting")

(* recogImage goes on with the response r: it parses and submits, or       *)
(* throws, in the parser or in setState on an unmounted screen.            *)
Proceed(c, r) ==
  /\ \/ /\ Parses(r) /\ Mounted(screen[c])
        /\ Submit(c, r)
     \/ /\ ~(Parses(r) /\ Mounted(screen[c]))
        /\ Goto(c, "failed")
        /\ UNCHANGED <<status, studentId, matricno>>
  /\ UNCHANGED <<navVars, feedbackItems, screen, saved, told, sheet>>

(* The service answers: the answer replaces response. *)
Recognized(c, r) ==
  /\ pc[c] = "recognizing"
  /\ response' = [response EXCEPT ![screen[c]] = r]
  /\ answers' = [answers EXCEPT ![screen[c]] =
                   IF Parses(r) THEN @ \union {r} ELSE @]
  /\ Proceed(c, r)

(* Mutant: response is static, so the stale one may be another screen's. *)
RecognizeFailsShared(c) ==
  /\ pc[c] = "recognizing"
  /\ UNCHANGED <<response, answers>>
  /\ \E s \in Screens : Proceed(c, response[s])

(* The request fails with a DioError, which is only printed: recogImage    *)
(* parses whatever an earlier run of this screen left in response.         *)
RecognizeFails(c) ==
  /\ pc[c] = "recognizing"
  /\ UNCHANGED <<response, answers>>
  /\ Proceed(c, response[screen[c]])

(* Anything else that goes wrong before the answer, an unreadable picture  *)
(* for one, is not caught: recogImage ends without parsing a response.     *)
RecognizeThrows(c) ==
  /\ pc[c] = "recognizing"
  /\ Goto(c, "failed")
  /\ UNCHANGED <<screenVars, screen, matricno, saved, told, sheet, answers>>

(* The script runs on a posted form.  It adds a row and computes SUCCESS,  *)
(* or adds none and computes something else.                               *)
ScriptRuns(c) ==
  /\ pc[c] = "posting"
  /\ Goto(c, "ran")
  /\ \/ /\ saved' = [saved EXCEPT ![c] = "SUCCESS"]
        /\ sheet' = Append(sheet, [send |-> c, screen |-> screen[c],
                                   matricno |-> matricno[c]])
     \/ /\ saved' = [saved EXCEPT ![c] = "ERROR"]
        /\ UNCHANGED sheet
  /\ UNCHANGED <<screenVars, screen, matricno, told, answers>>

(* Answered with 302: submitForm gets the location it names. *)
Redirected(c) ==
  /\ pc[c] = "ran"
  /\ Goto(c, "redirected")
  /\ UNCHANGED <<screenVars, screen, matricno, saved, told, sheet, answers>>

(* Mutant: any answer counts as an upload. *)
CallbackAnyStatus(c) ==
  /\ pc[c] \in {"ran", "redirected"}
  /\ Mounted(screen[c])
  /\ told' = [told EXCEPT ![c] = "Attendance Uploaded"]
  /\ Goto(c, "done")
  /\ UNCHANGED <<screenVars, screen, matricno, saved, sheet, answers>>

(* The callback of _submitForm with the status of the decoded body.  On an *)
(* unmounted screen its snackbar throws into submitForm, which prints it.  *)
Callback(c) ==
  /\ pc[c] \in {"ran", "redirected"}
  /\ \/ /\ Mounted(screen[c])
        /\ told' = [told EXCEPT ![c] = IF saved[c] = "SUCCESS"
                                       THEN "Attendance Uploaded"
                                       ELSE "Error Occurred!"]
        /\ Goto(c, "done")
     \/ /\ ~Mounted(screen[c])
        /\ Goto(c, "failed")
        /\ UNCHANGED told
  /\ UNCHANGED <<screenVars, screen, matricno, saved, sheet, answers>>

(* Mutant: the POST is sent again when its answer is lost. *)
PostRetried(c) ==
  /\ pc[c] \in {"posting", "ran", "redirected"}
  /\ Goto(c, "posting")
  /\ UNCHANGED <<screenVars, screen, matricno, saved, told, sheet, answers>>

(* The POST, its answer or the GET after it is lost, or its body does not *)
(* decode: submitForm prints the exception and calls nothing.              *)
PostFails(c) ==
  /\ pc[c] \in {"posting", "ran", "redirected"}
  /\ Goto(c, "failed")
  /\ UNCHANGED <<screenVars, screen, matricno, saved, told, sheet, answers>>

-----------------------------------------------------------------------------
(* What the phone and the network do to a run: an answer or a failure. *)
Network(c) ==
  \/ \E r \in Reply : Recognized(c, r)
  \/ RecognizeFails(c)
  \/ RecognizeThrows(c)
  \/ ScriptRuns(c)
  \/ Redirected(c)
  \/ Callback(c)
  \/ PostFails(c)

Next ==
  \/ \E s \in Screens :
        \/ OpenPreview(s)
        \/ FeedbackListArrives(s)
        \/ LeavePreview(s)
        \/ Unmount(s)
        \/ \E c \in Sends : Send(c, s)
  \/ \E c \in Sends : Network(c)

Spec == Init /\ [][Next]_vars

-----------------------------------------------------------------------------
(* Safety. *)

Recorded(c) == \E i \in DOMAIN sheet : sheet[i].send = c

(* Every row names a student the service did recognise in the picture of   *)
(* the screen the row came from, however runs overlap and whichever        *)
(* requests fail: a failed run may reuse a stale response, but only one    *)
(* about the same picture, and the initial text of studentId is never      *)
(* posted (recogImage, _submitForm).                                       *)
RowsRecognised ==
  \A i \in DOMAIN sheet :
    \E a \in answers[sheet[i].screen] : a.subject_id = sheet[i].matricno

(* One tap adds at most one row, although the POST, the redirect and the   *)
(* GET after it can each be lost after the row is written (submitForm).    *)
OneRowPerSend ==
  \A i, j \in DOMAIN sheet : sheet[i].send = sheet[j].send => i = j

(* The snackbar of a run says "Attendance Uploaded" only if its row is in  *)
(* the sheet and "Error Occurred!" only if it is not, although the status  *)
(* reaches the callback by two routes (submitForm, _submitForm).           *)
ToldTheTruth ==
  \A c \in Sends :
    /\ told[c] = "Attendance Uploaded" => Recorded(c)
    /\ told[c] = "Error Occurred!" => ~Recorded(c)

ShowsOneAnswer(s) ==
  /\ studentId[s] = YetToBeTaken => ~status[s]
  /\ studentId[s] # YetToBeTaken =>
       /\ \E a \in answers[s] : /\ a.subject_id = studentId[s]
                               /\ status[s] <=> a.confidence > 65
       /\ \E c \in Sends : screen[c] = s /\ matricno[c] = studentId[s]

(* The name on the screen and whether it counts as recognised come from    *)
(* one answer, and a form with that name was posted from this screen, even *)
(* when several runs finish out of order (setState in onPressed).          *)
ScreenShowsOneAnswer == \A s \in Screens : ShowsOneAnswer(s)

(* A run is never taken back: nothing is sent or posted a second time,     *)
(* whatever fails, no answer is taken twice, and a run that has ended is   *)
(* left alone, so that a run takes five steps at most; nothing in the code *)
(* bounds the time it waits for them (recogImage, submitForm,              *)
(* _submitForm).                                                           *)
Rank(place) == CASE place = "idle"        -> 0
                 [] place = "recognizing" -> 1
                 [] place = "posting"     -> 2
                 [] place = "ran"         -> 3
                 [] place = "redirected"  -> 4
                 [] OTHER                 -> 5
RunsOnlyAdvance ==
  [][\A c \in Sends : pc'[c] # pc[c] => Rank(pc[c]) < Rank(pc'[c])]_vars

(* The entries of the sheet, as AttendanceLedger sees them. *)
entries == [i \in DOMAIN sheet |-> [send |-> sheet[i].send,
                                    picture |-> sheet[i].screen,
                                    student |-> sheet[i].matricno]]

Ledger == INSTANCE AttendanceLedger
            WITH Pictures <- Screens,
                 named <- [s \in Screens |-> {a.subject_id : a \in answers[s]}],
                 ledger <- entries

(* The pipeline as a whole keeps the ledger's promise: every step of       *)
(* recogImage and submitForm recognises a picture, enters a student that   *)
(* very picture was recognised as, once per tap, or changes neither.       *)
ImplementsLedger == Ledger!Spec

-----------------------------------------------------------------------------
(* Why the safety properties hold: the inductive invariant. *)

(* What a run has done by each place it can be in: it has a form only once *)
(* some answer for its own screen named the student on it, and a row only  *)
(* once the script said SUCCESS, which is what the callback goes by.       *)
RunInOrder(c) ==
  /\ pc[c] = "idle" <=> screen[c] = Null
  /\ pc[c] \in {"idle", "recognizing"} => matricno[c] = Null
  /\ pc[c] \in {"posting", "ran", "redirected"} => matricno[c] # Null
  /\ matricno[c] # Null =>
       \E a \in answers[screen[c]] : a.subject_id = matricno[c]
  /\ pc[c] \in {"idle", "recognizing", "posting"} => saved[c] = "none"
  /\ saved[c] = "SUCCESS" => Recorded(c)
  /\ told[c] = "Attendance Uploaded" => saved[c] = "SUCCESS"
  /\ told[c] = "Error Occurred!" => saved[c] # "SUCCESS"
  /\ told[c] # "nothing" => pc[c] = "done"

(* A response that parses, stale or not, was answered for this screen. *)
ResponseAnswered ==
  \A s \in Screens : Parses(response[s]) => response[s] \in answers[s]

(* A row is the form of a run for which the script said SUCCESS. *)
RowsFromRuns ==
  \A i \in DOMAIN sheet :
    /\ saved[sheet[i].send] = "SUCCESS"
    /\ sheet[i].screen = screen[sheet[i].send]
    /\ sheet[i].matricno = matricno[sheet[i].send]

(* The inductive invariant from which the safety properties follow. *)
IInv == /\ TypeOK
        /\ \A c \in Sends : RunInOrder(c)
        /\ ResponseAnswered
        /\ RowsFromRuns
        /\ OneRowPerSend
        /\ ScreenShowsOneAnswer

-----------------------------------------------------------------------------
(* What comments in the code say and the code does not do. *)

(* "Returns [true] if confidence > 65% and imageId = name": the face       *)
(* recognised is that of the student signed in (recogImage).               *)
TrueMeansOwnFace ==
  \A s \in Screens : status[s] => studentId[s] = Signed
=============================================================================
