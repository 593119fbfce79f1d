# FRAMA: a TLA+ development of the attendance app

FRAMA is a Flutter application for students: sign up, register a face, pick a
course, be located, take a picture, and have the face recognised and a row
added to a Google sheet. This directory holds TLA+ models of that program,
the TLC configurations that check them, and TLAPS proofs about all of them.
Paths below are relative to the repository; the program is `lib/`, 17 Dart files.
`PROJECT.json` lists the runs, the source lines each definition stands for,
a mutation that breaks each property, the findings and the hazards.

To check a run: `tlc -config MarkAttendance.cfg MCMarkAttendance`; to check
proofs: `tlapm MarkAttendanceProofs.tla`.

## What the code is like

Dart runs one piece of code at a time, up to the next `await`. There are no
threads to interleave, but every button handler of this program is an `async`
closure that awaits the network, a plugin or the disk and then touches the
screen's state, the Navigator or both. In between the user may tap again
(hardly any button is disabled while its handler waits), leave the screen, or
open another one. So each model has as its atomic step "a reply, and all the
code up to the next await", and its interleavings are those of overlapping
runs of handlers, of replies that come in any order or not at all, and of
screens that are left meanwhile.

Three facts about Flutter, which the code does not state and depends on, are
module `Navigator`, marked external in the map:

- `Navigator.pop`, `pushReplacement` and `push` act on the route that is on top
  *when they are called*, whichever screen's context they are called with.
- A route that is popped or replaced stays *mounted* until its exit transition
  is over. Until then its `context` and `setState` still work.
- Afterwards they throw: `setState` by an assertion in debug builds, and in
  release builds the next use of `context`. In every handler modelled here the
  difference between the builds is not visible, since the exception comes before
  anything is posted, shown or pushed.

The app runs with `--no-sound-null-safety` (`.vscode/launch.json:17`), so
`null as T` gives null and the failure comes at the next dereference.

## Inventory

### Taking attendance
`lib/Attendance/preview_screen.dart`, `recogImage` of
`lib/utils/face_recognition.dart`, `submitForm` of
`lib/Attendance/mark_attendance.dart`, `lib/utils/form.dart`.

- State: `studentId`, `status`, `feedbackItems` of the screen; `response` of its one
  `FaceRecognition` object, which outlives a run; outside the app, the sheet.
- Operations: `initState` (GETs the list), Send (awaits `recogImage`, then sets
  the state and calls `_submitForm`), `submitForm` (POST, then GET of a redirect,
  then the callback with a snackbar), Back.
- Hard: overlapping taps share one `response` and one state; a request that
  fails leaves a stale or null `response` that is parsed all the same; POST,
  redirect and GET can each fail after the row is written; the screen may be gone.
- Correct when: a row names a student the service recognised in *that*
  screen's picture; one tap adds one row at most; the snackbar agrees with
  the sheet; name and verdict on the screen come from one answer; a run of Send
  is never taken back.

### Confirming the location
`lib/Location/Confirm_Location.dart`.

- State: `_currentPosition`, `_distanceInMeters`; the loading dialog and the
  routes above it.
- Operations: tapping a course (dialog, position, distance, pop of the dialog,
  camera or refusal), Back.
- Hard: the position may fail, and then an old one or none is used; the dialog
  can be dismissed by nothing but the handler, which may throw, or may pop the
  late preview of a camera that was left before.
- Correct when: each verdict is about a measured position, one the phone
  had since this screen was opened. That the pop closes the run's own dialog is
  *not* true of the program; `App` says when it fails.

### Camera screens
`lib/Attendance/camera_screen.dart`; `lib/Registration/Register_camera.dart` has
the same controller code.

- State: `cameras`, `selectedCameraIdx`, `controller`.
- Operations: `initState` (lists cameras), `_initCameraController` (disposes
  the controller it finds, makes and initializes a new one), the toggle, the
  capture, leaving.
- Hard: `_initCameraController` reads `controller`, awaits, and assigns it; the
  toggle is not disabled meanwhile; a capture awaits a directory and then uses
  whichever controller is there.
- Correct when: no controller is lost without being disposed, and the one in use
  is for the selected camera.

### Enrolling a face
`lib/Registration/Register_camera.dart`, `lib/Registration/Register_preview.dart`,
`enrollImage` of `lib/utils/face_recognition.dart`.

- State: the global list `paths`; the Navigator; outside, Kairos' gallery.
- Operations: capture (adds to `paths`, replaces the camera screen by a preview),
  Upload (enrols, says so, pops).
- Hard: two captures or two uploads in flight each act on the route on top.
- Correct when: handlers take away only their own screens, and screens do not
  pile up.

### Session and navigation
`lib/main.dart`, `lib/getting_started_sreen.dart`,
`lib/Register/LoginScreen.dart`, `Signup_page.dart`, `Profile_page.dart`,
`lib/utils/firebase_auth.dart`, `lib/utils/validator.dart`, `lib/to_csv.dart`.

- State: Firebase's current user (kept over restarts) and accounts; the
  Navigator; the spinner flags, the user and the matric number of each screen.
- Operations: restoring a session when Firebase is ready, sign-in, sign-up
  (create, update profile, reload, replace the routes), verify email, refresh,
  sign-out, opening the register camera, Courses, and the screen for lecturers
  (`SendMail`, which has no state and a button that does nothing).
- Hard: the future of the `FutureBuilder` is made in `build`, so each `setState`
  restores again; every handler replaces a route after an await; buttons can be
  tapped again while they wait, and the two fields of the form changed; an exception leaves a spinner on; the app may
  die between the awaits of a sign-up.
- Correct when: the start screen stays at the bottom; a profile shows the student
  who is signed in; whoever is signed in has an account; a spinner turns only while something is under way.

### How they interact
Start screen → LoginScreen → (SignUp →) ProfilePage; from the profile either the
register camera → register preview → Kairos `enroll`, or Courses → camera →
preview → Kairos `recognize` → the script of the sheet. Screens talk by
constructor arguments and share two things: the Navigator, on whose top route every
handler acts, and the services. Since a handler acts on the top route *after*
an await, screens that know nothing of each other interfere through the stack: a
picture that comes late from one camera opens its preview over the loading
dialog of the next course, and the dialog's own pop takes the preview. `App`
is about that. The course a student picks is passed in `RouteSettings`
(`Confirm_Location.dart:76-78`) and read by nobody: no row names a course.

### Not modelled
| Part | Why |
| --- | --- |
| `getCsv`, `_localFile`, `sendMailAndAttachment` of `lib/Attendance/mark_attendance.dart` | Dead code: nothing calls them. In what order and how often they would run is not in the repository, and the mail plugin, which is given a path, reads the file at a time of its own. |
| `lib/Register/Register_page.dart` | Reachable from no screen. |
| `_uploadcapturedImage` (`Register_preview.dart`) | Its call is commented out. |
| What `getFeedbackList` fetches | Nothing reads the list; that it arrives is a flag. `FeedbackForm.fromJson` reads `name` where `toJson` writes `matricno`, so a list read back would have no matric numbers; as nothing shows or exports it, no property can speak of it. |
| The patterns of `lib/utils/validator.dart` | A form is valid or it is not. |
| Widgets, texts, colours, layout | No state. |
| `android/`, `ios/Runner`, `web/` | Runners generated by Flutter. |
| `ios/Pods` | Vendored sources of plugins' dependencies (Firestore, gRPC, BoringSSL, leveldb, abseil and others): nearly all of the repository's files, none of them this program's. What the program relies on in Firebase, the camera and the file system is modelled from how `lib/` calls it. |
| `test/widget_test.dart` | The counter test of the Flutter template; it does not fit this program. |

With this, every operation of `lib/` that a user can reach and that changes
state or the stack of routes is an action of a module.

## The modules

| Module | Models | State | One action per |
| --- | --- | --- | --- |
| `Navigator` | Flutter's stack of routes and the life of screens | `stack`, `life` | call |
| `AttendanceLedger` | what taking attendance promises | pictures' names, the entries | recognition, entry |
| `AttendanceGate` | what the way from a course to a row promises | verdicts, the tap of each picture, the pictures of the rows | verdict, picture, row |
| `StudentAccounts` | what accounts and sessions come to | accounts, sessions still to begin, who is signed in | account made, session begun, lost, ended |
| `MarkAttendance` | preview screen, `recogImage`, `submitForm` | that of the screens, one `pc` per tap, the sheet | user event, reply, failure |
| `ConfirmLocation` | Courses | the fields, the kinds of the routes above the profile, where the phone is | user event, answer, failure, late picture |
| `CameraControl` | `camera_screen.dart` | the fields, one `pc` per run and per capture | user event, end of an await |
| `App` | Courses, camera and previews together | the Navigator, taps, captures, and all of `MarkAttendance` | user event, answer, end of an await |
| `FaceEnrolment` | register camera and preview | the Navigator, `paths`, one `pc` per capture and upload | user event, end of an await |
| `Session` | start, login, sign-up, profile, screen for lecturers, way to Courses | the Navigator, what screens show, unanswered calls, Firebase | user event, reply, restart |
| `...Proofs` | theorems about the module named | | |
| `MC...` | small instances for TLC | | |

`MarkAttendance`, `FaceEnrolment`, `Session` and `App` extend `Navigator`.
`App` instantiates `AttendanceGate` and `MarkAttendance`, which instantiates
`AttendanceLedger`, and `Session` instantiates `StudentAccounts`: each is checked and proved to implement the
one it instantiates.

### Navigator
`stack` is the routes, `life` says of each screen whether it was opened, is
shown, is being left (popped, still mounted) or gone. `Push`, `Pop`,
`PushReplacement` and `PushOnto` (`pushAndRemoveUntil`) act on the top;
`Dispose` ends an exit transition. A screen is opened once: a second visit is
another screen. `Coherent` relates the two variables and is proved of any
program that only makes these calls.

### MarkAttendance
Each tap on Send is a run `c` with a place `pc[c]`: `recognizing` (awaits
`dio.post`), `posting` (the form is built, the script has not run), `ran` (it has,
the answer is on its way), `redirected` (awaits the GET), `done` (callback made)
or `failed` (an exception ended it). `Recognized` stores the reply in `response`
and goes on; `RecognizeFails` is the `DioError` that is only printed, after which
the *old* `response` is parsed; any other exception (`RecognizeThrows`, a picture
that cannot be read) ends the run without parsing. `Proceed` is the rest of `recogImage` and of the
handler: parse, `setState`, `_submitForm`. The form is built and posted whatever
`status` is. The test `images == null && candidates == null`
(`face_recognition.dart:102`) dereferences the images it found missing, so
every answer but a candidate throws, and "Place try again" is never shown:
`Parses` says so.
`PostFails` loses the POST before or after the script has run. `answers` is a
history variable: the candidates the service gave for each screen's picture.

`ImplementsLedger` shows the pipeline to implement `AttendanceLedger`, with
`answers` mapped to the names of a picture and `sheet` to the entries.
`RunsOnlyAdvance` ranks the places of a run: each answer and each failure takes it
further, so that nothing is sent or posted twice. It bounds the steps of a run and not
the time it waits for them, which nothing in the code bounds.

### ConfirmLocation
`Places` are where the phone can be, and `Metres` is what
`getDistanceFromLatLonInMetres` gives of each. `Move` walks while the run waits; the
platform may answer with any place since the tap. `Condition` is `_condition`: it
measures `_currentPosition`, or throws on one that never was there, and then
`hideOpenDialog` is not reached and the dialog stays until the app is killed.
`Judge` is the rest of `onTap`: the pop, the comparison, the camera or the
refusal. `stack` is the kinds of the routes above the profile. A camera may be
left (`leaving`) and yet push a preview on top of the next dialog (`PictureTaken`);
the pop of `Judge` takes what is on top, the preview then, and the dialog stays
under the next camera. So the properties speak of cameras and refusals anywhere on
the stack.

### CameraControl
A run of `_initCameraController` names the controller it makes. `raced` is a
history variable: the runs started while another awaited a dispose. With
`raced` empty the screen is right (`SwitchesInTurnAreSafe`); with it, two runs
await the dispose of the *same* controller and both assign, in either order: one
new controller is leaked, and the one in use may be for the camera selected
first. `LeaksCountRaces` bounds the damage. `TakenBySelectedCamera` is about the
capture, which awaits a directory and then reads `controller`: with `raced` empty it
gets one for the camera of the toggle, or takes no picture, even if a switch has
begun meanwhile or one before has failed to dispose. That the toggle should
"select the camera" (`camera_screen.dart:144`) thus holds only for taps in turn.

### App
A tap `t` on a course has a dialog, a camera and a refusal of its own. `Judge` is
the rest of `onTap` as in `ConfirmLocation`, but the pop of `hideOpenDialog` is
one of the shared stack: it takes whatever is on top, as the code does.
`PictureTaken` pushes a preview on top of everything as long as its camera is
mounted. `late` is a history variable: the pictures displayed while their camera
was being left. `DialogsAreClosed` says that a late picture is the only way to a
dialog left on (besides a position that never was) and that there are never two,
`DialogsLeftOnStay` that a dialog left on stays for good and no course can be tapped
any more, and `ScreensInOrder` what the stack looks like without a late picture. A
run of Send and the network are `MarkAttendance`'s own actions; `ImplementsAttendance`
says that what the previews see, in the order they lie on the stack (`Previews`), is
`MarkAttendance`. The pop of `hideOpenDialog` that takes a preview is then a
preview being left, and what Courses and the camera do with other routes is a
stutter. As `Spec => Att!Spec` is proved, whatever holds of every behaviour of
`MarkAttendance` holds of the whole; the prover cannot cite a theorem through
INSTANCE, so this last step is the reader's (`App` assumes of its constants all
that `MarkAttendance` does). The camera here is the
capture only; its controller is `CameraControl`'s.

`ImplementsGate` states the whole as one promise, over time and not of a state:
`AttendanceGate` judges a tap once, takes a picture once and for a tap that had been
confirmed by then, adds rows of pictures taken, and changes none of this later. The
verdicts that confirm are those beyond 10 metres, as in the code (finding 1). How Courses is left is
`ConfirmLocation`'s.

### FaceEnrolment
The stack lies over the start screen and the profile. `late` is a
history variable: the handlers that acted for a screen that was already being
left. Each may remove one route too many, and `BaseRoutesKept` says that nothing
else does and that each removes at most one.

### Session
Screens are numbered as they are pushed. `pending` is the set of calls not yet
answered: who made each, which await it is at, and the email in the form when it was
made; `nth` numbers the calls that are pending, so that a button tapped twice makes two.
A sign-up goes `create` → `created` (the service has made the account) →
`update` (the reply has signed the user in) → the profile; it can fail or lose
its reply at each. `Builds` are the `initializeApp` futures that builds of a login
screen have made: one when it is opened, one for each `setState` of the sign-in; the
form is there when that of the last build is answered (`Ready`), and those of earlier
builds, `superseded`, act all the same. The two fields of the form to sign up, `user`
(the email) and `matnumber`, are independent and can be changed at any time.

`spinning` is the spinners that turn, `stuck` those of them an invalid form or
an exception has left on (`Signup_page.dart:124`, `Profile_page.dart:77`,
`LoginScreen.dart:105`).

Two history variables name what goes wrong. `late`, for `StartKept`: a handler acted on
the Navigator for a screen being left, as above. `astray`, for `ProfileIsOwn`:
someone was signed in or out by a screen that was not on top, or while another
student's sign-up was still to show its profile, or a session was restored over a
profile. `ProfileIsOwn` says that nothing else puts a profile under another session: not a
restored session that is answered late, from several builds, or for a screen being
left, nor a refresh, an update that fails, a form changed meanwhile or buttons
tapped again. It says nothing of the matric number, which the program relates to
the account in no way. That a session can be restored over a profile takes more
routes than the run has: one build of a
login screen that lies under a sign-up is answered and puts a profile in the
place of the sign-up, the profile opens Courses, and another build's answer puts
a second profile in the place of Courses.

Sign-in sends the texts of two controllers that belong to no field
(`LoginScreen.dart:107-108`), so it is always refused; it is modelled as it is.
A restored session gets a profile without matric number (`LoginScreen.dart:41`),
and Register Face Picture then enrols under the empty subject id; `matnumber`
records it as `Null` (finding 6).

`ImplementsAccounts` maps the sessions still to begin to the sign-ups whose account was
made and whose reply is on its way. It says what sign-up, restored sessions,
sign-in as it is and sign-out come to: a student's session begins once, with the
reply that made the account, and if that reply is lost, or after a sign-out, that
student is never signed in again on any path through the screens.

## The runs

| Run | Instance | Question |
| --- | --- | --- |
| `attendance` | 2 pictures, 2 taps, 2 students, confidences 65 and 66 | Is every row, snackbar and screen right, is the ledger implemented, and does a tap only advance? |
| `app` | 2 taps on a course, 2 pictures, 1 Send, distances 10 and 11 | Does every row go back to a confirmed position, what do late pictures do to dialogs, does a dialog left on stay, are `MarkAttendance` and `AttendanceGate` implemented? |
| `location` | four places, 0, 10, 11 and 500 metres away, 4 routes | Is each verdict about the position last obtained, and each position of this screen? |
| `camera` | 2 cameras, 4 runs, 2 captures | What do overlapping switches and captures cost, and which camera takes a picture? |
| `enrolment` | 2 visits, 2 pictures, 3 uploads | Do handlers keep the routes below them, and do screens pile up? |
| `session` | 2 students, 3 routes, 2 unanswered calls | Does the start screen stay, are profiles their students' own, do spinners stop, is `StudentAccounts` implemented? |
| `true_means_own_face` | finding | Is `status` true only for one's own face? |
| `confirmed_means_in_class` | finding | Is the location confirmed for those in class? |
| `displays_the_picture_taken` | finding | Does the preview show what it uploads? |
| `uploaded_means_enrolled` | finding | Has the service what 'IMAGE UPLOADED' is said of? |
| `signs_in_with_what_was_entered` | finding | Is the email sent the one entered? |
| `registers_under_a_matric_number` | finding | Does the register camera have a matric number to register under? |

### Why the bounds are enough
- `attendance`: two pictures so that one screen's answer could reach another's row;
  two taps so that runs overlap on one screen and on two; 65 and 66 are the two sides
  of `> 65`. What more taps could add is settled by the proofs, which
  bound nothing.
- `app`: two taps and two pictures are what it takes for a late picture to meet
  another tap's dialog, and for two previews to pile up; one Send and one student,
  as `attendance` has the rest. 10 and 11 are the two sides of `> 10`. Taps are
  interchangeable, and so are pictures; as no liveness is checked, TLC may use that.
- `location`: 10 and 11 again, 0 is the value the field
  starts with, 500 a second place to go astray to. Four routes let a late preview come
  over the dialog, the pop of `hideOpenDialog` take it, and the next camera lie over the
  dialog that stays, with a preview of its own. Taps and visits are not bounded.
- `camera`: the first run and three switches, so that a switch can start while
  two others dispose; two cameras suffice for a wrong one.
- `enrolment`: three uploads and two captures can pop more routes than there are.
- `session`: three routes are login, sign-up and profile, or, after a restart, a login,
  the restored profile and one screen more; two calls let every pair of handlers
  overlap; two students, who are interchangeable, let one's screens meet the other's
  session. 454,870 states. A fourth route makes many millions: too many for a run of
  minutes on a slow machine. This is
  the one run known to be too small for a case (the session restored over a
  profile); the proof of `ProfileIsOwn`, which bounds nothing, covers it.

`CHECK_DEADLOCK FALSE` is set where the taps, pictures or routes of the instance
can run out, or the user may stop. In `location` taps do not run out and deadlock
is checked.

### Fairness
None is assumed. Neither `dio` nor `http` is given a timeout by this code, so a peer
that stays silent hangs a run of Send; `getCurrentPosition` is called without a time
limit, and a platform without a fix may never answer; Firebase queues the calls of a
phone that is offline. So no module claims anything about the end of a wait, and no
liveness is checked. What is left of it is safety: `RunsOnlyAdvance` says that a
run of Send that is answered goes on and never back, `DialogsAreClosed` which waits
leave a dialog on when they end, and `SpinnersStop` that a spinner that turns has a
call to wait for, not that the call is answered.

## What the proofs show

The theorems hold for every number of screens, taps, pictures, calls and students,
any confidences and any distances. The named assumptions on the constants say
that special values are distinct, that numbers are numbers, which routes there are,
and, in `CameraControl`, that runs can be counted (`IsFiniteSet(Inits)`). TLC evaluates
them in each run.

In each module `Invariance` is `Spec => []IInv`, and the others follow from it.

| Module | Theorems besides `Invariance` |
| --- | --- |
| `NavigatorProofs` | `NavTyped`, `NavCoherent`, `LivesGoForward`: of each call, and so of any program made of them; the four modules over the Navigator use them |
| `MarkAttendanceProofs` | `TypeCorrect`, `RowsAreRecognised`, `AtMostOneRow`, `Truthful`, `ScreensCohere`; `RunsAdvance` (an action property); `Refinement`: `Spec => Ledger!Spec` |
| `ConfirmLocationProofs` | `TypeCorrect`, `VerdictIsMeasured`, `PositionIsThisScreens` |
| `CameraControlProofs` | `TypeCorrect`, `SwitchesInTurn`, `LeaksAreCounted`; `PicturesBySelected` (an action property) |
| `AppProofs` | `TypeCorrect`, `RowsComeFromConfirmedTaps`, `CoursesStaysBelow`, `ScreensStayInOrder`, `DialogsAreExplained`; `DialogsLeftOnRemain` (an action property); `Refinement`: `Spec => Att!Spec`; `GateRefinement`: `Spec => Gate!Spec` |
| `FaceEnrolmentProofs` | `TypeCorrect`, `BaseRoutesAreKept`, `ScreensDoNotPileUp` |
| `SessionProofs` | `TypeCorrect`, `StartStaysBelow`, `ProfilesAreOwn`, `UsersHaveAccounts`, `SpinnersDoStop`; `Refinement`: `Spec => Students!Spec` |

### The inductive invariants, and why they are needed

**MarkAttendance.** That rows are recognised is not inductive: a row is
written from `matricno`, which was set from a `response`, which may be stale. `IInv`
follows a name along this way. `ResponseAnswered`: a response that parses was
answered for this screen, so a stale one is about the same picture (this is where
it matters that `FaceRecognition` belongs to the screen). `RunInOrder`: a run has
a form only for a student among its screen's answers, has no status before the
script ran, and a row only if the status is SUCCESS, which is also what the
snackbar goes by. `RowsFromRuns`: a row is its run's form. With these,
`RowsRecognised` and `ToldTheTruth` follow, and `OneRowPerSend` is inductive as a run
that is still to write has status `none`.

**ConfirmLocation.** `CoursesBelow`: Courses is nowhere but at the bottom, so that it is
on top only if nothing else is there. `RunWaits`: while a run waits there is no camera and no refusal, whatever
previews have come over the dialog, so the verdict it adds is the only one and is about the
position it has just measured; and the places since the tap are among those
visited since the screen was opened, as is the phone's own.

**CameraControl.** `Lives` orders the life of a controller. `InTurn` says that
without a race one run at a time is between the controller it disposed and the
one it makes, for the selected camera. `Paid` is an account: controllers leaked,
plus those that runs now disposing are going to leak, are no more than the runs that
raced. All runs that dispose have read the same controller, so all but the
first to assign leak one; the "+ 1" is that first one, and is there once the
controller they share has been disposed. `PicturesBySelected` needs one thing more,
`Usable`: `InTurn` says nothing of the current controller once a run has failed, and
a later run makes a good one again; whatever is there and not disposed is for the
selected camera.

**App.** `OneLocates`: one run waits at a time, and its dialog is shown. A tap needs
Courses on top, hence nothing above it, hence no dialog of a run. So
the pop of `hideOpenDialog` finds something above Courses, whatever it is, which
is `CoursesStays`. `CamerasConfirmed`, `PicturesTaken` and `SentFromPreviews` follow
a row back: its preview was opened for a picture, the picture taken by a camera
that was opened, the camera by a run that has judged a position beyond the
limit, and neither the run nor its verdict changes again, as runs are
judged once.
`Order` is `ScreensInOrder` route by route, so that a push or a pop disturbs only
the last. `DialogsLow`: a dialog that is shown is the route right above Courses,
whatever came on top of it; so there is one at most, and while it is there no other
course can be tapped. `DialogsExplained` then needs the moment a run is judged: in
time the route on top is the run's own dialog, by `Order`, and the pop takes it;
only with a late picture may it take a preview. `AttTyped` types what
the previews keep, and says that a form is posted with a student on it, which is
what the answer to a request is typed by. For the refinement, `Nth` counts the
previews on the stack: `PreviewsAppend` and `PreviewsPop` say that a route pushed or
popped changes the sequence of previews at its end, or not at all if it is none,
by the cardinalities of `FiniteSetTheorems` and without induction over the stack.
For `AttendanceGate`, `Once` adds that only runs that are done have been judged and
only pictures tapped for belong to a tap: a verdict or an origin that is set is
never set again.

**FaceEnrolment.** `OnTopOnly`: no screen of the module is under another. So a pop
or replacement by a handler whose screen is shown takes that screen, and one
whose screen is being left is `late`; `LateOnce` lets each handler be so once.
`RunsHaveScreens` ties runs to screens that were opened.

**Session.** `CallsFit`: a call was made by a screen of the kind that makes it,
and while it is mounted it still is one. `Accounts`: a sign-up that was
answered has made its account, and is the only one that has made it (`OneReply`), from
which `Refinement` follows: once that reply has begun the session there is no other. `TopOnly`: forms, cameras and Courses are never
covered. `ProfileNearTop`: without slips, a profile is on top, or right under the
camera or the Courses it opened; so a second profile can only replace the
first. `SignUpsFit`: without slips, a sign-up that was answered and is still to show
its profile is that of the student signed in, as long as its form is mounted: the
session began while the form was on top, and whoever signed in or out since
was `astray`. With these,
`ProfileIsOwn` survives each handler that opens a profile or changes the
current user. `Spinning` adds to `SpinnersStop` that spinners go with their screens.

### What is only model-checked
Nothing: every property of a passing run is stated by a theorem. The findings are shown
by TLC alone.

## Findings

Each is a run in which TLC finds the state; `PROJECT.json` quotes the sources.

1. The location is confirmed for those *away* from the lecture room and refused
   within 10 metres of it (`Confirm_Location.dart:62`).
2. `recogImage` says it returns true if the image is of the name; it takes no
   name, so any enrolled face is "recognised" and recorded
   (`face_recognition.dart:113`).
3. From the second picture on, the register preview shows the first picture and
   uploads another (`Register_preview.dart:47`).
4. 'IMAGE UPLOADED' is shown also when the request failed or the service refused
   (`Register_preview.dart:67`).
5. Nobody can sign in: the fields and the request use different controllers
   (`LoginScreen.dart:107`).
6. A restored session opens the profile with an empty matric number, and Register Face
   Picture enrols the face under it (`LoginScreen.dart:41`).

## The plan

Done: every part of the inventory that has state and that a user can reach is
modelled, checked and has theorems.

What could still be added, in this order:
1. `App` with `CameraControl` in place of the plain capture, so that a late
   picture may also be one of a controller that was leaked. Nothing
   in the two modules depends on the other's state but the life of the screen.
2. `Session` and `FaceEnrolment` over one stack: the register camera is opened by the
   profile, and a handler of either may take a route of the other.
