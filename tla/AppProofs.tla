------------------------------ MODULE AppProofs ------------------------------
(***************************************************************************)
(* Proofs about App, for any numbers of taps, pictures, attempts to send   *)
(* and students.                                                           *)
(***************************************************************************)
EXTENDS App, NavigatorProofs, FiniteSetTheorems, TLAPS

(* The types of what the previews keep, and that a form is posted with a   *)
(* student on it.                                                          *)
AttTyped ==
  /\ feedbackItems \in [Shots -> BOOLEAN]
  /\ response \in [Shots -> Att!Reply \union {Att!NullReply}]
  /\ status \in [Shots -> BOOLEAN]
  /\ studentId \in [Shots -> Students \union {YetToBeTaken}]
  /\ pc \in [Sends -> Att!Places]
  /\ screen \in [Sends -> Shots \union {Null}]
  /\ matricno \in [Sends -> Students \union {Null}]
  /\ saved \in [Sends -> {"none", "SUCCESS", "ERROR"}]
  /\ told \in [Sends -> {"nothing", "Attendance Uploaded", "Error Occurred!"}]
  /\ sheet \in Seq(Att!Row)
  /\ answers \in [Shots -> SUBSET Att!Candidate]
  /\ \A c \in Sends : pc[c] = "posting" => matricno[c] \in Students

Typed ==
  /\ NavTypeOK
  /\ AttTyped
  /\ run \in [Taps -> {"none", "locating", "thrown", "done"}]
  /\ currentPosition \in Distances \union {Null}
  /\ judged \in [Taps -> Distances \union {Null}]
  /\ shot \in [Shots -> {"idle", "taking", "displayed", "failed"}]
  /\ origin \in [Shots -> Taps \union {Null}]
  /\ late \subseteq Shots

(* One run waits for a position at a time, and its dialog is there. *)
OneLocates ==
  /\ \A t \in Taps : run[t] = "locating" => life[Loading(t)] = "shown"
  /\ \A t, u \in Taps : run[t] = "locating" /\ run[u] = "locating" => t = u

(* A camera was opened by a tap whose run has confirmed a position. *)
CamerasConfirmed ==
  \A t \in Taps : life[Camera(t)] # "unopened" =>
    run[t] = "done" /\ judged[t] \in Distances /\ judged[t] > 10

(* A picture is of a camera that was opened, and a preview of a picture. *)
PicturesTaken ==
  \A p \in Shots :
    /\ shot[p] \in {"taking", "displayed"} =>
          origin[p] \in Taps /\ life[Camera(origin[p])] # "unopened"
    /\ life[p] # "unopened" => shot[p] = "displayed"

(* Runs of Send and the rows that come of them are of previews opened. *)
SentFromPreviews ==
  /\ \A c \in Sends : pc[c] # "idle" =>
        screen[c] \in Shots /\ life[screen[c]] # "unopened"
  /\ \A i \in DOMAIN sheet :
        sheet[i].screen \in Shots /\ life[sheet[i].screen] # "unopened"

(* The order of the screens, route by route. *)
Order ==
  late = {} =>
    \/ Len(stack) = 1
    \/ \E t \in Taps :
          \/ Len(stack) = 2 /\ stack[2] \in {Loading(t), Refusal(t)}
          \/ /\ Len(stack) > 1 /\ stack[2] = Camera(t)
             /\ \A i \in 3..Len(stack) : stack[i] \in Shots /\ origin[stack[i]] = t

(* A dialog lies on Courses itself, whatever comes on top of it. *)
DialogsLow == \A t \in Taps : DialogShown(t) => Len(stack) > 1 /\ stack[2] = Loading(t)

(* Why a dialog is shown. *)
DialogsExplained ==
  \A t \in Taps : DialogShown(t) =>
    \/ run[t] = "locating"
    \/ run[t] = "thrown" /\ currentPosition = Null
    \/ run[t] = "done" /\ late # {}

ScreensKept == Order /\ DialogsLow /\ DialogsExplained

IInv == /\ Typed /\ Coherent /\ CoursesStays
        /\ OneLocates /\ CamerasConfirmed /\ PicturesTaken /\ SentFromPreviews
        /\ ScreensKept

-----------------------------------------------------------------------------
(* The routes. *)

LEMMA Routes ==
  /\ Courses \notin Screens /\ Courses \in Base /\ Shots \subseteq Screens
  /\ \A t \in Taps : /\ Loading(t) \in Screens /\ Camera(t) \in Screens
                     /\ Refusal(t) \in Screens /\ Loading(t) \notin Shots
                     /\ Camera(t) \notin Shots /\ Refusal(t) \notin Shots
  /\ \A t, u \in Taps : /\ Loading(t) = Loading(u) => t = u
                        /\ Camera(t) = Camera(u) => t = u
                        /\ Loading(t) # Camera(u) /\ Refusal(t) # Camera(u)
                        /\ Loading(t) # Refusal(u)
  /\ Null \notin Taps /\ Null \notin Distances /\ Distances \subseteq Nat
BY ScreensAssumption, NavigatorAssumption DEF Loading, Camera, Refusal

LEMMA StackFacts ==
  ASSUME NavTypeOK, Coherent
  PROVE  /\ stack \in Seq(Base \union Screens) /\ Len(stack) \in Nat
         /\ DOMAIN stack = 1..Len(stack)
         /\ \A i, j \in 1..Len(stack) : stack[i] = stack[j] => i = j
         /\ \A s \in Screens : life[s] = "shown" <=> \E i \in 1..Len(stack) : stack[i] = s
         /\ stack # <<>> => Len(stack) > 0 /\ Last(stack) = stack[Len(stack)]
<1>1. stack \in Seq(Base \union Screens)
  BY DEF NavTypeOK
<1>2. DOMAIN stack = 1..Len(stack) /\ Len(stack) \in Nat
  BY <1>1
<1>3. stack # <<>> => Len(stack) > 0 /\ Last(stack) = stack[Len(stack)]
  BY <1>1 DEF Last
<1>4. QED
  BY <1>1, <1>2, <1>3 DEF Coherent

(* Each step is one of the Navigator, or none. *)
LEMMA NextNav == [Next]_vars => [NavStep]_navVars
<1> SUFFICES ASSUME [Next]_vars PROVE [NavStep]_navVars
  OBVIOUS
<1>1. CASE GoBack
  BY <1>1 DEF GoBack, NavStep
<1>2. ASSUME NEW s \in Screens, Unmount(s) PROVE [NavStep]_navVars
  BY <1>2 DEF Unmount, NavStep
<1>3. ASSUME NEW t \in Taps, TapCourse(t) PROVE [NavStep]_navVars
  BY <1>3, Routes DEF TapCourse, NavStep
<1>4. ASSUME NEW t \in Taps, Judge(t) PROVE [NavStep]_navVars
  <2>1. Verdict(t) \in Screens
    BY Routes DEF Verdict
  <2>2. PushReplacement(Verdict(t)) \/ UNCHANGED navVars
    BY <1>4 DEF Judge
  <2>3. QED
    BY <2>1, <2>2 DEF NavStep
<1>5. ASSUME NEW p \in Shots, PictureTaken(p) PROVE [NavStep]_navVars
  BY <1>5, Routes DEF PictureTaken, NavStep
<1>6. QED
  BY <1>1, <1>2, <1>3, <1>4, <1>5
  DEF Next, vars, PositionArrives, PositionFails, TapCapture, CaptureFails, ListArrives,
      Send, Network

(* What a step of the Navigator keeps. *)
LEMMA NavKept ==
  ASSUME NavTypeOK, Coherent, [Next]_vars
  PROVE  /\ NavTypeOK' /\ Coherent'
         /\ \A s \in Screens : life[s] # "unopened" => life'[s] # "unopened"
<1>1. [NavStep]_navVars
  BY NextNav
<1>2. ASSUME NEW s \in Screens, life[s] # "unopened" PROVE life'[s] # "unopened"
  BY <1>1, <1>2, LivesGoForward
<1>3. QED
  BY <1>1, <1>2, NavTyped, NavCoherent

(* No route but Courses can be under the first, and no dialog is lost.     *)
LEMMA PushFacts ==
  ASSUME NavTypeOK, Coherent, CoursesStays, NEW n \in Screens, Push(n)
  PROVE  /\ CoursesStays' /\ life[n] = "unopened" /\ life'[n] = "shown"
         /\ \A s \in Screens \ {n} : life'[s] = life[s]
         /\ Len(stack') = Len(stack) + 1 /\ stack'[Len(stack) + 1] = n
         /\ \A i \in 1..Len(stack) : stack'[i] = stack[i]
<1>1. stack' = Append(stack, n) /\ life' = [life EXCEPT ![n] = "shown"]
      /\ life[n] = "unopened"
  BY DEF Push
<1>2. \A s \in Screens : life'[s] = IF s = n THEN "shown" ELSE life[s]
  BY <1>1 DEF NavTypeOK
<1>3. stack # <<>> /\ stack[1] = Courses /\ Len(stack) > 0
  BY StackFacts DEF CoursesStays
<1>4. /\ stack' # <<>> /\ stack'[1] = Courses /\ stack' \in Seq(Base \union Screens)
      /\ Len(stack') = Len(stack) + 1 /\ stack'[Len(stack) + 1] = n
      /\ \A i \in 1..Len(stack) : stack'[i] = stack[i]
  BY <1>1, <1>3, StackFacts
<1>5. CoursesStays'
  BY <1>4 DEF CoursesStays
<1>6. QED
  BY <1>1, <1>2, <1>4, <1>5

LEMMA PopFacts ==
  ASSUME NavTypeOK, Coherent, CoursesStays, Pop, Last(stack) # Courses
  PROVE  /\ CoursesStays'
         /\ \A s \in Screens : life'[s] = IF OnTop(s) THEN "leaving" ELSE life[s]
         /\ Len(stack) > 1 /\ Len(stack') = Len(stack) - 1
         /\ \A i \in 1..(Len(stack) - 1) : stack'[i] = stack[i]
<1>1. stack # <<>> /\ stack' = Front(stack) /\ stack[1] = Courses
  BY StackFacts DEF Pop, CoursesStays
<1>2. Len(stack) > 1 /\ Len(stack) \in Nat
  BY <1>1, StackFacts
<1>3. /\ Front(stack) \in Seq(Base \union Screens) /\ Len(Front(stack)) = Len(stack) - 1
      /\ \A i \in 1..(Len(stack) - 1) : Front(stack)[i] = stack[i]
  <2>1. stack \in Seq(Base \union Screens)
    BY StackFacts
  <2>2. QED
    BY <1>1, <2>1, FrontAndLast
<1>4. stack' # <<>> /\ stack'[1] = Courses /\ stack' \in Seq(Base \union Screens)
  BY <1>1, <1>2, <1>3
<1>5. CoursesStays'
  BY <1>4 DEF CoursesStays
<1>6. \A s \in Screens : life'[s] = IF OnTop(s) THEN "leaving" ELSE life[s]
  BY <1>1 DEF Pop, Without, OnTop
<1>7. QED
  BY <1>1, <1>2, <1>3, <1>5, <1>6

LEMMA ReplaceFacts ==
  ASSUME NavTypeOK, Coherent, CoursesStays, NEW n \in Screens, PushReplacement(n),
         Last(stack) # Courses
  PROVE  /\ CoursesStays' /\ life[n] = "unopened"
         /\ \A s \in Screens \ {n} : life'[s] = IF OnTop(s) THEN "leaving" ELSE life[s]
         /\ \A s \in Screens \ {n} : life[s] # "shown" => life'[s] = life[s]
         /\ Len(stack) > 1 /\ Len(stack') = Len(stack) /\ stack'[Len(stack)] = n
         /\ \A i \in 1..(Len(stack) - 1) : stack'[i] = stack[i]
<1>1. /\ stack # <<>> /\ stack' = Append(Front(stack), n) /\ stack[1] = Courses
      /\ life[n] = "unopened"
  BY StackFacts DEF PushReplacement, CoursesStays
<1>2. Len(stack) > 1 /\ Len(stack) \in Nat
  BY <1>1, StackFacts
<1> DEFINE q == Front(stack)
<1>3. /\ q \in Seq(Base \union Screens) /\ Len(q) = Len(stack) - 1
      /\ q[1] = stack[1] /\ \A i \in 1..(Len(stack) - 1) : q[i] = stack[i]
  <2>1. stack \in Seq(Base \union Screens)
    BY StackFacts
  <2>2. /\ q \in Seq(Base \union Screens) /\ Len(q) = Len(stack) - 1
        /\ \A i \in 1..(Len(stack) - 1) : q[i] = stack[i]
    BY <1>1, <2>1, FrontAndLast
  <2>3. QED
    BY <1>2, <2>2
<1>4. stack' = Append(q, n)
  BY <1>1
<1> HIDE DEF q
<1>5. /\ stack' # <<>> /\ stack'[1] = Courses /\ stack' \in Seq(Base \union Screens)
      /\ Len(stack') = Len(stack) /\ stack'[Len(stack)] = n
      /\ \A i \in 1..(Len(stack) - 1) : stack'[i] = stack[i]
  BY <1>1, <1>2, <1>3, <1>4
<1>6. CoursesStays'
  BY <1>5 DEF CoursesStays
<1>7. \A s \in Screens : s = Last(stack) => life[s] = "shown"
  BY <1>1, <1>2, StackFacts
<1>8. \A s \in Screens \ {n} : life'[s] = IF OnTop(s) THEN "leaving" ELSE life[s]
  BY <1>1 DEF PushReplacement, Without, OnTop
<1>9. \A s \in Screens \ {n} : life[s] # "shown" => life'[s] = life[s]
  BY <1>7, <1>8 DEF OnTop
<1>10. QED
  BY <1>1, <1>2, <1>5, <1>6, <1>8, <1>9

(* A dialog that is shown lies on Courses. *)
LEMMA DialogOnCourses ==
  ASSUME NavTypeOK, Coherent, CoursesStays, NEW s \in Screens, life[s] = "shown"
  PROVE  Last(stack) # Courses
<1>1. PICK i \in 1..Len(stack) : stack[i] = s
  BY StackFacts
<1>2. stack # <<>> /\ stack[1] = Courses /\ s # Courses
  BY StackFacts, Routes DEF CoursesStays
<1>3. i # 1 /\ Len(stack) \in Nat /\ Last(stack) = stack[Len(stack)]
  BY <1>1, <1>2, StackFacts
<1>4. Len(stack) # 1 /\ Len(stack) > 0
  BY <1>1, <1>3
<1>5. QED
  BY <1>2, <1>3, <1>4, StackFacts

-----------------------------------------------------------------------------
(* The steps of the previews. *)

(* What a run of Send is about, and what parsed, are known. *)
LEMMA AnswersParse ==
  ASSUME NEW r \in Att!Reply \union {Att!NullReply}, Att!Parses(r)
  PROVE  /\ Att!screenInfo(r).subjectId \in Students
         /\ Att!screenInfo(r).status \in BOOLEAN
BY DEF Att!Reply, Att!NullReply, Att!Parses, Att!Candidate, Att!screenInfo

LEMMA ProceedFacts ==
  ASSUME AttTyped, NEW c \in Sends, pc[c] = "recognizing", screen[c] \in Shots,
         NEW r \in Att!Reply \union {Att!NullReply}, Att!Proceed(c, r)
  PROVE  /\ status' \in [Shots -> BOOLEAN]
         /\ studentId' \in [Shots -> Students \union {YetToBeTaken}]
         /\ matricno' \in [Sends -> Students \union {Null}]
         /\ pc' \in [Sends -> Att!Places]
         /\ UNCHANGED <<feedbackItems, screen, saved, told, sheet>>
         /\ \A k \in Sends : pc'[k] # "idle" => pc[k] # "idle"
         /\ \A k \in Sends : pc'[k] = "posting" => matricno'[k] \in Students
<1>1. UNCHANGED <<feedbackItems, screen, saved, told, sheet>>
  BY DEF Att!Proceed
<1>2. CASE Att!Parses(r) /\ Att!Submit(c, r)
  <2>1. /\ Att!screenInfo(r).subjectId \in Students
        /\ Att!screenInfo(r).status \in BOOLEAN
    BY <1>2, AnswersParse
  <2>2. /\ status' = [status EXCEPT ![screen[c]] = Att!screenInfo(r).status]
        /\ studentId' = [studentId EXCEPT ![screen[c]] = Att!screenInfo(r).subjectId]
    BY <1>2 DEF Att!Submit
  <2>3. studentId'[screen[c]] \in Students
    BY <2>1, <2>2 DEF AttTyped
  <2>4. /\ matricno' = [matricno EXCEPT ![c] = studentId'[screen[c]]]
        /\ pc' = [pc EXCEPT ![c] = "posting"]
    BY <1>2 DEF Att!Submit, Att!Goto
  <2>5. pc' \in [Sends -> Att!Places]
    BY <2>4 DEF AttTyped, Att!Places
  <2>6. \A k \in Sends : pc'[k] # "idle" => pc[k] # "idle"
    BY <2>4 DEF AttTyped
  <2>7. studentId' \in [Shots -> Students \union {YetToBeTaken}]
    BY <2>1, <2>2 DEF AttTyped
  <2>8. matricno' \in [Sends -> Students \union {Null}]
    BY <2>3, <2>4 DEF AttTyped
  <2>9. status' \in [Shots -> BOOLEAN]
    BY <2>1, <2>2, Zenon DEF AttTyped
  <2>10. \A k \in Sends : pc'[k] = "posting" => matricno'[k] \in Students
    BY <2>3, <2>4 DEF AttTyped
  <2>11. QED
    BY <1>1, <2>5, <2>6, <2>7, <2>8, <2>9, <2>10
<1>3. CASE /\ pc' = [pc EXCEPT ![c] = "failed"]
           /\ UNCHANGED <<status, studentId, matricno>>
  <2>1. /\ pc' \in [Sends -> Att!Places]
        /\ \A k \in Sends : pc'[k] # "idle" => pc[k] # "idle"
        /\ \A k \in Sends : pc'[k] = "posting" => pc[k] = "posting"
    BY <1>3 DEF AttTyped, Att!Places
  <2>2. status' \in [Shots -> BOOLEAN]
    BY <1>3 DEF AttTyped
  <2>3. QED
    BY <1>1, <1>3, <2>1, <2>2 DEF AttTyped
<1>4. QED
  BY <1>2, <1>3 DEF Att!Proceed, Att!Goto

(* A run that is under way goes on, and what it is about stays. *)
LEMMA RunGoesOn ==
  ASSUME AttTyped, NEW c \in Sends, pc[c] # "idle",
         NEW place \in Att!Places \ {"posting"}, Att!Goto(c, place)
  PROVE  /\ pc' \in [Sends -> Att!Places]
         /\ \A k \in Sends : pc'[k] # "idle" => pc[k] # "idle"
         /\ \A k \in Sends : pc'[k] = "posting" => pc[k] = "posting"
BY DEF AttTyped, Att!Goto

Opened == \A p \in Shots : life[p] # "unopened" => life'[p] # "unopened"

(* If no run starts and no row is written, the previews may go on. *)
LEMMA SentStays ==
  ASSUME SentFromPreviews, Opened, screen' = screen, sheet' = sheet,
         \A k \in Sends : pc'[k] # "idle" => pc[k] # "idle"
  PROVE  SentFromPreviews'
BY DEF SentFromPreviews, Opened

(* What a run has recognised or posted stays, wherever the run goes. *)
LEMMA FormsKept ==
  ASSUME AttTyped,
         UNCHANGED <<feedbackItems, response, status, studentId, screen, matricno, answers>>,
         pc' \in [Sends -> Att!Places],
         saved' \in [Sends -> {"none", "SUCCESS", "ERROR"}],
         told' \in [Sends -> {"nothing", "Attendance Uploaded", "Error Occurred!"}],
         sheet' \in Seq(Att!Row),
         \A k \in Sends : pc'[k] = "posting" => pc[k] = "posting"
  PROVE  AttTyped'
BY DEF AttTyped, Att!Row, Att!Places

(* The recognition answers, or what it answered before is parsed again. *)
LEMMA RecognitionSteps ==
  ASSUME AttTyped, SentFromPreviews, Opened, NEW c \in Sends,
         pc[c] = "recognizing", NEW r \in Att!Reply \union {Att!NullReply},
         Att!Proceed(c, r), response' \in [Shots -> Att!Reply \union {Att!NullReply}],
         answers' \in [Shots -> SUBSET Att!Candidate]
  PROVE  AttTyped' /\ SentFromPreviews'
<1>1. screen[c] \in Shots
  BY DEF SentFromPreviews
<1>2. /\ status' \in [Shots -> BOOLEAN]
      /\ studentId' \in [Shots -> Students \union {YetToBeTaken}]
      /\ matricno' \in [Sends -> Students \union {Null}]
      /\ pc' \in [Sends -> Att!Places]
      /\ UNCHANGED <<feedbackItems, screen, saved, told, sheet>>
      /\ \A k \in Sends : pc'[k] # "idle" => pc[k] # "idle"
      /\ \A k \in Sends : pc'[k] = "posting" => matricno'[k] \in Students
  BY <1>1, ProceedFacts
<1>3. feedbackItems' \in [Shots -> BOOLEAN]
  BY <1>2 DEF AttTyped
<1>4. AttTyped'
  <2>1. /\ screen' \in [Sends -> Shots \union {Null}]
        /\ saved' \in [Sends -> {"none", "SUCCESS", "ERROR"}]
        /\ told' \in [Sends -> {"nothing", "Attendance Uploaded", "Error Occurred!"}]
        /\ sheet' \in Seq(Att!Row)
    BY <1>2 DEF AttTyped
  <2>2. QED
    BY <1>2, <1>3, <2>1, Zenon DEF AttTyped, Att!NullReply, Att!Places, Att!Reply,
       Att!Candidate, Att!Row
<1>5. QED
  BY <1>2, <1>4, SentStays

(* A call of the recognition, of the script, of the redirect. *)
LEMMA NetworkSteps ==
  ASSUME AttTyped, SentFromPreviews, Opened, NEW c \in Sends, Att!Network(c)
  PROVE  AttTyped' /\ SentFromPreviews'
<1>1. ASSUME NEW r \in Att!Reply, Att!Recognized(c, r)
      PROVE  AttTyped' /\ SentFromPreviews'
  <2>1. pc[c] = "recognizing" /\ Att!Proceed(c, r)
    BY <1>1 DEF Att!Recognized
  <2>2. screen[c] \in Shots
    BY <2>1 DEF SentFromPreviews
  <2>3. response' \in [Shots -> Att!Reply \union {Att!NullReply}]
    BY <1>1, <2>2 DEF Att!Recognized, AttTyped
  <2>4. answers' \in [Shots -> SUBSET Att!Candidate]
    <3>1. Att!Parses(r) => r \in Att!Candidate
      BY DEF Att!Parses, Att!Reply
    <3>2. QED
      BY <1>1, <2>2, <3>1 DEF Att!Recognized, AttTyped
  <2>5. QED
    BY <2>1, <2>3, <2>4, RecognitionSteps
<1>2. CASE Att!RecognizeFails(c)
  <2>1. /\ pc[c] = "recognizing" /\ Att!Proceed(c, response[screen[c]])
        /\ response' = response /\ answers' = answers
    BY <1>2 DEF Att!RecognizeFails
  <2>2. response[screen[c]] \in Att!Reply \union {Att!NullReply}
    BY <2>1 DEF SentFromPreviews, AttTyped
  <2>3. /\ response' \in [Shots -> Att!Reply \union {Att!NullReply}]
        /\ answers' \in [Shots -> SUBSET Att!Candidate]
    BY <2>1 DEF AttTyped
  <2>4. QED
    BY <2>1, <2>2, <2>3, RecognitionSteps
<1>3. CASE Att!ScriptRuns(c)
  <2>1. /\ pc[c] = "posting" /\ Att!Goto(c, "ran")
        /\ UNCHANGED <<feedbackItems, response, status, studentId, screen, matricno,
                       told, answers>>
    BY <1>3 DEF Att!ScriptRuns, Att!screenVars
  <2>2. /\ pc' \in [Sends -> Att!Places]
        /\ \A k \in Sends : pc'[k] # "idle" => pc[k] # "idle"
        /\ \A k \in Sends : pc'[k] = "posting" => pc[k] = "posting"
    BY <2>1, RunGoesOn DEF Att!Places
  <2> DEFINE row == [send |-> c, screen |-> screen[c], matricno |-> matricno[c]]
             Rows == Att!Row
  <2>3. screen[c] \in Shots /\ life[screen[c]] # "unopened"
    BY <2>1 DEF SentFromPreviews
  <2>4. row \in Rows
    BY <2>1, <2>3 DEF AttTyped, Att!Row
  <2>5. sheet' = Append(sheet, row) \/ sheet' = sheet
    BY <1>3 DEF Att!ScriptRuns
  <2>6. row.screen = screen[c]
    OBVIOUS
  <2> HIDE DEF row, Rows
  <2>7. sheet \in Seq(Rows)
    BY DEF AttTyped, Rows
  <2>8. sheet' \in Seq(Rows)
    BY <2>4, <2>5, <2>7
  <2>9. \A i \in DOMAIN sheet' : \/ i \in DOMAIN sheet /\ sheet'[i] = sheet[i]
                                \/ sheet'[i] = row
    BY <2>4, <2>5, <2>7
  <2>10. saved' \in [Sends -> {"none", "SUCCESS", "ERROR"}]
    BY <1>3 DEF Att!ScriptRuns, AttTyped
  <2>11. sheet' \in Seq(Att!Row)
    BY <2>8 DEF Rows
  <2>12. AttTyped'
    <3>1. told' \in [Sends -> {"nothing", "Attendance Uploaded", "Error Occurred!"}]
      BY <2>1 DEF AttTyped
    <3>2. QED
      BY <2>1, <2>2, <2>10, <2>11, <3>1, FormsKept
  <2>13. \A k \in Sends : pc'[k] # "idle" =>
           screen'[k] \in Shots /\ life'[screen'[k]] # "unopened"
    BY <2>1, <2>2 DEF SentFromPreviews, Opened
  <2>14. \A i \in DOMAIN sheet' :
           sheet'[i].screen \in Shots /\ life'[sheet'[i].screen] # "unopened"
    BY <2>3, <2>6, <2>9 DEF SentFromPreviews, Opened
  <2>15. QED
    BY <2>12, <2>13, <2>14 DEF SentFromPreviews
<1>4. ASSUME NEW place \in {"redirected", "done", "failed"}, pc[c] # "idle",
             Att!Goto(c, place),
             UNCHANGED <<feedbackItems, response, status, studentId, screen, matricno,
                         saved, sheet, answers>>,
             told' \in [Sends -> {"nothing", "Attendance Uploaded", "Error Occurred!"}]
      PROVE  AttTyped' /\ SentFromPreviews'
  <2>1. place \in Att!Places \ {"posting"}
    BY DEF Att!Places
  <2>2. /\ pc' \in [Sends -> Att!Places]
        /\ \A k \in Sends : pc'[k] # "idle" => pc[k] # "idle"
        /\ \A k \in Sends : pc'[k] = "posting" => pc[k] = "posting"
    BY <1>4, <2>1, RunGoesOn
  <2>3. /\ saved' \in [Sends -> {"none", "SUCCESS", "ERROR"}]
        /\ sheet' \in Seq(Att!Row)
    BY <1>4 DEF AttTyped
  <2>4. AttTyped'
    BY <1>4, <2>2, <2>3, FormsKept
  <2>5. QED
    BY <1>4, <2>2, <2>4, SentStays
<1>5. told \in [Sends -> {"nothing", "Attendance Uploaded", "Error Occurred!"}]
  BY DEF AttTyped
<1>6. CASE Att!Redirected(c)
  <2>1. /\ pc[c] # "idle" /\ Att!Goto(c, "redirected")
        /\ UNCHANGED <<feedbackItems, response, status, studentId, screen, matricno,
                       saved, told, sheet, answers>>
    BY <1>6 DEF Att!Redirected, Att!screenVars
  <2>2. QED
    BY <1>4, <1>5, <2>1
<1>7. CASE Att!Callback(c)
  <2>1. /\ pc[c] # "idle" /\ (Att!Goto(c, "done") \/ Att!Goto(c, "failed"))
        /\ UNCHANGED <<feedbackItems, response, status, studentId, screen, matricno,
                       saved, sheet, answers>>
    BY <1>7 DEF Att!Callback, Att!screenVars
  <2>2. told' \in [Sends -> {"nothing", "Attendance Uploaded", "Error Occurred!"}]
    BY <1>5, <1>7 DEF Att!Callback
  <2>3. QED
    BY <1>4, <2>1, <2>2
<1>8. CASE Att!RecognizeThrows(c) \/ Att!PostFails(c)
  <2>1. /\ pc[c] # "idle" /\ Att!Goto(c, "failed")
        /\ UNCHANGED <<feedbackItems, response, status, studentId, screen, matricno,
                       saved, told, sheet, answers>>
    BY <1>8 DEF Att!RecognizeThrows, Att!PostFails, Att!screenVars
  <2>2. QED
    BY <1>4, <1>5, <2>1
<1>9. QED
  BY <1>1, <1>2, <1>3, <1>6, <1>7, <1>8 DEF Att!Network

(* A step of the other screens leaves the runs of the previews alone. *)
LEMMA AttSteps ==
  ASSUME Typed, SentFromPreviews, Coherent, [Next]_vars
  PROVE  AttTyped' /\ SentFromPreviews'
<1>1. Opened
  BY NavKept, Routes DEF Typed, Opened
<1>2. AttTyped
  BY DEF Typed
<1>3. ASSUME UNCHANGED attVars PROVE AttTyped' /\ SentFromPreviews'
  <2>1. /\ UNCHANGED <<feedbackItems, response, status, studentId, screen, matricno, answers>>
        /\ UNCHANGED <<pc, saved, told, sheet>>
    BY <1>3 DEF attVars
  <2>2. /\ pc' \in [Sends -> Att!Places]
        /\ saved' \in [Sends -> {"none", "SUCCESS", "ERROR"}]
        /\ told' \in [Sends -> {"nothing", "Attendance Uploaded", "Error Occurred!"}]
        /\ sheet' \in Seq(Att!Row)
    BY <1>2, <2>1 DEF AttTyped
  <2>3. QED
    BY <1>1, <1>2, <2>1, <2>2, FormsKept, SentStays
<1>4. ASSUME NEW p \in Shots, ListArrives(p) PROVE AttTyped' /\ SentFromPreviews'
  <2>1. /\ feedbackItems' = [feedbackItems EXCEPT ![p] = TRUE]
        /\ UNCHANGED <<response, status, studentId, screen, matricno, answers>>
        /\ UNCHANGED <<pc, saved, told, sheet>>
    BY <1>4 DEF ListArrives, Att!FeedbackListArrives, Att!runVars
  <2>2. feedbackItems' \in [Shots -> BOOLEAN]
    BY <2>1, Zenon DEF AttTyped, Typed
  <2>3. AttTyped'
    BY <1>2, <2>1, <2>2 DEF AttTyped
  <2>4. QED
    BY <1>1, <2>1, <2>3, SentStays
<1>5. ASSUME NEW c \in Sends, NEW p \in Shots, Send(c, p)
      PROVE  AttTyped' /\ SentFromPreviews'
  <2>1. /\ pc' = [pc EXCEPT ![c] = "recognizing"] /\ screen' = [screen EXCEPT ![c] = p]
        /\ UNCHANGED <<feedbackItems, response, status, studentId, matricno, saved, told,
                       sheet, answers>>
    BY <1>5 DEF Send, Att!Send, Att!Goto, Att!screenVars
  <2>2. /\ pc' \in [Sends -> Att!Places] /\ screen' \in [Sends -> Shots \union {Null}]
        /\ \A k \in Sends : pc'[k] = "posting" => pc[k] = "posting"
    BY <1>2, <2>1 DEF AttTyped, Att!Places
  <2>3. AttTyped'
    BY <1>2, <2>1, <2>2 DEF AttTyped
  <2>4. life'[p] # "unopened"
    <3>1. life[p] = "shown"
      <4>1. stack # <<>> /\ Last(stack) = p /\ p \in Screens
        BY <1>5, Routes DEF Send, OnTop
      <4>2. QED
        BY <4>1, StackFacts DEF Typed
    <3>2. QED
      BY <1>1, <3>1 DEF Opened
  <2>5. \A k \in Sends : pc'[k] # "idle" =>
           screen'[k] \in Shots /\ life'[screen'[k]] # "unopened"
    BY <1>1, <1>2, <2>1, <2>4 DEF AttTyped, SentFromPreviews, Opened
  <2>6. QED
    BY <1>1, <2>1, <2>3, <2>5 DEF SentFromPreviews, Opened
<1>6. ASSUME NEW c \in Sends, Network(c) PROVE AttTyped' /\ SentFromPreviews'
  BY <1>1, <1>2, <1>6, NetworkSteps DEF Network
<1>7. GoBack \/ (\E s \in Screens : Unmount(s)) => UNCHANGED attVars
  BY DEF GoBack, Unmount
<1>8. ASSUME NEW t \in Taps,
             \/ TapCourse(t) \/ PositionArrives(t) \/ PositionFails(t)
             \/ \E p \in Shots : TapCapture(p, t)
      PROVE  UNCHANGED attVars
  BY <1>8 DEF TapCourse, PositionArrives, PositionFails, Judge, TapCapture
<1>9. ASSUME NEW p \in Shots, PictureTaken(p) \/ CaptureFails(p) PROVE UNCHANGED attVars
  BY <1>9 DEF PictureTaken, CaptureFails
<1>10. UNCHANGED vars => UNCHANGED attVars
  BY DEF vars
<1>11. QED
  BY <1>3, <1>4, <1>5, <1>6, <1>7, <1>8, <1>9, <1>10 DEF Next

-----------------------------------------------------------------------------
(* The inductive invariant. *)

LEMMA OnTopIsShown ==
  ASSUME NavTypeOK, Coherent, NEW s \in Screens, OnTop(s)
  PROVE  life[s] = "shown"
<1>1. stack # <<>> /\ Last(stack) = s
  BY DEF OnTop
<1>2. QED
  BY <1>1, StackFacts

LEMMA TypedNext ==
  ASSUME Typed, SentFromPreviews, Coherent, [Next]_vars
  PROVE  Typed'
<1> DEFINE Rest == /\ run \in [Taps -> {"none", "locating", "thrown", "done"}]
                   /\ currentPosition \in Distances \union {Null}
                   /\ judged \in [Taps -> Distances \union {Null}]
                   /\ shot \in [Shots -> {"idle", "taking", "displayed", "failed"}]
                   /\ origin \in [Shots -> Taps \union {Null}]
                   /\ late \subseteq Shots
<1>1. Rest
  BY DEF Typed
<1>2. ASSUME UNCHANGED <<run, currentPosition, judged, shot, origin, late>> PROVE Rest'
  BY <1>1, <1>2
<1>3. ASSUME NEW t \in Taps, TapCourse(t) PROVE Rest'
  BY <1>1, <1>3 DEF TapCourse, shotVars
<1>4. ASSUME NEW t \in Taps, Judge(t), currentPosition' \in Distances \union {Null}
      PROVE  Rest'
  BY <1>1, <1>4 DEF Judge, shotVars
<1>5. ASSUME NEW t \in Taps, PositionArrives(t) \/ PositionFails(t) PROVE Rest'
  BY <1>1, <1>4, <1>5 DEF PositionArrives, PositionFails
<1>6. ASSUME NEW p \in Shots, NEW t \in Taps, TapCapture(p, t) PROVE Rest'
  BY <1>1, <1>6 DEF TapCapture, tapVars
<1>7. ASSUME NEW p \in Shots, PictureTaken(p) \/ CaptureFails(p) PROVE Rest'
  BY <1>1, <1>7 DEF PictureTaken, CaptureFails, Displayed, tapVars
<1> DEFINE Still == UNCHANGED <<run, currentPosition, judged, shot, origin, late>>
<1>8. GoBack \/ (\E s \in Screens : Unmount(s)) => Still
  BY DEF GoBack, Unmount, tapVars, shotVars
<1>9. ASSUME NEW p \in Shots, ListArrives(p) \/ (\E c \in Sends : Send(c, p)) PROVE Still
  BY <1>9 DEF ListArrives, Send, tapVars, shotVars
<1>10. ASSUME NEW c \in Sends, Network(c) PROVE Still
  BY <1>10 DEF Network, tapVars, shotVars
<1>11. ASSUME UNCHANGED vars PROVE Still
  <2>1. tapVars' = tapVars /\ shotVars' = shotVars
    BY <1>11 DEF vars
  <2>2. QED
    BY <2>1 DEF tapVars, shotVars
<1> HIDE DEF Rest, Still
<1>12. Still => Rest'
  BY <1>2 DEF Still
<1>13. Rest'
  BY <1>3, <1>5, <1>6, <1>7, <1>8, <1>9, <1>10, <1>11, <1>12 DEF Next
<1>14. NavTypeOK' /\ AttTyped'
  BY NavKept, AttSteps DEF Typed
<1>15. QED
  BY <1>13, <1>14 DEF Typed, Rest

(* What is proved of each step besides its types. *)
TapsInOrder == CoursesStays /\ OneLocates /\ CamerasConfirmed /\ PicturesTaken

LEMMA NoRouteOpened ==
  ASSUME Typed, OneLocates, CamerasConfirmed, PicturesTaken, CoursesStays',
         UNCHANGED <<run, judged, shot, origin>>,
         \A s \in Screens : life'[s] = "unopened" <=> life[s] = "unopened",
         \A t \in Taps : run[t] = "locating" => life'[Loading(t)] = life[Loading(t)]
  PROVE  TapsInOrder'
<1>1. OneLocates'
  BY DEF OneLocates
<1>2. CamerasConfirmed'
  BY Routes DEF CamerasConfirmed
<1>3. PicturesTaken'
  BY Routes DEF PicturesTaken
<1>4. QED
  BY <1>1, <1>2, <1>3 DEF TapsInOrder

LEMMA GoBackKeeps == IInv /\ GoBack => TapsInOrder'
<1> SUFFICES ASSUME IInv, GoBack PROVE TapsInOrder'
  OBVIOUS
<1>1. /\ CoursesStays'
      /\ \A s \in Screens : life'[s] = IF OnTop(s) THEN "leaving" ELSE life[s]
  BY PopFacts DEF IInv, Typed, GoBack
<1>2. \A s \in Screens : life'[s] = "unopened" <=> life[s] = "unopened"
  BY <1>1, OnTopIsShown DEF IInv, Typed
<1>3. \A t \in Taps : life'[Loading(t)] = life[Loading(t)]
  BY <1>1, Routes DEF GoBack
<1>4. QED
  BY <1>1, <1>2, <1>3, NoRouteOpened DEF IInv, GoBack, tapVars, shotVars

LEMMA UnmountKeeps == IInv /\ (\E s \in Screens : Unmount(s)) => TapsInOrder'
<1> SUFFICES ASSUME IInv, NEW s \in Screens, Unmount(s) PROVE TapsInOrder'
  OBVIOUS
<1>1. /\ life[s] = "leaving" /\ stack' = stack
      /\ \A r \in Screens : life'[r] = IF r = s THEN "gone" ELSE life[r]
  BY DEF IInv, Typed, NavTypeOK, Unmount, Dispose
<1>2. CoursesStays'
  BY <1>1 DEF IInv, CoursesStays
<1>3. \A t \in Taps : run[t] = "locating" => life'[Loading(t)] = life[Loading(t)]
  BY <1>1, Routes DEF IInv, OneLocates
<1>4. \A r \in Screens : life'[r] = "unopened" <=> life[r] = "unopened"
  BY <1>1
<1>5. UNCHANGED <<run, judged, shot, origin>>
  BY DEF Unmount, tapVars, shotVars
<1>6. QED
  BY <1>2, <1>3, <1>4, <1>5, NoRouteOpened DEF IInv

LEMMA StillKeeps ==
  IInv /\ UNCHANGED <<navVars, run, judged, shot, origin>> => TapsInOrder'
BY DEF IInv, TapsInOrder, navVars, CoursesStays, OneLocates, CamerasConfirmed, PicturesTaken

(* A tap finds Courses on top, so no run is waiting. *)
LEMMA TapCourseKeeps == IInv /\ (\E t \in Taps : TapCourse(t)) => TapsInOrder'
<1> SUFFICES ASSUME IInv, NEW t \in Taps, TapCourse(t) PROVE TapsInOrder'
  OBVIOUS
<1>1. /\ run[t] = "none" /\ run' = [run EXCEPT ![t] = "locating"]
      /\ UNCHANGED <<judged, shot, origin>> /\ Push(Loading(t)) /\ Last(stack) = Courses
  BY DEF TapCourse, OnTop, shotVars
<1>2. /\ CoursesStays' /\ life'[Loading(t)] = "shown"
      /\ \A s \in Screens \ {Loading(t)} : life'[s] = life[s]
  BY <1>1, Routes, PushFacts DEF IInv, Typed
<1>3. ASSUME NEW u \in Taps PROVE run[u] # "locating"
  BY <1>1, Routes, DialogOnCourses DEF IInv, Typed, OneLocates
<1>4. \A u \in Taps : run'[u] = IF u = t THEN "locating" ELSE run[u]
  BY <1>1 DEF IInv, Typed
<1>5. OneLocates'
  BY <1>2, <1>3, <1>4 DEF OneLocates
<1>6. \A u \in Taps : life'[Camera(u)] = life[Camera(u)]
  BY <1>2, Routes
<1>7. CamerasConfirmed'
  BY <1>1, <1>4, <1>6 DEF IInv, CamerasConfirmed
<1>8. \A p \in Shots : life'[p] = life[p]
  BY <1>2, Routes
<1>9. PicturesTaken'
  BY <1>1, <1>6, <1>8 DEF IInv, PicturesTaken
<1>10. QED
  BY <1>2, <1>5, <1>7, <1>9 DEF TapsInOrder

(* The run that judges is the only one waiting, and what its hideOpenDialog *)
(* pops is not Courses: its dialog lies above.                             *)
LEMMA JudgeKeeps ==
  ASSUME IInv, NEW t \in Taps, Judge(t), currentPosition' \in Distances \union {Null}
  PROVE  TapsInOrder'
<1>1. run[t] = "locating" /\ UNCHANGED <<shot, origin>>
  BY DEF Judge, shotVars
<1>2. life[Camera(t)] = "unopened"
  BY <1>1 DEF IInv, CamerasConfirmed
<1>3. CASE UNCHANGED <<navVars, judged>> /\ run' = [run EXCEPT ![t] = "thrown"]
  <2>1. \A u \in Taps : run'[u] = IF u = t THEN "thrown" ELSE run[u]
    BY <1>3 DEF IInv, Typed
  <2>2. stack' = stack /\ life' = life
    BY <1>3 DEF navVars
  <2>3. OneLocates' /\ CoursesStays'
    BY <2>1, <2>2 DEF IInv, OneLocates, CoursesStays
  <2>4. CamerasConfirmed'
    BY <1>1, <1>2, <1>3, <2>1, <2>2 DEF IInv, CamerasConfirmed
  <2>5. PicturesTaken'
    BY <1>1, <2>2 DEF IInv, PicturesTaken
  <2>6. QED
    BY <2>3, <2>4, <2>5 DEF TapsInOrder
<1>4. CASE /\ currentPosition' # Null /\ run' = [run EXCEPT ![t] = "done"]
           /\ judged' = [judged EXCEPT ![t] = currentPosition']
           /\ PushReplacement(Verdict(t))
  <2>1. PICK n \in Screens : n = Verdict(t)
    BY Routes DEF Verdict
  <2>2. life[Loading(t)] = "shown"
    BY <1>1 DEF IInv, OneLocates
  <2>3. Last(stack) # Courses
    BY <2>2, Routes, DialogOnCourses DEF IInv, Typed
  <2>4. PushReplacement(n)
    BY <1>4, <2>1
  <2>5. /\ CoursesStays' /\ life[n] = "unopened"
        /\ \A s \in Screens \ {n} : life[s] # "shown" => life'[s] = life[s]
    BY <2>3, <2>4, ReplaceFacts DEF IInv, Typed
  <2>6. /\ \A u \in Taps : run'[u] = IF u = t THEN "done" ELSE run[u]
        /\ \A u \in Taps : judged'[u] = IF u = t THEN currentPosition' ELSE judged[u]
        /\ currentPosition' \in Distances
    BY <1>4 DEF IInv, Typed
  <2>7. OneLocates'
    BY <1>1, <2>6 DEF IInv, OneLocates
  <2>8. ASSUME NEW u \in Taps, life'[Camera(u)] # "unopened"
        PROVE  run'[u] = "done" /\ judged'[u] \in Distances /\ judged'[u] > 10
    <3>1. CASE Camera(u) = n
      <4>1. u = t /\ currentPosition' > 10
        BY <2>1, <3>1, Routes DEF Verdict
      <4>2. QED
        BY <2>6, <4>1
    <3>2. CASE Camera(u) # n
      <4>1. life[Camera(u)] # "unopened"
        BY <2>5, <2>8, <3>2, Routes
      <4>2. u # t
        BY <1>2, <4>1
      <4>3. QED
        BY <2>6, <4>1, <4>2 DEF IInv, CamerasConfirmed
    <3>3. QED
      BY <3>1, <3>2
  <2>9. CamerasConfirmed'
    BY <2>8 DEF CamerasConfirmed
  <2>10. \A s \in Screens : life[s] # "unopened" => life'[s] # "unopened"
    <3>1. [NavStep]_navVars
      BY <2>4 DEF NavStep
    <3>2. QED
      BY <3>1, LivesGoForward DEF IInv, Typed
  <2>11. \A p \in Shots : p # n
    BY <2>1, Routes, ScreensAssumption DEF Verdict, Camera, Refusal
  <2>12. \A p \in Shots : life'[p] # "unopened" => life[p] # "unopened"
    BY <2>5, <2>11, Routes
  <2>13. PicturesTaken'
    BY <1>1, <2>10, <2>12, Routes DEF IInv, PicturesTaken
  <2>14. QED
    BY <2>5, <2>7, <2>9, <2>13 DEF TapsInOrder
<1>5. QED
  BY <1>3, <1>4 DEF Judge

LEMMA TapCaptureKeeps ==
  IInv /\ (\E p \in Shots, t \in Taps : TapCapture(p, t)) => TapsInOrder'
<1> SUFFICES ASSUME IInv, NEW p \in Shots, NEW t \in Taps, TapCapture(p, t)
             PROVE  TapsInOrder'
  OBVIOUS
<1>1. life[Camera(t)] = "shown"
  BY Routes, OnTopIsShown DEF IInv, Typed, TapCapture
<1>2. /\ shot[p] = "idle" /\ UNCHANGED <<stack, life, run, judged>>
      /\ \A r \in Shots : shot'[r] = IF r = p THEN "taking" ELSE shot[r]
      /\ \A r \in Shots : origin'[r] = IF r = p THEN t ELSE origin[r]
  BY DEF IInv, Typed, TapCapture, navVars, tapVars
<1>3. PicturesTaken'
  BY <1>1, <1>2 DEF IInv, PicturesTaken
<1>4. CoursesStays' /\ OneLocates' /\ CamerasConfirmed'
  BY <1>2 DEF IInv, CoursesStays, OneLocates, CamerasConfirmed
<1>5. QED
  BY <1>3, <1>4 DEF TapsInOrder

LEMMA CaptureEndsKeeps ==
  IInv /\ (\E p \in Shots : PictureTaken(p) \/ CaptureFails(p)) => TapsInOrder'
<1> SUFFICES ASSUME IInv, NEW p \in Shots, PictureTaken(p) \/ CaptureFails(p)
             PROVE  TapsInOrder'
  OBVIOUS
<1>1. shot[p] = "taking" /\ UNCHANGED <<run, judged, origin>>
  BY DEF PictureTaken, CaptureFails, tapVars
<1>2. CASE UNCHANGED navVars /\ shot' = [shot EXCEPT ![p] = "failed"]
  <2>1. /\ stack' = stack /\ life' = life
        /\ \A r \in Shots : shot'[r] = IF r = p THEN "failed" ELSE shot[r]
    BY <1>2 DEF IInv, Typed, navVars
  <2>2. PicturesTaken'
    BY <1>1, <2>1 DEF IInv, PicturesTaken
  <2>3. CoursesStays' /\ OneLocates' /\ CamerasConfirmed'
    BY <1>1, <2>1 DEF IInv, CoursesStays, OneLocates, CamerasConfirmed
  <2>4. QED
    BY <2>2, <2>3 DEF TapsInOrder
<1>3. CASE Push(p) /\ shot' = [shot EXCEPT ![p] = "displayed"]
  <2>1. /\ CoursesStays' /\ life'[p] = "shown"
        /\ \A s \in Screens \ {p} : life'[s] = life[s]
    BY <1>3, Routes, PushFacts DEF IInv, Typed
  <2>2. \A r \in Shots : shot'[r] = IF r = p THEN "displayed" ELSE shot[r]
    BY <1>3 DEF IInv, Typed
  <2>3. \A t \in Taps : /\ life'[Camera(t)] = life[Camera(t)]
                        /\ life'[Loading(t)] = life[Loading(t)]
    BY <2>1, Routes
  <2>4. OneLocates' /\ CamerasConfirmed'
    BY <1>1, <2>3 DEF IInv, OneLocates, CamerasConfirmed
  <2>5. \A r \in Shots \ {p} : life'[r] = life[r]
    BY <2>1, Routes
  <2>6. PicturesTaken'
    BY <1>1, <2>2, <2>3, <2>5 DEF IInv, PicturesTaken
  <2>7. QED
    BY <2>1, <2>4, <2>6 DEF TapsInOrder
<1>4. QED
  BY <1>2, <1>3 DEF PictureTaken, CaptureFails, Displayed

-----------------------------------------------------------------------------
(* The order of the screens and the dialogs. *)

(* Two routes at most lie where a dialog or a refusal is, one above Courses. *)
LEMMA ShortStacks ==
  ASSUME NEW S, NEW q \in Seq(S)
  PROVE  /\ Len(q) = 1 => q = <<q[1]>>
         /\ Len(q) = 2 => q = <<q[1], q[2]>>
OBVIOUS

LEMMA StillInOrder ==
  ASSUME IInv, UNCHANGED <<navVars, run, currentPosition>>, late \subseteq late',
         \A p \in Shots : life[p] = "shown" => origin'[p] = origin[p]
  PROVE  ScreensKept'
<1>1. stack' = stack /\ life' = life /\ run' = run /\ currentPosition' = currentPosition
  BY DEF navVars
<1>2. \A i \in 1..Len(stack) : stack[i] \in Shots => origin'[stack[i]] = origin[stack[i]]
  BY Routes, StackFacts DEF IInv, Typed
<1>3. Order'
  <2>1. SUFFICES ASSUME late' = {} PROVE Order'
    BY DEF Order
  <2>2. late = {} /\ Len(stack) \in Nat
    BY <2>1, StackFacts DEF IInv, Typed
  <2>3. QED
    BY <1>1, <1>2, <2>2 DEF IInv, ScreensKept, Order
<1>4. DialogsLow' /\ DialogsExplained'
  BY <1>1 DEF IInv, ScreensKept, DialogsLow, DialogsExplained, DialogShown
<1>5. QED
  BY <1>3, <1>4 DEF ScreensKept

LEMMA GoBackInOrder == IInv /\ GoBack => ScreensKept'
<1> SUFFICES ASSUME IInv, GoBack PROVE ScreensKept'
  OBVIOUS
<1>1. /\ \A s \in Screens : life'[s] = IF OnTop(s) THEN "leaving" ELSE life[s]
      /\ Len(stack) > 1 /\ Len(stack') = Len(stack) - 1
      /\ \A i \in 1..(Len(stack) - 1) : stack'[i] = stack[i]
  BY PopFacts DEF IInv, Typed, GoBack
<1>2. UNCHANGED <<run, currentPosition, origin, late>>
  BY DEF GoBack, tapVars, shotVars
<1>3. /\ Len(stack) \in Nat /\ stack # <<>> /\ Last(stack) = stack[Len(stack)]
      /\ \A t \in Taps : stack[Len(stack)] # Loading(t)
  BY <1>1, StackFacts DEF IInv, Typed, GoBack, OnTop
<1>4. Order'
  <2>1. SUFFICES ASSUME late = {}, Len(stack') # 1 PROVE Order'
    BY <1>2 DEF Order
  <2>2. PICK t \in Taps :
          \/ Len(stack) = 2 /\ stack[2] \in {Loading(t), Refusal(t)}
          \/ /\ Len(stack) > 1 /\ stack[2] = Camera(t)
             /\ \A i \in 3..Len(stack) : stack[i] \in Shots /\ origin[stack[i]] = t
    BY <1>1, <2>1 DEF IInv, ScreensKept, Order
  <2>3. Len(stack) > 2
    BY <1>1, <1>3, <2>1
  <2>4. QED
    BY <1>1, <1>2, <1>3, <2>2, <2>3 DEF Order
<1>5. ASSUME NEW t \in Taps, DialogShown(t)'
      PROVE  DialogShown(t) /\ Len(stack') > 1 /\ stack'[2] = Loading(t)
  <2>1. DialogShown(t)
    BY <1>1, <1>5, Routes DEF DialogShown
  <2>2. Len(stack) > 1 /\ stack[2] = Loading(t)
    BY <2>1 DEF IInv, ScreensKept, DialogsLow
  <2>3. Len(stack) > 2
    BY <1>3, <2>2
  <2>4. QED
    BY <1>1, <1>3, <2>1, <2>2, <2>3
<1>6. DialogsLow' /\ DialogsExplained'
  BY <1>2, <1>5 DEF IInv, ScreensKept, DialogsLow, DialogsExplained
<1>7. QED
  BY <1>4, <1>6 DEF ScreensKept

LEMMA UnmountInOrder == IInv /\ (\E s \in Screens : Unmount(s)) => ScreensKept'
<1> SUFFICES ASSUME IInv, NEW s \in Screens, Unmount(s) PROVE ScreensKept'
  OBVIOUS
<1>1. /\ stack' = stack
      /\ \A r \in Screens : life'[r] = IF r = s THEN "gone" ELSE life[r]
      /\ UNCHANGED <<run, currentPosition, origin, late>>
  BY DEF IInv, Typed, NavTypeOK, Unmount, Dispose, tapVars, shotVars
<1>2. \A t \in Taps : DialogShown(t)' => DialogShown(t)
  BY <1>1, Routes DEF DialogShown
<1>3. Order'
  BY <1>1 DEF IInv, ScreensKept, Order
<1>4. QED
  BY <1>1, <1>2, <1>3 DEF IInv, ScreensKept, DialogsLow, DialogsExplained

(* Courses is on top, so it is alone, and no dialog has been left over.    *)
LEMMA TapCourseInOrder == IInv /\ (\E t \in Taps : TapCourse(t)) => ScreensKept'
<1> SUFFICES ASSUME IInv, NEW t \in Taps, TapCourse(t) PROVE ScreensKept'
  OBVIOUS
<1>1. /\ run' = [run EXCEPT ![t] = "locating"] /\ Push(Loading(t))
      /\ stack # <<>> /\ Last(stack) = Courses /\ UNCHANGED <<late, origin>>
  BY DEF TapCourse, OnTop, shotVars
<1>2. /\ \A s \in Screens \ {Loading(t)} : life'[s] = life[s]
      /\ Len(stack') = Len(stack) + 1 /\ stack'[Len(stack) + 1] = Loading(t)
  BY <1>1, Routes, PushFacts DEF IInv, Typed
<1>3. Len(stack) = 1
  <2>1. stack[1] = Courses /\ stack[Len(stack)] = Courses /\ Len(stack) \in Nat
        /\ Len(stack) > 0
    BY <1>1, StackFacts DEF IInv, Typed, CoursesStays
  <2>2. 1 \in 1..Len(stack) /\ Len(stack) \in 1..Len(stack)
    BY <2>1
  <2>3. QED
    BY <2>1, <2>2, StackFacts DEF IInv, Typed
<1>4. \A u \in Taps : DialogShown(u)' => u = t
  <2>1. \A u \in Taps : ~DialogShown(u)
    BY <1>3 DEF IInv, ScreensKept, DialogsLow
  <2>2. QED
    BY <1>2, <2>1, Routes DEF DialogShown
<1>5. run'[t] = "locating"
  BY <1>1 DEF IInv, Typed
<1>6. QED
  BY <1>2, <1>3, <1>4, <1>5 DEF ScreensKept, Order, DialogsLow, DialogsExplained

(* The run that judges is the only one with a dialog.  In time, the dialog *)
(* is what hideOpenDialog pops.                                            *)
LEMMA JudgeInOrder ==
  ASSUME IInv, NEW t \in Taps, Judge(t) PROVE ScreensKept'
<1>1. run[t] = "locating" /\ UNCHANGED <<origin, late>> /\ DialogShown(t)
  BY DEF Judge, shotVars, IInv, OneLocates, DialogShown
<1>2. Len(stack) > 1 /\ stack[2] = Loading(t) /\ Len(stack) \in Nat
  BY <1>1, StackFacts DEF IInv, Typed, ScreensKept, DialogsLow
<1>3. \A u \in Taps : DialogShown(u) => u = t
  BY <1>2, Routes DEF IInv, ScreensKept, DialogsLow
<1>4. CASE /\ UNCHANGED navVars /\ run' = [run EXCEPT ![t] = "thrown"]
           /\ currentPosition' = Null
  <2>1. stack' = stack /\ life' = life /\ run'[t] = "thrown"
    BY <1>4 DEF IInv, Typed, navVars
  <2>2. Order' /\ DialogsLow'
    BY <1>1, <2>1 DEF IInv, ScreensKept, Order, DialogsLow, DialogShown
  <2>3. DialogsExplained'
    BY <1>3, <1>4, <2>1 DEF DialogsExplained, DialogShown
  <2>4. QED
    BY <2>2, <2>3 DEF ScreensKept
<1>5. CASE /\ run' = [run EXCEPT ![t] = "done"] /\ PushReplacement(Verdict(t))
  <2>1. PICK n \in Screens : n = Verdict(t)
    BY Routes DEF Verdict
  <2>2. n \in {Camera(t), Refusal(t)} /\ run'[t] = "done"
    BY <1>5, <2>1 DEF Verdict, IInv, Typed
  <2>3. Last(stack) # Courses /\ PushReplacement(n)
    BY <1>1, <1>5, <2>1, Routes, DialogOnCourses DEF IInv, Typed, DialogShown
  <2>4. /\ \A s \in Screens \ {n} : life'[s] = IF OnTop(s) THEN "leaving" ELSE life[s]
        /\ Len(stack') = Len(stack) /\ stack'[Len(stack)] = n
        /\ \A i \in 1..(Len(stack) - 1) : stack'[i] = stack[i]
    BY <2>3, ReplaceFacts DEF IInv, Typed
  <2>5. late = {} => Len(stack) = 2
    BY <1>2, Routes DEF IInv, ScreensKept, Order
  <2>6. Order'
    BY <1>1, <1>2, <2>2, <2>4, <2>5 DEF Order
  <2>7. ASSUME NEW u \in Taps, DialogShown(u)' PROVE u = t /\ Len(stack) # 2
    <3>1. DialogShown(u) /\ ~OnTop(Loading(u))
      BY <2>2, <2>4, <2>7, Routes DEF DialogShown
    <3>2. stack # <<>> /\ Last(stack) = stack[Len(stack)]
      BY <1>2, StackFacts DEF IInv, Typed
    <3>3. QED
      BY <1>2, <1>3, <3>1, <3>2 DEF OnTop
  <2>8. DialogsLow'
    BY <1>2, <2>4, <2>7 DEF DialogsLow
  <2>9. DialogsExplained'
    BY <1>1, <2>2, <2>5, <2>7 DEF DialogsExplained
  <2>10. QED
    BY <2>6, <2>8, <2>9 DEF ScreensKept
<1>6. QED
  BY <1>4, <1>5 DEF Judge

(* A picture in time is of the camera that is shown, above which only its  *)
(* own pictures can be.                                                    *)
LEMMA PictureTakenInOrder == IInv /\ (\E p \in Shots : PictureTaken(p)) => ScreensKept'
<1> SUFFICES ASSUME IInv, NEW p \in Shots, PictureTaken(p) PROVE ScreensKept'
  OBVIOUS
<1>1. UNCHANGED <<run, currentPosition, origin>> /\ shot[p] = "taking"
  BY DEF PictureTaken, tapVars
<1>2. CASE UNCHANGED <<navVars, late>>
  BY <1>1, <1>2, StillInOrder
<1>3. CASE Mounted(Camera(origin[p])) /\ Push(p) /\ Displayed(p)
  <2>1. /\ \A s \in Screens \ {p} : life'[s] = life[s]
        /\ Len(stack') = Len(stack) + 1 /\ stack'[Len(stack) + 1] = p
        /\ \A i \in 1..Len(stack) : stack'[i] = stack[i]
    BY <1>3, Routes, PushFacts DEF IInv, Typed
  <2>2. late \subseteq late' /\ Len(stack) \in Nat
    BY <1>3, StackFacts DEF IInv, Typed, Displayed
  <2>3. \A u \in Taps : DialogShown(u)' <=> DialogShown(u)
    BY <2>1, Routes DEF DialogShown
  <2>4. DialogsLow'
    BY <2>1, <2>2, <2>3 DEF IInv, ScreensKept, DialogsLow
  <2>5. DialogsExplained'
    BY <1>1, <2>2, <2>3 DEF IInv, ScreensKept, DialogsExplained
  <2>6. Order'
    <3>1. SUFFICES ASSUME late' = {} PROVE Order'
      BY DEF Order
    <3> DEFINE o == origin[p]
    <3>2. o \in Taps /\ late = {}
      BY <1>1, <2>2, <3>1 DEF IInv, PicturesTaken
    <3>3. life[Camera(o)] = "shown"
      BY <1>3, <3>1 DEF Displayed, Mounted
    <3> HIDE DEF o
    <3>4. PICK i \in 1..Len(stack) : stack[i] = Camera(o)
      BY <3>2, <3>3, Routes, StackFacts DEF IInv, Typed
    <3>5. i # 1
      BY <3>2, <3>4, Routes, StackFacts DEF IInv, CoursesStays
    <3>6. PICK t \in Taps :
            \/ Len(stack) = 2 /\ stack[2] \in {Loading(t), Refusal(t)}
            \/ /\ Len(stack) > 1 /\ stack[2] = Camera(t)
               /\ \A j \in 3..Len(stack) : stack[j] \in Shots /\ origin[stack[j]] = t
      BY <2>2, <3>2, <3>4, <3>5 DEF IInv, ScreensKept, Order
    <3>7. i = 2 /\ t = o
      BY <2>2, <3>2, <3>4, <3>5, <3>6, Routes
    <3>8. /\ Len(stack) > 1 /\ stack[2] = Camera(t)
          /\ \A j \in 3..Len(stack) : stack[j] \in Shots /\ origin[stack[j]] = t
      BY <3>2, <3>4, <3>6, <3>7, Routes
    <3>9. ASSUME NEW j \in 3..Len(stack') PROVE stack'[j] \in Shots /\ origin'[stack'[j]] = t
      BY <1>1, <2>1, <2>2, <3>7, <3>8 DEF o
    <3>10. QED
      BY <2>1, <2>2, <3>8, <3>9 DEF Order
  <2>7. QED
    BY <2>4, <2>5, <2>6 DEF ScreensKept
<1>4. QED
  BY <1>2, <1>3 DEF PictureTaken

LEMMA ScreensNext == IInv /\ [Next]_vars => ScreensKept'
<1> SUFFICES ASSUME IInv, [Next]_vars PROVE ScreensKept'
  OBVIOUS
<1>1. ASSUME UNCHANGED <<navVars, run, currentPosition, origin, late>> PROVE ScreensKept'
  BY <1>1, StillInOrder
<1>2. ASSUME NEW p \in Shots, NEW t \in Taps, TapCapture(p, t) PROVE ScreensKept'
  <2>1. /\ UNCHANGED <<navVars, run, currentPosition, late>> /\ shot[p] = "idle"
        /\ origin' = [origin EXCEPT ![p] = t]
    BY <1>2 DEF TapCapture, tapVars
  <2>2. life[p] = "unopened"
    BY <2>1 DEF IInv, PicturesTaken
  <2>3. \A r \in Shots : life[r] = "shown" => origin'[r] = origin[r]
    BY <2>1, <2>2 DEF IInv, Typed
  <2>4. QED
    BY <2>1, <2>3, StillInOrder
<1>3. ASSUME NEW p \in Shots,
             CaptureFails(p) \/ ListArrives(p) \/ (\E c \in Sends : Send(c, p))
      PROVE  ScreensKept'
  BY <1>1, <1>3 DEF CaptureFails, ListArrives, Send, tapVars, shotVars
<1>4. ASSUME NEW c \in Sends, Network(c) PROVE ScreensKept'
  BY <1>1, <1>4 DEF Network, tapVars, shotVars
<1>5. ASSUME UNCHANGED vars PROVE ScreensKept'
  <2>1. navVars' = navVars /\ tapVars' = tapVars /\ shotVars' = shotVars
    BY <1>5 DEF vars
  <2>2. QED
    BY <1>1, <2>1 DEF tapVars, shotVars
<1>6. ASSUME NEW t \in Taps, PositionArrives(t) \/ PositionFails(t) PROVE ScreensKept'
  BY <1>6, JudgeInOrder DEF PositionArrives, PositionFails
<1>7. QED
  BY <1>2, <1>3, <1>4, <1>5, <1>6, GoBackInOrder, UnmountInOrder, TapCourseInOrder,
     PictureTakenInOrder DEF Next

-----------------------------------------------------------------------------
(* The inductive invariant. *)

LEMMA InitIInv == Init => IInv
<1> SUFFICES ASSUME Init PROVE IInv
  OBVIOUS
<1> USE DEF Init
<1>1. stack = <<Courses>> /\ stack \in Seq(Base \union Screens) /\ DOMAIN stack = 1..1
  BY Routes
<1>2. NavTypeOK /\ Coherent
  BY <1>1, Routes DEF NavTypeOK, Coherent
<1>3. /\ feedbackItems = [s \in Shots |-> FALSE]
      /\ response = [s \in Shots |-> Att!NullReply]
      /\ status = [s \in Shots |-> FALSE]
      /\ studentId = [s \in Shots |-> YetToBeTaken]
      /\ pc = [c \in Sends |-> "idle"] /\ screen = [c \in Sends |-> Null]
      /\ matricno = [c \in Sends |-> Null] /\ saved = [c \in Sends |-> "none"]
      /\ told = [c \in Sends |-> "nothing"]
      /\ sheet = <<>> /\ answers = [s \in Shots |-> {}]
  BY DEF Att!Init
<1>4. AttTyped
  <2>1. /\ feedbackItems \in [Shots -> BOOLEAN] /\ status \in [Shots -> BOOLEAN]
        /\ answers \in [Shots -> SUBSET Att!Candidate]
    BY <1>3
  <2>2. /\ response \in [Shots -> Att!Reply \union {Att!NullReply}]
        /\ sheet \in Seq(Att!Row)
    BY <1>3
  <2>3. QED
    BY <1>3, <2>1, <2>2 DEF AttTyped, Att!Places
<1>5. SentFromPreviews
  BY <1>3 DEF SentFromPreviews
<1>6. Typed
  BY <1>2, <1>4 DEF Typed
<1>7. CoursesStays
  BY <1>1 DEF CoursesStays
<1>8. OneLocates /\ CamerasConfirmed /\ PicturesTaken
  BY Routes DEF OneLocates, CamerasConfirmed, PicturesTaken
<1>9. ScreensKept
  BY <1>1, Routes DEF ScreensKept, Order, DialogsLow, DialogsExplained, DialogShown
<1>10. QED
  BY <1>2, <1>5, <1>6, <1>7, <1>8, <1>9 DEF IInv

LEMMA NextIInv == IInv /\ [Next]_vars => IInv'
<1> SUFFICES ASSUME IInv, [Next]_vars PROVE IInv'
  OBVIOUS
<1>1. Typed' /\ Coherent' /\ SentFromPreviews'
  BY NavKept, TypedNext, AttSteps DEF IInv, Typed
<1>2. currentPosition' \in Distances \union {Null}
  BY <1>1 DEF Typed
<1>3. ASSUME NEW p \in Shots, ListArrives(p) \/ (\E c \in Sends : Send(c, p))
      PROVE  TapsInOrder'
  BY <1>3, StillKeeps DEF ListArrives, Send, tapVars, shotVars
<1>4. ASSUME NEW c \in Sends, Network(c) PROVE TapsInOrder'
  BY <1>4, StillKeeps DEF Network, tapVars, shotVars
<1>5. ASSUME UNCHANGED vars PROVE TapsInOrder'
  <2>1. navVars' = navVars /\ tapVars' = tapVars /\ shotVars' = shotVars
    BY <1>5 DEF vars
  <2>2. UNCHANGED <<navVars, run, judged, shot, origin>>
    BY <2>1 DEF tapVars, shotVars
  <2>3. QED
    BY <2>2, StillKeeps
<1>6. ASSUME NEW t \in Taps, PositionArrives(t) \/ PositionFails(t) PROVE TapsInOrder'
  BY <1>2, <1>6, JudgeKeeps DEF PositionArrives, PositionFails
<1>7. TapsInOrder'
  BY <1>3, <1>4, <1>5, <1>6, GoBackKeeps, UnmountKeeps, TapCourseKeeps, TapCaptureKeeps,
     CaptureEndsKeeps DEF Next
<1>8. QED
  BY <1>1, <1>7, ScreensNext DEF IInv, TapsInOrder

-----------------------------------------------------------------------------
(* The previews among the routes. *)

(* How many numbers of S there are up to i. *)
Count(S, i) == Cardinality({j \in S : j <= i})

(* Counting the numbers of a finite set numbers them, without a gap. *)
LEMMA Counted ==
  ASSUME NEW n \in Nat, NEW S \in SUBSET (1..n)
  PROVE  /\ IsFiniteSet(S) /\ Cardinality(S) \in Nat
         /\ \A i \in S : Count(S, i) \in 1..Cardinality(S)
         /\ \A i, j \in S : Count(S, i) = Count(S, j) => i = j
         /\ \A m \in 1..Cardinality(S) : \E i \in S : Count(S, i) = m
<1> DEFINE Upto(i) == {j \in S : j <= i}
           N == Cardinality(S)
<1>0. \A i \in S : i \in Int
  OBVIOUS
<1>1. IsFiniteSet(S) /\ N \in Nat
  <2>1. IsFiniteSet(1..n)
    BY FS_Interval
  <2>2. IsFiniteSet(S)
    BY <2>1, FS_Subset
  <2>3. QED
    BY <2>2, FS_CardinalityType
<1>2. ASSUME NEW i \in S
      PROVE  /\ IsFiniteSet(Upto(i)) /\ Count(S, i) = Cardinality(Upto(i))
             /\ Count(S, i) \in 1..N
  <2>1. Upto(i) \in SUBSET S /\ i \in Upto(i)
    OBVIOUS
  <2>2. IsFiniteSet(Upto(i)) /\ Cardinality(Upto(i)) <= N
    BY <1>1, <2>1, FS_Subset
  <2>3. Cardinality(Upto(i)) \in Nat /\ Cardinality(Upto(i)) # 0
    BY <2>1, <2>2, FS_EmptySet, FS_CardinalityType
  <2>4. QED
    BY <1>1, <2>2, <2>3 DEF Count
<1>3. ASSUME NEW i \in S, NEW j \in S, i < j PROVE Count(S, i) < Count(S, j)
  <2>1. i \in Int /\ j \in Int
    BY <1>0
  <2>2. (\A k \in S : k <= i => k <= j) /\ j <= j /\ ~(j <= i)
    BY <1>0, <1>3, <2>1
  <2>3. Upto(i) \in SUBSET Upto(j) /\ j \in Upto(j) /\ j \notin Upto(i)
    BY <2>2, Zenon
  <2>4. Cardinality(Upto(i)) <= Cardinality(Upto(j)) /\ Upto(i) # Upto(j)
    BY <1>2, <2>3, FS_Subset
  <2>5. Cardinality(Upto(i)) # Cardinality(Upto(j))
    BY <1>2, <2>3, <2>4, FS_Subset
  <2>6. QED
    BY <1>1, <1>2, <2>4, <2>5
<1>4. ASSUME NEW i \in S, NEW j \in S, Count(S, i) = Count(S, j) PROVE i = j
  <2>1. Count(S, i) \in 1..N
    BY <1>2
  <2>2. Count(S, i) \in Int
    BY <1>1, <2>1
  <2>3. i \in Int /\ j \in Int
    BY <1>0
  <2>4. ~(i < j) /\ ~(j < i)
    BY <1>3, <1>4, <2>2
  <2>5. QED
    BY <2>3, <2>4
<1>5. ASSUME NEW m \in 1..N, \A i \in S : Count(S, i) # m PROVE FALSE
  <2> DEFINE T == (1..N) \ {m}
             f == [i \in S |-> Count(S, i)]
  <2>1. IsFiniteSet(T) /\ Cardinality(T) = N - 1
    <3>1. IsFiniteSet(1..N) /\ Cardinality(1..N) = N
      BY <1>1, FS_Interval
    <3>2. QED
      BY <1>5, <3>1, FS_RemoveElement
  <2>2. f \in [S -> T]
    BY <1>2, <1>5
  <2>3. Cardinality(T) < Cardinality(S)
    BY <1>1, <2>1
  <2>4. \E x, y \in S : x # y /\ f[x] = f[y]
    <3> HIDE DEF T, f
    <3>1. QED
      BY <1>1, <2>1, <2>2, <2>3, FS_PigeonHole
  <2>5. QED
    BY <1>4, <2>4
<1>6. QED
  BY <1>1, <1>2, <1>4, <1>5

LEMMA NthFacts ==
  ASSUME NEW n \in Nat, NEW S \in SUBSET (1..n)
  PROVE  /\ \A m \in 1..Cardinality(S) : Nth(S, m) \in S /\ Count(S, Nth(S, m)) = m
         /\ \A i \in S : Nth(S, Count(S, i)) = i
<1>1. ASSUME NEW m \in 1..Cardinality(S)
      PROVE  Nth(S, m) \in S /\ Count(S, Nth(S, m)) = m
  <2>1. PICK i \in S : Count(S, i) = m
    BY Counted
  <2>2. i \in {k \in S : Cardinality({j \in S : j <= k}) = m}
    BY <2>1 DEF Count
  <2>3. Nth(S, m) \in {k \in S : Cardinality({j \in S : j <= k}) = m}
    BY <2>2 DEF Nth
  <2>4. QED
    BY <2>3 DEF Count
<1>2. ASSUME NEW i \in S PROVE Nth(S, Count(S, i)) = i
  <2>1. Count(S, i) \in 1..Cardinality(S)
    BY Counted
  <2>2. Nth(S, Count(S, i)) \in S /\ Count(S, Nth(S, Count(S, i))) = Count(S, i)
    BY <1>1, <2>1
  <2>3. QED
    BY <2>2, Counted
<1>3. QED
  BY <1>1, <1>2

(* What there is on top is the last preview, if it is one. *)
LEMMA PreviewsAppend ==
  ASSUME NEW q \in Seq(Base \union Screens), NEW r \in Base \union Screens
  PROVE  /\ Previews(q) \in Seq(Shots)
         /\ Previews(Append(q, r)) = IF r \in Shots THEN Append(Previews(q), r)
                                     ELSE Previews(q)
<1> DEFINE n == Len(q)
           q2 == Append(q, r)
           P == PreviewsAt(q)
           P2 == PreviewsAt(q2)
           N == Cardinality(P)
<1>1. /\ n \in Nat /\ DOMAIN q = 1..n /\ DOMAIN q2 = 1..(n + 1)
      /\ q2[n + 1] = r /\ \A i \in 1..n : q2[i] = q[i]
  OBVIOUS
<1>2. P \in SUBSET (1..n) /\ P2 \in SUBSET (1..(n + 1)) /\ \A i \in P : q[i] \in Shots
  BY <1>1 DEF PreviewsAt
<1>3. P2 = IF r \in Shots THEN P \union {n + 1} ELSE P
  BY <1>1 DEF PreviewsAt
<1>4. Previews(q) = [m \in 1..N |-> q[Nth(P, m)]]
  BY DEF Previews
<1>5. Previews(q2) = [m \in 1..Cardinality(P2) |-> q2[Nth(P2, m)]]
  BY DEF Previews
<1> HIDE DEF n, q2, P, P2, N
<1>6. /\ IsFiniteSet(P) /\ N \in Nat /\ n + 1 \notin P
      /\ \A m \in 1..N : Nth(P, m) \in P /\ Count(P, Nth(P, m)) = m
  <2>1. IsFiniteSet(P) /\ N \in Nat
    BY <1>1, <1>2, Counted DEF N
  <2>2. \A m \in 1..N : Nth(P, m) \in P /\ Count(P, Nth(P, m)) = m
    BY <1>1, <1>2, NthFacts DEF N
  <2>3. n + 1 \notin P
    BY <1>1, <1>2
  <2>4. QED
    BY <2>1, <2>2, <2>3
<1>7. Previews(q) \in Seq(Shots) /\ Len(Previews(q)) = N
  <2> DEFINE e(m) == q[Nth(P, m)]
  <2>1. \A m \in 1..N : e(m) \in Shots
    BY <1>2, <1>6
  <2>2. Previews(q) = [m \in 1..N |-> e(m)]
    BY <1>4
  <2> HIDE DEF e
  <2>3. QED
    BY <1>6, <2>1, <2>2
<1>8. CASE r \notin Shots
  <2>1. P2 = P
    BY <1>3, <1>8
  <2>2. \A m \in 1..N : q2[Nth(P2, m)] = q[Nth(P, m)]
    BY <1>1, <1>2, <1>6, <2>1
  <2>3. Previews(q2) = Previews(q)
    BY <1>4, <1>5, <2>1, <2>2 DEF N
  <2>4. QED
    BY <1>7, <1>8, <2>3 DEF q2
<1>9. CASE r \in Shots
  <2>1. P2 = P \union {n + 1}
    BY <1>3, <1>9
  <2>2. Cardinality(P2) = N + 1
    BY <1>6, <2>1, FS_AddElement DEF N
  <2>3. ASSUME NEW i \in P PROVE Count(P2, i) = Count(P, i)
    <3>1. {j \in P2 : j <= i} = {j \in P : j <= i}
      BY <1>1, <1>2, <2>1
    <3>2. QED
      BY <3>1 DEF Count
  <2>4. Count(P2, n + 1) = N + 1
    <3>1. \A j \in P2 : j <= n + 1
      BY <1>1, <1>2
    <3>2. {j \in P2 : j <= n + 1} = P2
      BY <3>1
    <3>3. QED
      BY <2>2, <3>2 DEF Count
  <2>5. \A i \in P2 : Nth(P2, Count(P2, i)) = i
    <3>1. PICK k \in Nat : k = n + 1
      BY <1>1
    <3>2. P2 \in SUBSET (1..k)
      BY <1>2, <3>1
    <3>3. QED
      BY <3>2, NthFacts
  <2>6. \A m \in 1..N : Nth(P2, m) = Nth(P, m)
    BY <1>6, <2>1, <2>3, <2>5
  <2>7. Nth(P2, N + 1) = n + 1
    BY <2>1, <2>4, <2>5
  <2>8. Previews(q2) = Append(Previews(q), r)
    <3>1. \A m \in 1..N : q2[Nth(P2, m)] = q[Nth(P, m)]
      BY <1>1, <1>2, <1>6, <2>6
    <3>2. \A m \in 1..N : Previews(q)[m] = q[Nth(P, m)]
      BY <1>4
    <3> DEFINE v == Previews(q)
               w == Append(v, r)
    <3>3. v \in Seq(Shots) /\ Len(v) = N
      BY <1>7
    <3> HIDE DEF v
    <3>4. /\ w \in Seq(Shots) /\ Len(w) = N + 1 /\ w[N + 1] = r
          /\ \A m \in 1..N : w[m] = v[m]
      BY <1>6, <1>9, <3>3
    <3> HIDE DEF w
    <3>5. w = [m \in 1..(N + 1) |-> w[m]]
      BY <1>6, <3>4
    <3>6. \A m \in 1..(N + 1) : q2[Nth(P2, m)] = w[m]
      BY <1>1, <1>6, <2>7, <3>1, <3>2, <3>4 DEF v
    <3>7. Previews(q2) = w
      BY <1>5, <2>2, <3>5, <3>6
    <3>8. QED
      BY <3>7 DEF v, w
  <2>9. QED
    BY <1>7, <1>9, <2>8 DEF q2
<1>10. QED
  BY <1>8, <1>9

(* So a pop takes the last preview, or none. *)
LEMMA PreviewsPop ==
  ASSUME NEW q \in Seq(Base \union Screens), q # <<>>
  PROVE  /\ Front(q) \in Seq(Base \union Screens)
         /\ Last(q) \in Shots => /\ Previews(q) # <<>>
                                 /\ Last(Previews(q)) = Last(q)
                                 /\ Front(Previews(q)) = Previews(Front(q))
         /\ Last(q) \notin Shots => Previews(q) = Previews(Front(q))
<1> DEFINE f == Front(q)
           r == Last(q)
<1>1. /\ Len(q) \in Nat /\ Len(q) > 0 /\ f \in Seq(Base \union Screens)
      /\ Len(f) = Len(q) - 1
      /\ \A i \in 1..(Len(q) - 1) : f[i] = q[i]
      /\ r = q[Len(q)] /\ r \in Base \union Screens
  BY FrontAndLast
<1> HIDE DEF f, r
<1>2. q = Append(f, r)
  BY <1>1
<1>3. /\ Previews(f) \in Seq(Shots)
      /\ Previews(q) = IF r \in Shots THEN Append(Previews(f), r) ELSE Previews(f)
  BY <1>1, <1>2, PreviewsAppend
<1>4. ASSUME r \in Shots
      PROVE  /\ Previews(q) # <<>> /\ Last(Previews(q)) = r
             /\ Front(Previews(q)) = Previews(f)
  <2> DEFINE v == Previews(f)
  <2>1. v \in Seq(Shots) /\ Previews(q) = Append(v, r)
    BY <1>3, <1>4
  <2> HIDE DEF v
  <2>2. Append(v, r) # <<>> /\ Last(Append(v, r)) = r /\ Front(Append(v, r)) = v
    BY <2>1 DEF Last, Front
  <2>3. QED
    BY <2>1, <2>2 DEF v
<1>5. QED
  BY <1>1, <1>3, <1>4 DEF f, r

-----------------------------------------------------------------------------
(* Each step, seen from the previews. *)

LEMMA Unseen ==
  ASSUME UNCHANGED attVars, Previews(stack') = Previews(stack),
         \A p \in Shots : life'[p] = life[p]
  PROVE  UNCHANGED Att!vars
<1>1. [p \in Shots |-> life'[p]] = [p \in Shots |-> life[p]]
  OBVIOUS
<1>2. Previews(stack)' = Previews(stack)
  BY DEF Previews, PreviewsAt, Nth
<1>3. Att!navVars' = Att!navVars
  BY <1>1, <1>2 DEF Att!navVars
<1>4. UNCHANGED <<feedbackItems, response, status, studentId>> /\ Att!runVars' = Att!runVars
  BY DEF attVars, Att!runVars
<1>5. Att!screenVars' = Att!screenVars
  BY <1>3, <1>4 DEF Att!screenVars
<1>6. QED
  BY <1>4, <1>5 DEF Att!vars

(* A route that comes off the top is a preview that is left, or no preview. *)
LEMMA PopSeen ==
  ASSUME IInv, stack # <<>>, Previews(stack') = Previews(Front(stack)),
         \A p \in Shots : life'[p] = IF OnTop(p) THEN "leaving" ELSE life[p],
         UNCHANGED attVars
  PROVE  [Att!Next]_Att!vars
<1>1. stack \in Seq(Base \union Screens)
  BY StackFacts DEF IInv, Typed
<1>2. Previews(stack)' = Previews(stack')
  BY DEF Previews, PreviewsAt, Nth
<1>3. CASE Last(stack) \in Shots
  <2> DEFINE p == Last(stack)
  <2>1. /\ Previews(stack) # <<>> /\ Last(Previews(stack)) = p
        /\ Previews(stack)' = Front(Previews(stack))
    BY <1>1, <1>2, <1>3, PreviewsPop
  <2>2. [r \in Shots |-> life'[r]] =
          [r \in Shots |-> IF r = p THEN "leaving" ELSE [q \in Shots |-> life[q]][r]]
    BY DEF OnTop
  <2>3. Att!OnTop(p)
    BY <2>1 DEF Att!OnTop, Att!Last, Last
  <2>4. Att!Pop
    <3>1. Att!Without({p}) =
            [r \in Shots |-> IF r = p THEN "leaving" ELSE [q \in Shots |-> life[q]][r]]
      BY DEF Att!Without
    <3>2. [r \in Shots |-> life[r]]' = Att!Without({Last(Previews(stack))})
      BY <2>1, <2>2, <3>1
    <3>3. /\ Att!Last(Previews(stack)) = Last(Previews(stack))
          /\ Att!Front(Previews(stack)) = Front(Previews(stack))
      BY DEF Att!Last, Last, Att!Front, Front
    <3>4. QED
      BY <2>1, <3>2, <3>3 DEF Att!Pop
  <2>5. UNCHANGED <<feedbackItems, response, status, studentId, Att!runVars>>
    BY DEF attVars, Att!runVars
  <2>6. Att!LeavePreview(p)
    BY <2>3, <2>4, <2>5 DEF Att!LeavePreview
  <2>7. QED
    BY <1>3, <2>6 DEF Att!Next
<1>4. CASE Last(stack) \notin Shots
  <2>1. Previews(stack') = Previews(stack)
    BY <1>1, <1>4, PreviewsPop
  <2>2. \A p \in Shots : life'[p] = life[p]
    BY <1>4 DEF OnTop
  <2>3. QED
    BY <2>1, <2>2, Unseen
<1>5. QED
  BY <1>3, <1>4

LEMMA GoBackSeen == IInv /\ GoBack => [Att!Next]_Att!vars
<1> SUFFICES ASSUME IInv, GoBack PROVE [Att!Next]_Att!vars
  OBVIOUS
<1>1. stack # <<>> /\ stack' = Front(stack) /\ UNCHANGED attVars
  BY DEF GoBack, Pop
<1>2. \A p \in Shots : life'[p] = IF OnTop(p) THEN "leaving" ELSE life[p]
  BY PopFacts, Routes DEF IInv, Typed, GoBack
<1>3. QED
  BY <1>1, <1>2, PopSeen

LEMMA UnmountSeen == IInv /\ (\E s \in Screens : Unmount(s)) => [Att!Next]_Att!vars
<1> SUFFICES ASSUME IInv, NEW s \in Screens, Unmount(s) PROVE [Att!Next]_Att!vars
  OBVIOUS
<1>1. /\ life[s] = "leaving" /\ stack' = stack /\ UNCHANGED attVars
      /\ \A r \in Screens : life'[r] = IF r = s THEN "gone" ELSE life[r]
  BY DEF IInv, Typed, NavTypeOK, Unmount, Dispose
<1>2. CASE s \in Shots
  <2>1. [r \in Shots |-> life'[r]] = [[r \in Shots |-> life[r]] EXCEPT ![s] = "gone"]
    BY <1>1, <1>2, Routes
  <2>2. Previews(stack)' = Previews(stack)
    BY <1>1 DEF Previews, PreviewsAt, Nth
  <2>3. Att!Dispose(s)
    BY <1>1, <1>2, <2>1, <2>2 DEF Att!Dispose
  <2>4. UNCHANGED <<feedbackItems, response, status, studentId, Att!runVars>>
    BY <1>1 DEF attVars, Att!runVars
  <2>5. Att!Unmount(s)
    BY <2>3, <2>4 DEF Att!Unmount
  <2>6. QED
    BY <1>2, <2>5 DEF Att!Next
<1>3. CASE s \notin Shots
  BY <1>1, <1>3, Routes, Unseen
<1>4. QED
  BY <1>2, <1>3

(* A dialog is no preview, nor is a verdict. *)
LEMMA TapCourseSeen == IInv /\ (\E t \in Taps : TapCourse(t)) => [Att!Next]_Att!vars
<1> SUFFICES ASSUME IInv, NEW t \in Taps, TapCourse(t) PROVE [Att!Next]_Att!vars
  OBVIOUS
<1>1. Push(Loading(t)) /\ UNCHANGED attVars /\ stack \in Seq(Base \union Screens)
  BY StackFacts DEF TapCourse, IInv, Typed
<1>2. \A p \in Shots : life'[p] = life[p]
  BY <1>1, Routes, PushFacts DEF IInv, Typed
<1>3. Previews(stack') = Previews(stack)
  BY <1>1, Routes, PreviewsAppend DEF Push
<1>4. QED
  BY <1>1, <1>2, <1>3, Unseen

LEMMA JudgeSeen ==
  ASSUME IInv, NEW t \in Taps, Judge(t) PROVE [Att!Next]_Att!vars
<1>1. run[t] = "locating" /\ UNCHANGED attVars /\ DialogShown(t)
  BY DEF Judge, IInv, OneLocates, DialogShown
<1>2. CASE UNCHANGED navVars
  BY <1>1, <1>2, Unseen DEF navVars
<1>3. CASE PushReplacement(Verdict(t))
  <2>1. PICK n \in Screens : n = Verdict(t) /\ n \notin Shots
    BY Routes DEF Verdict
  <2>2. PushReplacement(n) /\ Last(stack) # Courses
    BY <1>1, <1>3, <2>1, Routes, DialogOnCourses DEF IInv, Typed, DialogShown
  <2>3. \A p \in Shots : life'[p] = IF OnTop(p) THEN "leaving" ELSE life[p]
    BY <2>1, <2>2, Routes, ReplaceFacts DEF IInv, Typed
  <2>4. stack # <<>> /\ stack' = Append(Front(stack), n)
    BY <2>2 DEF PushReplacement
  <2>5. Front(stack) \in Seq(Base \union Screens)
    BY <2>4, StackFacts, FrontAndLast DEF IInv, Typed
  <2>6. Previews(stack') = Previews(Front(stack))
    BY <2>1, <2>4, <2>5, PreviewsAppend
  <2>7. QED
    BY <1>1, <2>3, <2>4, <2>6, PopSeen
<1>4. QED
  BY <1>2, <1>3 DEF Judge

LEMMA PictureTakenSeen == IInv /\ (\E p \in Shots : PictureTaken(p)) => [Att!Next]_Att!vars
<1> SUFFICES ASSUME IInv, NEW p \in Shots, PictureTaken(p) PROVE [Att!Next]_Att!vars
  OBVIOUS
<1>1. UNCHANGED attVars
  BY DEF PictureTaken
<1>2. CASE UNCHANGED navVars
  BY <1>1, <1>2, Unseen DEF navVars
<1>3. CASE Push(p)
  <2>1. stack \in Seq(Base \union Screens) /\ p \in Screens
    BY StackFacts, Routes DEF IInv, Typed
  <2>2. /\ life[p] = "unopened" /\ stack' = Append(stack, p)
        /\ \A r \in Shots : life'[r] = IF r = p THEN "shown" ELSE life[r]
    BY <1>3, Routes DEF Push, IInv, Typed, NavTypeOK
  <2>3. Previews(stack)' = Append(Previews(stack), p)
    <3>1. Previews(stack') = Append(Previews(stack), p)
      BY <2>1, <2>2, PreviewsAppend
    <3>2. QED
      BY <3>1 DEF Previews, PreviewsAt, Nth
  <2>4. [r \in Shots |-> life'[r]] = [[r \in Shots |-> life[r]] EXCEPT ![p] = "shown"]
    BY <2>2
  <2>5. Att!Push(p)
    BY <2>2, <2>3, <2>4 DEF Att!Push
  <2>6. UNCHANGED <<feedbackItems, response, status, studentId, Att!runVars>>
    BY <1>1 DEF attVars, Att!runVars
  <2>7. Att!OpenPreview(p)
    BY <2>5, <2>6 DEF Att!OpenPreview
  <2>8. QED
    BY <2>7 DEF Att!Next
<1>4. QED
  BY <1>2, <1>3 DEF PictureTaken

LEMMA NextSeen == IInv /\ [Next]_vars => [Att!Next]_Att!vars
<1> SUFFICES ASSUME IInv, [Next]_vars PROVE [Att!Next]_Att!vars
  OBVIOUS
<1>1. ASSUME UNCHANGED <<navVars, attVars>> PROVE [Att!Next]_Att!vars
  BY <1>1, Unseen DEF navVars
<1>2. ASSUME NEW p \in Shots,
             CaptureFails(p) \/ (\E t \in Taps : TapCapture(p, t))
      PROVE  [Att!Next]_Att!vars
  BY <1>1, <1>2 DEF CaptureFails, TapCapture
<1>3. ASSUME NEW p \in Shots, ListArrives(p) PROVE [Att!Next]_Att!vars
  BY <1>3 DEF ListArrives, Att!Next
<1>4. ASSUME NEW p \in Shots, NEW c \in Sends, Send(c, p) PROVE [Att!Next]_Att!vars
  BY <1>4 DEF Send, Att!Next
<1>5. ASSUME NEW c \in Sends, Network(c) PROVE [Att!Next]_Att!vars
  BY <1>5 DEF Network, Att!Next
<1>6. ASSUME NEW t \in Taps, PositionArrives(t) \/ PositionFails(t)
      PROVE  [Att!Next]_Att!vars
  BY <1>6, JudgeSeen DEF PositionArrives, PositionFails
<1>7. ASSUME UNCHANGED vars PROVE [Att!Next]_Att!vars
  <2>1. navVars' = navVars /\ attVars' = attVars
    BY <1>7 DEF vars
  <2>2. QED
    BY <1>1, <2>1
<1>8. QED
  BY <1>2, <1>3, <1>4, <1>5, <1>6, <1>7, GoBackSeen, UnmountSeen, TapCourseSeen,
     PictureTakenSeen DEF Next

-----------------------------------------------------------------------------
(* The theorems. *)

(* The strengthening under which the three screens share the Navigator. *)
THEOREM Invariance == Spec => []IInv
BY InitIInv, NextIInv, PTL DEF Spec

(* Every variable keeps its type, those of taking attendance and the stack *)
(* of previews among them (the states of the three screens).               *)
THEOREM TypeCorrect == Spec => []TypeOK
<1>1. IInv => TypeOK
  <2> SUFFICES ASSUME IInv PROVE TypeOK
    OBVIOUS
  <2>1. Previews(stack) \in Seq(Shots)
    BY Routes, StackFacts, PreviewsAppend DEF IInv, Typed
  <2>2. [p \in Shots |-> life[p]] \in [Shots -> {"unopened", "shown", "leaving", "gone"}]
    BY Routes DEF IInv, Typed, NavTypeOK
  <2>3. Att!NavTypeOK
    <3>1. Shots = {} \union Shots
      OBVIOUS
    <3>2. QED
      BY <2>1, <2>2, <3>1 DEF Att!NavTypeOK
  <2>4. Att!TypeOK
    BY <2>3 DEF Att!TypeOK, IInv, Typed, AttTyped
  <2>5. QED
    BY <2>4 DEF TypeOK, IInv, Typed
<1>2. QED
  BY <1>1, Invariance, PTL

(* As long as no picture is late: above Courses there is one dialog, one   *)
(* refusal, or one camera with previews of its own pictures above it       *)
(* (onTap, _onCapturePressed).                                             *)
THEOREM ScreensStayInOrder == Spec => []ScreensInOrder
<1>1. IInv => ScreensInOrder
  <2> SUFFICES ASSUME IInv, late = {} PROVE ScreensInOrder
    BY DEF ScreensInOrder
  <2>1. /\ stack \in Seq(Base \union Screens) /\ stack[1] = Courses
        /\ Len(stack) = 1 => stack = <<stack[1]>>
        /\ Len(stack) = 2 => stack = <<stack[1], stack[2]>>
    BY StackFacts, ShortStacks DEF IInv, Typed, CoursesStays
  <2>2. CASE Len(stack) = 1
    BY <2>1, <2>2 DEF ScreensInOrder
  <2>3. ASSUME NEW t \in Taps, Len(stack) = 2, stack[2] \in {Loading(t), Refusal(t)}
        PROVE  ScreensInOrder
    BY <2>1, <2>3 DEF ScreensInOrder
  <2>4. ASSUME NEW t \in Taps, Len(stack) > 1, stack[2] = Camera(t),
               \A i \in 3..Len(stack) : stack[i] \in Shots /\ origin[stack[i]] = t
        PROVE  ScreensInOrder
    BY <2>4 DEF ScreensInOrder
  <2>5. QED
    BY <2>2, <2>3, <2>4 DEF IInv, ScreensKept, Order
<1>2. QED
  BY <1>1, Invariance, PTL

(* A dialog outlasts its run only if the run threw for want of a position, *)
(* or a late picture took the pop meant for it; in time the waiting run's  *)
(* dialog is on top, and there are never two (onTap, hideOpenDialog).      *)
THEOREM DialogsAreExplained == Spec => []DialogsAreClosed
<1>1. IInv => DialogsAreClosed
  <2> SUFFICES ASSUME IInv PROVE DialogsAreClosed
    OBVIOUS
  <2>1. \A t, u \in Taps : DialogShown(t) /\ DialogShown(u) => t = u
    BY Routes DEF IInv, ScreensKept, DialogsLow
  <2>2. ASSUME late = {}, NEW t \in Taps, run[t] = "locating" PROVE OnTop(Loading(t))
    <3>1. Len(stack) > 1 /\ stack[2] = Loading(t)
      BY <2>2 DEF IInv, OneLocates, ScreensKept, DialogsLow, DialogShown
    <3>2. Len(stack) = 2
      BY <2>2, <3>1, Routes DEF IInv, ScreensKept, Order
    <3>3. stack # <<>> /\ Last(stack) = stack[Len(stack)]
      BY StackFacts DEF IInv, Typed, CoursesStays
    <3>4. QED
      BY <3>1, <3>2, <3>3 DEF OnTop
  <2>3. QED
    BY <2>1, <2>2 DEF DialogsAreClosed, IInv, ScreensKept, DialogsExplained
<1>2. QED
  BY <1>1, Invariance, PTL

(* A dialog left on is never taken away, and no course tapped or judged    *)
(* any more (WillPopScope, onTap, hideOpenDialog).                         *)
THEOREM DialogsLeftOnRemain == Spec => DialogsLeftOnStay
<1> DEFINE Stays == \A t \in Taps : DialogShown(t) /\ run[t] # "locating" =>
                      DialogShown(t)' /\ UNCHANGED run
<1>1. IInv /\ [Next]_vars => [Stays]_vars
  <2> SUFFICES ASSUME IInv, Next, NEW t \in Taps, DialogShown(t), run[t] # "locating"
               PROVE  DialogShown(t)' /\ UNCHANGED run
    OBVIOUS
  <2>1. /\ NavTypeOK /\ Coherent /\ CoursesStays
        /\ Loading(t) \in Screens /\ Loading(t) \notin Shots
        /\ life[Loading(t)] = "shown" /\ Shots \subseteq Screens
    BY Routes DEF IInv, Typed, DialogShown
  <2>2. \A u \in Taps : run[u] # "locating"
    BY Routes DEF IInv, OneLocates, ScreensKept, DialogsLow, DialogShown
  <2>3. ~OnTop(Courses)
    BY <2>1, DialogOnCourses DEF OnTop
  <2>4. CASE GoBack
    <3>1. life'[Loading(t)] = life[Loading(t)]
      BY <2>1, <2>4, PopFacts DEF GoBack
    <3>2. QED
      BY <2>1, <2>4, <3>1 DEF GoBack, tapVars, DialogShown, Loading
  <2>5. ASSUME NEW s \in Screens, Unmount(s) PROVE DialogShown(t)' /\ UNCHANGED run
    <3>1. life'[Loading(t)] = life[Loading(t)]
      BY <2>1, <2>5 DEF Unmount, Dispose, NavTypeOK
    <3>2. QED
      BY <2>1, <2>5, <3>1 DEF Unmount, tapVars, DialogShown, Loading
  <2>6. ASSUME NEW p \in Shots, PictureTaken(p) PROVE DialogShown(t)' /\ UNCHANGED run
    <3>1. Push(p) \/ UNCHANGED navVars
      BY <2>6 DEF PictureTaken
    <3>2. life'[Loading(t)] = life[Loading(t)]
      BY <2>1, <3>1, PushFacts DEF navVars
    <3>3. QED
      BY <2>1, <2>6, <3>2 DEF PictureTaken, tapVars, DialogShown, Loading
  <2>7. ASSUME UNCHANGED <<navVars, run>> PROVE DialogShown(t)' /\ UNCHANGED run
    BY <2>1, <2>7 DEF navVars, DialogShown, Loading
  <2>8. QED
    BY <2>2, <2>3, <2>4, <2>5, <2>6, <2>7
    DEF Next, TapCourse, PositionArrives, PositionFails, Judge, TapCapture,
        CaptureFails, ListArrives, Send, Network, tapVars
<1>2. QED
  BY <1>1, Invariance, PTL DEF Spec, DialogsLeftOnStay

(* Seen from its previews the whole is taking attendance: the routes that  *)
(* Courses and the camera open and close, and the pop of hideOpenDialog    *)
(* that takes a preview, are steps of MarkAttendance or none of its        *)
(* business (onTap, _onCapturePressed, preview_screen).                    *)
THEOREM Refinement == Spec => ImplementsAttendance
<1>1. Init => Att!Init
  BY DEF Init
<1>2. QED
  BY <1>1, NextSeen, Invariance, PTL DEF Spec, ImplementsAttendance, Att!Spec

(* Every row of the sheet comes of a picture taken by a camera that a      *)
(* confirmed position opened (onTap, _onCapturePressed, _submitForm).      *)
THEOREM RowsComeFromConfirmedTaps == Spec => []RowsFromConfirmedTaps
<1>1. IInv => RowsFromConfirmedTaps
  <2> SUFFICES ASSUME IInv, NEW i \in DOMAIN sheet
               PROVE  LET t == origin[sheet[i].screen] IN
                      t # Null /\ judged[t] # Null /\ judged[t] > 10
    BY DEF RowsFromConfirmedTaps
  <2>1. sheet[i].screen \in Shots /\ life[sheet[i].screen] # "unopened"
    BY DEF IInv, SentFromPreviews
  <2>2. origin[sheet[i].screen] \in Taps /\ life[Camera(origin[sheet[i].screen])] # "unopened"
    BY <2>1 DEF IInv, PicturesTaken
  <2>3. /\ judged[origin[sheet[i].screen]] \in Distances
        /\ judged[origin[sheet[i].screen]] > 10
    BY <2>2 DEF IInv, CamerasConfirmed
  <2>4. QED
    BY <2>2, <2>3, Routes
<1>2. QED
  BY <1>1, Invariance, PTL

(* The pop of hideOpenDialog never takes away Courses (onTap).             *)
THEOREM CoursesStaysBelow == Spec => []CoursesStays
<1>1. IInv => CoursesStays
  BY DEF IInv
<1>2. QED
  BY <1>1, Invariance, PTL

-----------------------------------------------------------------------------
(* The refinement of AttendanceGate. *)

(* Only a run that is done has been judged, and only a picture that was    *)
(* tapped for is some tap's: neither happens twice.                        *)
Once ==
  /\ \A t \in Taps : judged[t] # Null => run[t] = "done"
  /\ \A p \in Shots : shot[p] = "idle" => origin[p] = Null

LEMMA OnceKept == IInv /\ Once /\ [Next]_vars => Once'
<1> SUFFICES ASSUME Typed, Once, [Next]_vars PROVE Once'
  BY DEF IInv
<1>1. ASSUME NEW t \in Taps, TapCourse(t) PROVE Once'
  BY <1>1 DEF TapCourse, Once, Typed, shotVars
<1>2. ASSUME NEW t \in Taps, Judge(t) PROVE Once'
  BY <1>2 DEF Judge, Once, Typed, shotVars
<1>3. ASSUME NEW t \in Taps, NEW p \in Shots, TapCapture(p, t) PROVE Once'
  BY <1>3 DEF TapCapture, Once, Typed, tapVars
<1>4. ASSUME NEW p \in Shots, PictureTaken(p) \/ CaptureFails(p) PROVE Once'
  <2>1. UNCHANGED <<run, judged, origin>>
    BY <1>4 DEF PictureTaken, CaptureFails, tapVars
  <2>2. \A q \in Shots : shot'[q] = "idle" => shot[q] = "idle"
    BY <1>4 DEF PictureTaken, CaptureFails, Displayed, Typed
  <2>3. QED
    BY <2>1, <2>2 DEF Once
<1>5. CASE UNCHANGED <<tapVars, shotVars>>
  BY <1>5 DEF Once, tapVars, shotVars
<1>6. QED
  BY <1>1, <1>2, <1>3, <1>4, <1>5
  DEF Next, vars, PositionArrives, PositionFails, GoBack, Unmount, ListArrives, Send,
      Network

(* A judged run was waiting, and had not been judged. *)
LEMMA JudgePasses ==
  ASSUME IInv, Once, NEW t \in Taps, currentPosition' \in Distances \union {Null}, Judge(t)
  PROVE  [Gate!Next]_Gate!vars
<1>1. UNCHANGED <<origin, sheet>> /\ run[t] = "locating"
  BY DEF Judge, shotVars, attVars
<1>2. UNCHANGED <<origin, rows>>
  BY <1>1 DEF rows
<1>3. CASE judged' = judged
  BY <1>2, <1>3 DEF Gate!vars
<1>4. CASE /\ currentPosition' \in Distances
           /\ judged' = [judged EXCEPT ![t] = currentPosition']
  <2>1. judged[t] = Null
    BY <1>1 DEF Once
  <2>2. Gate!Judge(t, currentPosition')
    BY <1>2, <1>4, <2>1 DEF Gate!Judge
  <2>3. QED
    BY <1>4, <2>2 DEF Gate!Next
<1>5. QED
  BY <1>3, <1>4 DEF Judge

(* A camera that is on top was opened by a tap that was confirmed. *)
LEMMA TapCapturePasses ==
  ASSUME IInv, Once, NEW t \in Taps, NEW p \in Shots, TapCapture(p, t)
  PROVE  [Gate!Next]_Gate!vars
<1>1. UNCHANGED <<judged, sheet>> /\ shot[p] = "idle" /\ OnTop(Camera(t))
      /\ origin' = [origin EXCEPT ![p] = t]
  BY DEF TapCapture, tapVars, attVars
<1>2. UNCHANGED <<judged, rows>> /\ origin[p] = Null
  BY <1>1 DEF rows, Once
<1>3. life[Camera(t)] = "shown"
  BY <1>1, Routes, OnTopIsShown DEF IInv, Typed
<1>4. judged[t] \in {d \in Distances : d > 10}
  BY <1>3 DEF IInv, CamerasConfirmed
<1>5. Gate!Take(p, t)
  BY <1>1, <1>2, <1>4 DEF Gate!Take
<1>6. QED
  BY <1>5 DEF Gate!Next

(* The network writes at most one row, of a picture that was taken. *)
LEMMA NetworkPasses ==
  ASSUME IInv, NEW c \in Sends, Network(c)
  PROVE  [Gate!Next]_Gate!vars
<1>1. UNCHANGED <<judged, origin>> /\ Att!Network(c)
  BY DEF Network, tapVars, shotVars
<1>2. CASE sheet' = sheet
  BY <1>1, <1>2 DEF rows, Gate!vars
<1>3. CASE Att!ScriptRuns(c) /\ sheet' # sheet
  <2> DEFINE row == [send |-> c, screen |-> screen[c], matricno |-> matricno[c]]
  <2>1. pc[c] = "posting" /\ sheet' = Append(sheet, row)
    BY <1>3 DEF Att!ScriptRuns
  <2>2. screen[c] \in Shots /\ life[screen[c]] # "unopened"
    BY <2>1 DEF IInv, SentFromPreviews
  <2>3. origin[screen[c]] \in Taps
    BY <2>2 DEF IInv, PicturesTaken
  <2>4. row.screen = screen[c]
    OBVIOUS
  <2> HIDE DEF row
  <2>5. rows' = Append(rows, screen[c])
    <3>1. sheet \in Seq(Att!Row)
      BY DEF IInv, Typed, AttTyped
    <3>2. /\ DOMAIN sheet = 1..Len(sheet) /\ Len(sheet) \in Nat
          /\ DOMAIN sheet' = 1..(Len(sheet) + 1)
          /\ \A i \in 1..Len(sheet) : sheet'[i] = sheet[i]
          /\ sheet'[Len(sheet) + 1] = row
      BY <2>1, <3>1
    <3>3. \A i \in 1..Len(sheet) : sheet[i].screen \in Shots
      BY <3>2 DEF IInv, SentFromPreviews
    <3>4. /\ rows = [i \in 1..Len(sheet) |-> sheet[i].screen]
          /\ rows' = [i \in 1..(Len(sheet) + 1) |-> sheet'[i].screen]
      BY <3>2 DEF rows
    <3>5. rows \in Seq(Shots) /\ Len(rows) = Len(sheet)
      BY <3>2, <3>3, <3>4
    <3> DEFINE longer == Append(rows, screen[c])
    <3>6. /\ longer = [i \in 1..(Len(sheet) + 1) |-> longer[i]]
          /\ \A i \in 1..Len(sheet) : longer[i] = rows[i]
          /\ longer[Len(sheet) + 1] = screen[c]
      BY <2>2, <3>2, <3>5
    <3> HIDE DEF longer
    <3>7. \A i \in 1..(Len(sheet) + 1) : i \in 1..Len(sheet) \/ i = Len(sheet) + 1
      BY <3>2
    <3>8. \A i \in 1..(Len(sheet) + 1) : sheet'[i].screen = longer[i]
      BY <2>4, <3>2, <3>4, <3>6, <3>7
    <3>9. rows' = longer
      BY <3>4, <3>6, <3>8
    <3>10. QED
      BY <3>9 DEF longer
  <2>6. Gate!Record(screen[c])
    BY <1>1, <2>3, <2>5 DEF Gate!Record
  <2>7. QED
    BY <2>2, <2>6 DEF Gate!Next
<1>4. QED
  BY <1>1, <1>2, <1>3
  DEF Att!Network, Att!Recognized, Att!RecognizeFails, Att!RecognizeThrows,
      Att!Proceed, Att!Redirected, Att!Callback, Att!PostFails

(* Every step of Courses, the camera and the previews passes the gate.     *)
LEMMA NextPasses == IInv /\ Once /\ [Next]_vars => [Gate!Next]_Gate!vars
<1> SUFFICES ASSUME IInv, Once, [Next]_vars PROVE [Gate!Next]_Gate!vars
  OBVIOUS
<1>1. ASSUME NEW t \in Taps, PositionArrives(t) \/ PositionFails(t)
      PROVE  [Gate!Next]_Gate!vars
  BY <1>1, JudgePasses DEF PositionArrives, PositionFails, IInv, Typed
<1>2. CASE UNCHANGED <<judged, origin, sheet>>
  BY <1>2 DEF rows, Gate!vars
<1>3. QED
  BY <1>1, <1>2, TapCapturePasses, NetworkPasses
  DEF Next, vars, tapVars, shotVars, attVars, GoBack, Unmount, TapCourse, PictureTaken,
      CaptureFails, ListArrives, Send, Att!FeedbackListArrives, Att!Send, Att!runVars

(* The way from a course to a row is AttendanceGate: judged once, taken    *)
(* for a confirmed tap, recorded of a picture taken, and nothing of it     *)
(* ever changed (onTap, _onCapturePressed, _submitForm).                   *)
THEOREM GateRefinement == Spec => ImplementsGate
<1>1. Init => Once /\ Gate!Init
  <2> SUFFICES ASSUME Init PROVE Once /\ Gate!Init
    OBVIOUS
  <2>1. Once /\ sheet = <<>>
    BY DEF Init, Once, Att!Init
  <2>2. rows = <<>>
    BY <2>1 DEF rows
  <2>3. QED
    BY <2>1, <2>2 DEF Init, Gate!Init
<1>2. Spec => []Once
  BY <1>1, OnceKept, Invariance, PTL DEF Spec
<1>3. QED
  BY <1>1, <1>2, NextPasses, Invariance, PTL DEF Spec, ImplementsGate, Gate!Spec
=============================================================================
