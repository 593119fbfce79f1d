------------------------ MODULE MarkAttendanceProofs ------------------------
(***************************************************************************)
(* Proofs about MarkAttendance, for any number of screens, taps, students  *)
(* and confidences: the inductive invariant, the safety properties that    *)
(* follow from it, and the refinement of AttendanceLedger.                 *)
(***************************************************************************)
EXTENDS MarkAttendance, NavigatorProofs, TLAPS

(* A reply that parses is a candidate. *)
LEMMA ParsedIsCandidate ==
  ASSUME NEW r \in Reply \union {NullReply}, Parses(r)
  PROVE  /\ r \in Candidate
         /\ r \in Reply
         /\ r.subject_id \in Students
         /\ screenInfo(r) = [status |-> r.confidence > 65,
                             subjectId |-> r.subject_id]
         /\ screenInfo(r).status \in BOOLEAN
         /\ screenInfo(r).subjectId = r.subject_id
<1>1. r \in Candidate
  BY DEF Parses, Reply, NullReply
<1>2. /\ r.subject_id \in Students
      /\ r.confidence \in 0..100
  BY <1>1, ConfidencesAssumption DEF Candidate
<1>3. QED
  BY <1>1, <1>2 DEF Reply, screenInfo

(* Before a run does anything, nothing is claimed of it: Init is in IInv. *)
LEMMA InitIInv == Init => IInv
<1> SUFFICES ASSUME Init PROVE IInv
  OBVIOUS
<1>1. TypeOK
  BY StudentsAssumption DEF Init, TypeOK, NavTypeOK, Row, Places
<1>2. ASSUME NEW c \in Sends PROVE RunInOrder(c)
  BY DEF Init, RunInOrder
<1>3. ResponseAnswered
  BY DEF Init, ResponseAnswered, Parses, NullReply
<1>4. RowsFromRuns /\ OneRowPerSend
  BY DEF Init, RowsFromRuns, OneRowPerSend
<1>5. ScreenShowsOneAnswer
  BY DEF Init, ScreenShowsOneAnswer, ShowsOneAnswer
<1>6. QED
  BY <1>1, <1>2, <1>3, <1>4, <1>5 DEF IInv

-----------------------------------------------------------------------------
(* Every row was sent by one of the runs. *)
LEMMA RowSent ==
  ASSUME TypeOK, NEW i \in DOMAIN sheet
  PROVE  sheet[i] \in Row /\ sheet[i].send \in Sends
<1>1. sheet \in Seq(Row)
  BY DEF TypeOK
<1>2. sheet[i] \in Row
  BY <1>1
<1>3. QED
  BY <1>2 DEF Row

(* What a screen shows stays backed by an answer and a form as long as    *)
(* answers are only added and forms are kept.                              *)
LEMMA ScreenKept ==
  ASSUME ScreenShowsOneAnswer,
         NEW s \in Screens, status'[s] = status[s], studentId'[s] = studentId[s],
         YetToBeTaken # Null, Null \notin Students,
         TypeOK,
         answers[s] \subseteq answers'[s],
         \A d \in Sends : matricno[d] # Null => /\ matricno'[d] = matricno[d]
                                               /\ screen'[d] = screen[d]
  PROVE  ShowsOneAnswer(s)'
<1>1. CASE studentId[s] = YetToBeTaken
  BY <1>1 DEF ScreenShowsOneAnswer, ShowsOneAnswer
<1>2. CASE studentId[s] # YetToBeTaken
  <2>1. PICK c \in Sends : screen[c] = s /\ matricno[c] = studentId[s]
    BY <1>2 DEF ScreenShowsOneAnswer, ShowsOneAnswer
  <2>2. matricno[c] # Null
    <3>1. studentId[s] \in Students \union {YetToBeTaken}
      BY DEF TypeOK
    <3>2. QED
      BY <3>1, <1>2, <2>1
  <2>3. screen'[c] = s /\ matricno'[c] = studentId'[s]
    BY <2>1, <2>2
  <2>4. PICK a \in answers[s] : /\ a.subject_id = studentId[s]
                               /\ status[s] <=> a.confidence > 65
    BY <1>2 DEF ScreenShowsOneAnswer, ShowsOneAnswer
  <2>5. a \in answers'[s]
    OBVIOUS
  <2>6. QED
    BY <1>2, <2>3, <2>4, <2>5 DEF ShowsOneAnswer
<1>3. QED
  BY <1>1, <1>2

(* Rows stay the forms of successful runs as long as no row is added and  *)
(* the runs that have one keep their status, screen and form.              *)
LEMMA RowsKept ==
  ASSUME TypeOK, RowsFromRuns, sheet' = sheet,
         \A d \in Sends : saved[d] = "SUCCESS" =>
            saved'[d] = saved[d] /\ screen'[d] = screen[d] /\ matricno'[d] = matricno[d]
  PROVE  RowsFromRuns'
<1> SUFFICES ASSUME NEW i \in DOMAIN sheet
             PROVE  /\ saved'[sheet[i].send] = "SUCCESS"
                    /\ sheet[i].screen = screen'[sheet[i].send]
                    /\ sheet[i].matricno = matricno'[sheet[i].send]
  BY DEF RowsFromRuns
<1>1. sheet[i].send \in Sends
  BY RowSent
<1>2. QED
  BY <1>1 DEF RowsFromRuns

(* The steps of a screen's life change nothing a run depends on. *)
LEMMA LifeStep ==
  ASSUME IInv, NEW s \in Screens,
         OpenPreview(s) \/ FeedbackListArrives(s) \/ LeavePreview(s) \/ Unmount(s)
  PROVE  IInv'
<1>1. TypeOK'
  <2>1. [NavStep]_navVars
    <3>1. Push(s) \/ Pop \/ Dispose(s) \/ UNCHANGED navVars
      BY DEF OpenPreview, FeedbackListArrives, LeavePreview, Unmount
    <3>2. QED
      BY <3>1 DEF NavStep
  <2>2. NavTypeOK'
    BY <2>1, NavTyped DEF IInv, TypeOK
  <2>3. QED
    BY <2>2 DEF IInv, TypeOK, OpenPreview, FeedbackListArrives, LeavePreview,
                Unmount, runVars
<1>2. UNCHANGED <<response, status, studentId, pc, screen, matricno, saved,
                  told, sheet, answers>>
  BY DEF OpenPreview, FeedbackListArrives, LeavePreview, Unmount, runVars
<1>3. /\ \A c \in Sends : RunInOrder(c)'
      /\ ResponseAnswered' /\ RowsFromRuns' /\ OneRowPerSend'
  <2>1. ASSUME NEW c \in Sends PROVE RunInOrder(c)'
    BY <1>2 DEF IInv, RunInOrder, Recorded
  <2>2. ResponseAnswered'
    BY <1>2 DEF IInv, ResponseAnswered, Parses
  <2>3. RowsFromRuns' /\ OneRowPerSend'
    BY <1>2 DEF IInv, RowsFromRuns, OneRowPerSend
  <2>4. QED
    BY <2>1, <2>2, <2>3
<1>4. ScreenShowsOneAnswer'
  BY <1>2 DEF IInv, ScreenShowsOneAnswer, ShowsOneAnswer
<1>5. QED
  BY <1>1, <1>3, <1>4 DEF IInv

(* A tap starts a run without form, status or row. *)
LEMMA SendStep ==
  ASSUME IInv, NEW s \in Screens, NEW c \in Sends, Send(c, s)
  PROVE  IInv'
<1> USE DEF Send, Goto, screenVars, navVars, NavTypeOK
<1>1. TypeOK'
  BY DEF IInv, TypeOK, Places
<1>2. ASSUME NEW d \in Sends PROVE RunInOrder(d)'
  <2>1. RunInOrder(d) /\ (Recorded(d)' <=> Recorded(d))
    BY DEF IInv, Recorded
  <2>2. CASE d = c
    BY <2>1, <2>2, StudentsAssumption DEF IInv, TypeOK, RunInOrder
  <2>3. CASE d # c
    BY <2>1, <2>3 DEF IInv, TypeOK, RunInOrder
  <2>4. QED
    BY <2>2, <2>3
<1>3. ResponseAnswered' /\ OneRowPerSend'
  BY DEF IInv, ResponseAnswered, OneRowPerSend
<1>4. RowsFromRuns'
  <2>1. \A d \in Sends : saved[d] = "SUCCESS" => d # c
    BY DEF IInv, RunInOrder
  <2>2. QED
    BY <2>1, RowsKept DEF IInv, TypeOK
<1>5. ScreenShowsOneAnswer'
  <2>1. \A d \in Sends : matricno[d] # Null => d # c
    BY DEF IInv, RunInOrder
  <2>2. ASSUME NEW t \in Screens PROVE ShowsOneAnswer(t)'
    BY <2>1, ScreenKept, StudentsAssumption DEF IInv, TypeOK
  <2>3. QED
    BY <2>2 DEF ScreenShowsOneAnswer
<1>6. QED
  BY <1>1, <1>2, <1>3, <1>4, <1>5 DEF IInv

(* recogImage and setState, fresh or stale: r is an answer for the screen *)
(* of the run if it parses, so the form it submits names such an answer.   *)
LEMMA ProceedStep ==
  ASSUME IInv, NEW c \in Sends, NEW r \in Reply \union {NullReply},
         pc[c] = "recognizing", Proceed(c, r),
         response' \in [Screens -> Reply \union {NullReply}],
         answers' \in [Screens -> SUBSET Candidate],
         \A s \in Screens : answers[s] \subseteq answers'[s],
         Parses(r) => r \in answers'[screen[c]],
         ResponseAnswered'
  PROVE  IInv'
<1> USE DEF Goto
<1>1. /\ TypeOK /\ RunInOrder(c) /\ RowsFromRuns /\ OneRowPerSend
      /\ ScreenShowsOneAnswer
      /\ screen[c] \in Screens /\ matricno[c] = Null /\ saved[c] = "none"
  BY DEF IInv, TypeOK, RunInOrder
<1>2. UNCHANGED <<stack, life, feedbackItems, screen, saved, told, sheet>>
  BY DEF Proceed, navVars
<1>3. OneRowPerSend'
  BY <1>1, <1>2 DEF OneRowPerSend
<1>4. \A d \in Sends : d # c => pc'[d] = pc[d] /\ matricno'[d] = matricno[d]
  BY <1>1 DEF Proceed, Submit, TypeOK
<1>5. RowsFromRuns'
  <2>1. \A d \in Sends : saved[d] = "SUCCESS" => d # c
    BY <1>1
  <2>2. QED
    BY <1>1, <1>2, <1>4, <2>1, RowsKept
<1>6. \A d \in Sends : matricno[d] # Null => matricno'[d] = matricno[d]
  BY <1>1, <1>4
<1>7. ASSUME NEW d \in Sends, d # c PROVE RunInOrder(d)'
  <2>1. RunInOrder(d) /\ (Recorded(d)' <=> Recorded(d))
    BY <1>2 DEF IInv, Recorded
  <2>2. screen[d] # Null => screen[d] \in Screens
    BY <1>1 DEF TypeOK
  <2>3. QED
    BY <1>2, <1>4, <1>7, <2>1, <2>2 DEF RunInOrder
<1>8. CASE Parses(r) /\ Mounted(screen[c]) /\ Submit(c, r)
  <2>1. /\ r \in Candidate /\ r.subject_id \in Students
        /\ screenInfo(r).status \in BOOLEAN
        /\ screenInfo(r).status <=> r.confidence > 65
        /\ screenInfo(r).subjectId = r.subject_id
    BY <1>8, ParsedIsCandidate
  <2>2. /\ status' = [status EXCEPT ![screen[c]] = screenInfo(r).status]
        /\ studentId' = [studentId EXCEPT ![screen[c]] = r.subject_id]
        /\ matricno' = [matricno EXCEPT ![c] = r.subject_id]
        /\ pc' = [pc EXCEPT ![c] = "posting"]
    BY <1>1, <1>8, <2>1 DEF Submit, TypeOK
  <2>3. TypeOK'
    BY <1>1, <1>2, <2>1, <2>2 DEF TypeOK, NavTypeOK, Places
  <2>4. RunInOrder(c)'
    <3>1. pc'[c] = "posting" /\ matricno'[c] = r.subject_id /\ matricno'[c] # Null
      BY <1>1, <2>1, <2>2, StudentsAssumption DEF TypeOK
    <3>2. r \in answers'[screen'[c]]
      BY <1>2, <1>8
    <3>3. QED
      BY <1>1, <1>2, <3>1, <3>2 DEF RunInOrder
  <2>5. ASSUME NEW s \in Screens PROVE ShowsOneAnswer(s)'
    <3>1. CASE s = screen[c]
      <4>1. studentId'[s] = r.subject_id /\ studentId'[s] # YetToBeTaken
        BY <1>1, <2>1, <2>2, <3>1, StudentsAssumption DEF TypeOK
      <4>2. status'[s] <=> r.confidence > 65
        BY <1>1, <2>1, <2>2, <3>1 DEF TypeOK
      <4>3. screen'[c] = s /\ matricno'[c] = studentId'[s]
        BY <1>1, <1>2, <2>2, <3>1, <4>1 DEF TypeOK
      <4>4. r \in answers'[s]
        BY <1>8, <3>1
      <4>5. QED
        BY <4>1, <4>2, <4>3, <4>4 DEF ShowsOneAnswer
    <3>2. CASE s # screen[c]
      <4>1. status'[s] = status[s] /\ studentId'[s] = studentId[s]
        BY <1>1, <2>2, <3>2 DEF TypeOK
      <4>2. QED
        BY <1>1, <1>2, <1>6, <4>1, ScreenKept, StudentsAssumption
    <3>3. QED
      BY <3>1, <3>2
  <2>6. QED
    BY <1>3, <1>5, <1>7, <2>3, <2>4, <2>5 DEF IInv, ScreenShowsOneAnswer
<1>9. CASE /\ pc' = [pc EXCEPT ![c] = "failed"]
           /\ UNCHANGED <<status, studentId, matricno>>
  <2>1. TypeOK'
    BY <1>1, <1>2, <1>9 DEF TypeOK, NavTypeOK, Places
  <2>2. RunInOrder(c)'
    <3>1. pc'[c] = "failed" /\ matricno'[c] = Null
      BY <1>1, <1>9 DEF TypeOK
    <3>2. QED
      BY <1>1, <1>2, <3>1, StudentsAssumption DEF RunInOrder
  <2>3. ASSUME NEW s \in Screens PROVE ShowsOneAnswer(s)'
    BY <1>1, <1>2, <1>6, <1>9, ScreenKept, StudentsAssumption
  <2>4. QED
    BY <1>3, <1>5, <1>7, <2>1, <2>2, <2>3 DEF IInv, ScreenShowsOneAnswer
<1>10. QED
  BY <1>8, <1>9 DEF Proceed

(* A fresh answer becomes the response and is remembered. *)
LEMMA RecognizedStep ==
  ASSUME IInv, NEW c \in Sends, NEW r \in Reply, Recognized(c, r)
  PROVE  IInv'
<1>1. /\ pc[c] = "recognizing" /\ Proceed(c, r) /\ screen[c] \in Screens
      /\ response' = [response EXCEPT ![screen[c]] = r]
      /\ answers' = [answers EXCEPT ![screen[c]] =
                       IF Parses(r) THEN @ \union {r} ELSE @]
  BY DEF Recognized, IInv, TypeOK, RunInOrder
<1>2. response' \in [Screens -> Reply \union {NullReply}]
  BY <1>1 DEF IInv, TypeOK
<1>3. Parses(r) => r \in Candidate
  BY ParsedIsCandidate
<1>4. answers' \in [Screens -> SUBSET Candidate]
  BY <1>1, <1>3 DEF IInv, TypeOK
<1>5. \A s \in Screens : answers[s] \subseteq answers'[s]
  BY <1>1 DEF IInv, TypeOK
<1>6. Parses(r) => r \in answers'[screen[c]]
  BY <1>1 DEF IInv, TypeOK
<1>7. ResponseAnswered'
  <2> SUFFICES ASSUME NEW s \in Screens, Parses(response'[s])
               PROVE  response'[s] \in answers'[s]
    BY DEF ResponseAnswered, Parses
  <2>1. CASE s = screen[c]
    BY <1>1, <1>6, <2>1 DEF IInv, TypeOK
  <2>2. CASE s # screen[c]
    <3>1. response'[s] = response[s]
      BY <1>1, <2>2 DEF IInv, TypeOK
    <3>2. QED
      BY <1>5, <3>1 DEF IInv, ResponseAnswered
  <2>3. QED
    BY <2>1, <2>2
<1>8. QED
  BY <1>1, <1>2, <1>4, <1>5, <1>6, <1>7, ProceedStep

(* A failed request goes on with a response that was answered before. *)
LEMMA RecognizeFailsStep ==
  ASSUME IInv, NEW c \in Sends, RecognizeFails(c)
  PROVE  IInv'
<1>1. /\ pc[c] = "recognizing" /\ Proceed(c, response[screen[c]])
      /\ screen[c] \in Screens /\ UNCHANGED <<response, answers>>
  BY DEF RecognizeFails, IInv, TypeOK, RunInOrder
<1>2. response[screen[c]] \in Reply \union {NullReply}
  BY <1>1 DEF IInv, TypeOK
<1>3. ResponseAnswered'
  BY <1>1 DEF IInv, ResponseAnswered, Parses
<1>4. Parses(response[screen[c]]) => response[screen[c]] \in answers'[screen[c]]
  BY <1>1 DEF IInv, ResponseAnswered
<1>5. QED
  BY <1>1, <1>2, <1>3, <1>4, ProceedStep DEF IInv, TypeOK

(* A run that throws, and the steps after the row is decided, change no    *)
(* row, form or answer.                                                    *)
LEMMA ReplyStep ==
  ASSUME IInv, NEW c \in Sends,
         RecognizeThrows(c) \/ Redirected(c) \/ Callback(c) \/ PostFails(c)
  PROVE  IInv'
<1>1. /\ UNCHANGED <<screenVars, screen, matricno, saved, sheet, answers>>
      /\ \/ pc[c] \in {"posting", "ran", "redirected"}
         \/ pc[c] = "recognizing" /\ pc' = [pc EXCEPT ![c] = "failed"]
      /\ \E q \in {"redirected", "done", "failed"} : pc' = [pc EXCEPT ![c] = q]
      /\ \/ told' = told
         \/ /\ pc' = [pc EXCEPT ![c] = "done"]
            /\ \/ /\ saved[c] = "SUCCESS"
                  /\ told' = [told EXCEPT ![c] = "Attendance Uploaded"]
               \/ /\ saved[c] # "SUCCESS"
                  /\ told' = [told EXCEPT ![c] = "Error Occurred!"]
  BY DEF RecognizeThrows, Redirected, Callback, PostFails, Goto
<1>2. TypeOK'
  BY <1>1 DEF IInv, TypeOK, NavTypeOK, Places, screenVars, navVars
<1>3. ASSUME NEW d \in Sends PROVE RunInOrder(d)'
  <2>1. RunInOrder(d) /\ (Recorded(d)' <=> Recorded(d))
    BY <1>1 DEF IInv, Recorded
  <2>2. pc'[d] # pc[d] =>
           /\ d = c /\ pc'[c] \in {"redirected", "done", "failed"}
           /\ pc[c] = "recognizing" => pc'[c] = "failed"
    BY <1>1 DEF IInv, TypeOK
  <2>3. \/ told'[d] = told[d]
        \/ told'[d] = "Attendance Uploaded" /\ saved[d] = "SUCCESS" /\ pc'[d] = "done"
        \/ told'[d] = "Error Occurred!" /\ saved[d] # "SUCCESS" /\ pc'[d] = "done"
    BY <1>1 DEF IInv, TypeOK
  <2>4. told[c] = "nothing"
    BY <1>1 DEF IInv, RunInOrder
  <2>5. QED
    BY <1>1, <2>1, <2>2, <2>3, <2>4 DEF RunInOrder
<1>4. ResponseAnswered' /\ RowsFromRuns' /\ OneRowPerSend'
  BY <1>1 DEF IInv, ResponseAnswered, RowsFromRuns, OneRowPerSend, screenVars
<1>5. ScreenShowsOneAnswer'
  BY <1>1 DEF IInv, ScreenShowsOneAnswer, ShowsOneAnswer, screenVars
<1>6. QED
  BY <1>2, <1>3, <1>4, <1>5 DEF IInv

(* The script adds the row of a form that has no row yet. *)
LEMMA ScriptRunsStep ==
  ASSUME IInv, NEW c \in Sends, ScriptRuns(c)
  PROVE  IInv'
<1> DEFINE row == [send |-> c, screen |-> screen[c], matricno |-> matricno[c]]
<1>1. /\ TypeOK /\ RunInOrder(c) /\ RowsFromRuns /\ OneRowPerSend
      /\ pc[c] = "posting" /\ saved[c] = "none" /\ told[c] = "nothing"
      /\ screen[c] \in Screens /\ matricno[c] \in Students
  BY StudentsAssumption DEF IInv, TypeOK, RunInOrder, ScriptRuns
<1>2. /\ UNCHANGED <<screenVars, screen, matricno, told, answers>>
      /\ pc' = [pc EXCEPT ![c] = "ran"]
      /\ \/ /\ saved' = [saved EXCEPT ![c] = "SUCCESS"]
            /\ sheet' = Append(sheet, row)
         \/ /\ saved' = [saved EXCEPT ![c] = "ERROR"]
            /\ sheet' = sheet
  BY DEF ScriptRuns, Goto
<1>3. row \in Row /\ sheet \in Seq(Row)
  BY <1>1 DEF Row, TypeOK
<1>4. TypeOK'
  <2>1. sheet' \in Seq(Row)
    BY <1>2, <1>3
  <2>2. pc' \in [Sends -> Places] /\ saved' \in [Sends -> {"none", "SUCCESS", "ERROR"}]
    BY <1>1, <1>2 DEF TypeOK, Places
  <2>3. QED
    BY <1>1, <1>2, <2>1, <2>2 DEF TypeOK, NavTypeOK, screenVars, navVars
<1>5. ~Recorded(c)
  BY <1>1 DEF RowsFromRuns, Recorded
<1>6. ResponseAnswered'
  BY <1>2 DEF IInv, ResponseAnswered, screenVars
<1>7. ScreenShowsOneAnswer'
  BY <1>2 DEF IInv, ScreenShowsOneAnswer, ShowsOneAnswer, screenVars
<1>8. \A d \in Sends : d # c => pc'[d] = pc[d] /\ saved'[d] = saved[d]
  BY <1>1, <1>2 DEF TypeOK
<1>9. pc'[c] = "ran"
  BY <1>1, <1>2 DEF TypeOK
<1>10. CASE saved' = [saved EXCEPT ![c] = "SUCCESS"] /\ sheet' = Append(sheet, row)
  <2>1. /\ DOMAIN sheet' = DOMAIN sheet \union {Len(sheet) + 1}
        /\ Len(sheet) + 1 \notin DOMAIN sheet
        /\ \A i \in DOMAIN sheet : sheet'[i] = sheet[i]
        /\ sheet'[Len(sheet) + 1] = row
    BY <1>3, <1>10
  <2>2. saved'[c] = "SUCCESS"
    BY <1>1, <1>10 DEF TypeOK
  <2>3. \A i \in DOMAIN sheet : sheet[i].send \in Sends /\ sheet[i].send # c
    BY <1>1, <1>5, RowSent DEF Recorded
  <2>4. RowsFromRuns'
    <3> SUFFICES ASSUME NEW i \in DOMAIN sheet'
                 PROVE  /\ saved'[sheet'[i].send] = "SUCCESS"
                        /\ sheet'[i].screen = screen[sheet'[i].send]
                        /\ sheet'[i].matricno = matricno[sheet'[i].send]
      BY <1>2 DEF RowsFromRuns
    <3>1. CASE i \in DOMAIN sheet
      BY <1>1, <1>8, <2>1, <2>3, <3>1 DEF RowsFromRuns
    <3>2. CASE i = Len(sheet) + 1
      BY <2>1, <2>2, <3>2
    <3>3. QED
      BY <2>1, <3>1, <3>2
  <2>5. OneRowPerSend'
    <3> SUFFICES ASSUME NEW i \in DOMAIN sheet', NEW j \in DOMAIN sheet',
                        sheet'[i].send = sheet'[j].send
                 PROVE  i = j
      BY DEF OneRowPerSend
    <3>1. CASE i \in DOMAIN sheet /\ j \in DOMAIN sheet
      BY <1>1, <2>1, <3>1 DEF OneRowPerSend
    <3>2. CASE ~(i \in DOMAIN sheet /\ j \in DOMAIN sheet)
      BY <2>1, <2>3, <3>2
    <3>3. QED
      BY <3>1, <3>2
  <2>6. ASSUME NEW d \in Sends PROVE RunInOrder(d)'
    <3>1. RunInOrder(d)
      BY DEF IInv
    <3>2. Recorded(d) => Recorded(d)'
      BY <2>1 DEF Recorded
    <3>3. Recorded(c)'
      BY <2>1 DEF Recorded
    <3>4. CASE d = c
      BY <1>1, <1>2, <1>9, <2>2, <3>1, <3>3, <3>4, StudentsAssumption DEF RunInOrder
    <3>5. CASE d # c
      BY <1>2, <1>8, <3>1, <3>2, <3>5 DEF RunInOrder
    <3>6. QED
      BY <3>4, <3>5
  <2>7. QED
    BY <1>4, <1>6, <1>7, <2>4, <2>5, <2>6 DEF IInv
<1>11. CASE saved' = [saved EXCEPT ![c] = "ERROR"] /\ sheet' = sheet
  <2>1. saved'[c] = "ERROR"
    BY <1>1, <1>11 DEF TypeOK
  <2>2. RowsFromRuns'
    <3>1. \A d \in Sends : saved[d] = "SUCCESS" => d # c
      BY <1>1
    <3>2. QED
      BY <1>1, <1>2, <1>8, <1>11, <3>1, RowsKept
  <2>3. OneRowPerSend'
    BY <1>1, <1>11 DEF OneRowPerSend
  <2>4. ASSUME NEW d \in Sends PROVE RunInOrder(d)'
    <3>1. RunInOrder(d) /\ (Recorded(d)' <=> Recorded(d))
      BY <1>11 DEF IInv, Recorded
    <3>2. CASE d = c
      BY <1>1, <1>2, <1>9, <2>1, <3>1, <3>2, StudentsAssumption DEF RunInOrder
    <3>3. CASE d # c
      BY <1>2, <1>8, <3>1, <3>3 DEF RunInOrder
    <3>4. QED
      BY <3>2, <3>3
  <2>5. QED
    BY <1>4, <1>6, <1>7, <2>2, <2>3, <2>4 DEF IInv
<1>12. QED
  BY <1>2, <1>10, <1>11

(* Every step keeps IInv. *)
LEMMA NextIInv == IInv /\ [Next]_vars => IInv'
<1> SUFFICES ASSUME IInv, [Next]_vars PROVE IInv'
  OBVIOUS
<1>1. ASSUME NEW s \in Screens,
             OpenPreview(s) \/ FeedbackListArrives(s) \/ LeavePreview(s) \/ Unmount(s)
      PROVE  IInv'
  BY <1>1, LifeStep
<1>2. ASSUME NEW s \in Screens, NEW c \in Sends, Send(c, s) PROVE IInv'
  BY <1>2, SendStep
<1>3. ASSUME NEW c \in Sends, NEW r \in Reply, Recognized(c, r) PROVE IInv'
  BY <1>3, RecognizedStep
<1>4. ASSUME NEW c \in Sends, RecognizeFails(c) PROVE IInv'
  BY <1>4, RecognizeFailsStep
<1>5. ASSUME NEW c \in Sends, ScriptRuns(c) PROVE IInv'
  BY <1>5, ScriptRunsStep
<1>6. ASSUME NEW c \in Sends,
             RecognizeThrows(c) \/ Redirected(c) \/ Callback(c) \/ PostFails(c)
      PROVE  IInv'
  BY <1>6, ReplyStep
<1>7. CASE UNCHANGED vars
  <2> USE <1>7 DEF vars, screenVars, runVars, navVars, NavTypeOK
  <2>1. TypeOK' /\ ResponseAnswered' /\ RowsFromRuns' /\ OneRowPerSend'
    BY DEF IInv, TypeOK, ResponseAnswered, Parses, RowsFromRuns, OneRowPerSend
  <2>2. ASSUME NEW c \in Sends PROVE RunInOrder(c)'
    BY DEF IInv, RunInOrder, Recorded
  <2>3. ScreenShowsOneAnswer'
    BY DEF IInv, ScreenShowsOneAnswer, ShowsOneAnswer
  <2>4. QED
    BY <2>1, <2>2, <2>3 DEF IInv
<1>8. QED
  BY <1>1, <1>2, <1>3, <1>4, <1>5, <1>6, <1>7 DEF Next, Network

-----------------------------------------------------------------------------
(* The inductive invariant of the Send handler: what each run has done by  *)
(* each of its awaits, whatever the other runs and the network do.         *)
THEOREM Invariance == Spec => []IInv
  BY InitIInv, NextIInv, PTL DEF Spec

(* The state of the preview screens, their runs and the sheet stays typed; *)
(* only student ids are ever posted as matricno (submitForm).              *)
THEOREM TypeCorrect == Spec => []TypeOK
<1>1. IInv => TypeOK
  BY DEF IInv
<1>2. QED
  BY <1>1, Invariance, PTL

(* recogImage and _submitForm never put down a student that the service    *)
(* did not recognise in that very picture, stale responses included.       *)
THEOREM RowsAreRecognised == Spec => []RowsRecognised
<1>1. IInv => RowsRecognised
  <2> SUFFICES ASSUME IInv, NEW i \in DOMAIN sheet
               PROVE  \E a \in answers[sheet[i].screen] :
                         a.subject_id = sheet[i].matricno
    BY DEF RowsRecognised
  <2>1. sheet[i] \in Row /\ sheet[i].send \in Sends
    BY RowSent DEF IInv
  <2>2. matricno[sheet[i].send] # Null
    BY <2>1, StudentsAssumption DEF IInv, RowsFromRuns, Row
  <2>3. \E a \in answers[screen[sheet[i].send]] : a.subject_id = matricno[sheet[i].send]
    BY <2>1, <2>2 DEF IInv, RunInOrder
  <2>4. QED
    BY <2>3 DEF IInv, RowsFromRuns
<1>2. QED
  BY <1>1, Invariance, PTL

(* One tap on Send leads to one row at most (submitForm does not retry). *)
THEOREM AtMostOneRow == Spec => []OneRowPerSend
<1>1. IInv => OneRowPerSend
  BY DEF IInv
<1>2. QED
  BY <1>1, Invariance, PTL

(* The snackbar of _submitForm agrees with the sheet. *)
THEOREM Truthful == Spec => []ToldTheTruth
<1>1. IInv => ToldTheTruth
  <2> SUFFICES ASSUME IInv, NEW c \in Sends
               PROVE  /\ told[c] = "Attendance Uploaded" => Recorded(c)
                      /\ told[c] = "Error Occurred!" => ~Recorded(c)
    BY DEF ToldTheTruth
  <2>1. Recorded(c) => saved[c] = "SUCCESS"
    BY DEF IInv, RowsFromRuns, Recorded
  <2>2. QED
    BY <2>1 DEF IInv, RunInOrder
<1>2. QED
  BY <1>1, Invariance, PTL

(* Name and verdict on a screen come from one answer (the setState of      *)
(* onPressed), and a form with that name was posted.                       *)
THEOREM ScreensCohere == Spec => []ScreenShowsOneAnswer
<1>1. IInv => ScreenShowsOneAnswer
  BY DEF IInv
<1>2. QED
  BY <1>1, Invariance, PTL

(* recogImage and submitForm repeat nothing: each answer and each failure  *)
(* takes a run further, so that a tap is over after five of them.          *)
THEOREM RunsAdvance == Spec => RunsOnlyAdvance
<1> DEFINE A == \A c \in Sends : pc'[c] # pc[c] => Rank(pc[c]) < Rank(pc'[c])
<1>1. IInv /\ [Next]_vars => [A]_vars
  <2> SUFFICES ASSUME TypeOK, Next, NEW c \in Sends, pc'[c] # pc[c]
               PROVE  Rank(pc[c]) < Rank(pc'[c])
    BY DEF IInv, vars, runVars
  <2>1. ASSUME NEW d \in Sends, NEW place, Goto(d, place)
        PROVE  d = c /\ pc'[c] = place
    BY <2>1 DEF Goto, TypeOK
  <2>2. ASSUME NEW d \in Sends, NEW s \in Screens, Send(d, s)
        PROVE  pc[c] = "idle" /\ pc'[c] = "recognizing"
    BY <2>1, <2>2 DEF Send
  <2>3. ASSUME NEW d \in Sends, pc[d] = "recognizing", NEW r, Proceed(d, r)
        PROVE  pc[c] = "recognizing" /\ pc'[c] \in {"posting", "failed"}
    BY <2>1, <2>3 DEF Proceed, Submit
  <2>4. ASSUME NEW d \in Sends, ScriptRuns(d)
        PROVE  pc[c] = "posting" /\ pc'[c] = "ran"
    BY <2>1, <2>4 DEF ScriptRuns
  <2>5. ASSUME NEW d \in Sends, Redirected(d)
        PROVE  pc[c] = "ran" /\ pc'[c] = "redirected"
    BY <2>1, <2>5 DEF Redirected
  <2>6. ASSUME NEW d \in Sends, Callback(d) \/ PostFails(d)
        PROVE  /\ pc[c] \in {"posting", "ran", "redirected"}
               /\ pc'[c] \in {"done", "failed"}
    <3>1. /\ pc[d] \in {"posting", "ran", "redirected"}
          /\ Goto(d, "done") \/ Goto(d, "failed")
      BY <2>6 DEF Callback, PostFails
    <3>2. d = c /\ pc'[c] \in {"done", "failed"}
      BY <2>1, <3>1
    <3>3. QED
      BY <3>1, <3>2
  <2>7. ASSUME NEW d \in Sends, RecognizeThrows(d)
        PROVE  pc[c] = "recognizing" /\ pc'[c] = "failed"
    BY <2>1, <2>7 DEF RecognizeThrows
  <2>8. \/ pc[c] = "idle" /\ pc'[c] = "recognizing"
        \/ pc[c] = "recognizing" /\ pc'[c] \in {"posting", "failed"}
        \/ pc[c] = "posting" /\ pc'[c] = "ran"
        \/ pc[c] = "ran" /\ pc'[c] = "redirected"
        \/ /\ pc[c] \in {"posting", "ran", "redirected"}
           /\ pc'[c] \in {"done", "failed"}
    BY <2>2, <2>3, <2>4, <2>5, <2>6, <2>7
    DEF Next, Network, Recognized, RecognizeFails, OpenPreview, FeedbackListArrives,
        LeavePreview, Unmount, runVars
  <2>9. QED
    BY <2>8 DEF Rank
<1>2. QED
  BY <1>1, Invariance, PTL DEF Spec, RunsOnlyAdvance

-----------------------------------------------------------------------------
(* The refinement of AttendanceLedger. *)

named == [s \in Screens |-> {a.subject_id : a \in answers[s]}]

(* An answer names one more student for the picture, or none. *)
LEMMA RecognizedImplements ==
  ASSUME IInv, NEW c \in Sends, NEW r \in Reply, Recognized(c, r)
  PROVE  [Ledger!Next]_Ledger!vars
<1>1. /\ screen[c] \in Screens /\ sheet' = sheet
      /\ answers' = [answers EXCEPT ![screen[c]] =
                       IF Parses(r) THEN @ \union {r} ELSE @]
  BY DEF Recognized, Proceed, IInv, TypeOK, RunInOrder
<1>2. entries' = entries
  BY <1>1 DEF entries
<1>3. CASE Parses(r)
  <2>1. r.subject_id \in Students
    BY <1>3, ParsedIsCandidate
  <2>2. /\ DOMAIN answers' = Screens
        /\ answers'[screen[c]] = answers[screen[c]] \union {r}
        /\ \A s \in Screens \ {screen[c]} : answers'[s] = answers[s]
    BY <1>1, <1>3 DEF IInv, TypeOK
  <2>3. named' = [named EXCEPT ![screen[c]] = @ \union {r.subject_id}]
    <3> DEFINE grown == [named EXCEPT ![screen[c]] = @ \union {r.subject_id}]
    <3>1. \A s \in Screens : named[s] = {a.subject_id : a \in answers[s]}
      BY DEF named
    <3>2. \A s \in Screens : named'[s] = {a.subject_id : a \in answers'[s]}
      BY DEF named
    <3>3. named'[screen[c]] = named[screen[c]] \union {r.subject_id}
      <4>1. \A m : m \in named'[screen[c]] <=>
                      m \in named[screen[c]] \/ m = r.subject_id
        BY <1>1, <2>2, <3>1, <3>2
      <4>2. QED
        BY <4>1
    <3>4. \A s \in Screens \ {screen[c]} : named'[s] = named[s]
      BY <2>2, <3>1, <3>2
    <3>5. /\ DOMAIN named = Screens /\ DOMAIN named' = Screens
          /\ named = [s \in Screens |-> named[s]]
          /\ named' = [s \in Screens |-> named'[s]]
      BY DEF named
    <3>6. /\ grown = [s \in Screens |-> grown[s]]
          /\ \A s \in Screens : grown[s] = IF s = screen[c]
                                            THEN named[s] \union {r.subject_id}
                                            ELSE named[s]
      BY <3>5
    <3>7. \A s \in Screens : named'[s] = grown[s]
      BY <3>3, <3>4, <3>6
    <3> HIDE DEF grown
    <3>8. named' = grown
      BY <3>5, <3>6, <3>7
    <3>9. QED
      BY <3>8 DEF grown
  <2>4. Ledger!Recognise(screen[c], r.subject_id)
    BY <1>2, <2>3 DEF Ledger!Recognise, named
  <2>5. QED
    BY <1>1, <2>1, <2>4 DEF Ledger!Next
<1>4. CASE ~Parses(r)
  <2>1. answers' = answers
    BY <1>1, <1>4 DEF IInv, TypeOK
  <2>2. QED
    BY <1>2, <2>1 DEF Ledger!vars
<1>5. QED
  BY <1>3, <1>4

(* The script enters the student of the form, who was named for the        *)
(* picture and not yet entered for this tap, or enters nobody.             *)
LEMMA ScriptRunsImplements ==
  ASSUME IInv, NEW c \in Sends, ScriptRuns(c)
  PROVE  [Ledger!Next]_Ledger!vars
<1> DEFINE row == [send |-> c, screen |-> screen[c], matricno |-> matricno[c]]
           entry == [send |-> c, picture |-> screen[c], student |-> matricno[c]]
<1>1. /\ answers' = answers /\ screen[c] \in Screens /\ matricno[c] \in Students
      /\ sheet' = Append(sheet, row) \/ sheet' = sheet
      /\ sheet \in Seq(Row) /\ row \in Row
  BY StudentsAssumption DEF ScriptRuns, IInv, TypeOK, RunInOrder, Row
<1>2. CASE sheet' = Append(sheet, row)
  <2>1. ~Ledger!Entered(c)
    <3>1. saved[c] = "none"
      BY DEF ScriptRuns, IInv, RunInOrder
    <3>2. \A i \in DOMAIN sheet : sheet[i].send # c
      BY <3>1 DEF IInv, RowsFromRuns
    <3>3. QED
      BY <3>2 DEF Ledger!Entered, entries
  <2>2. matricno[c] \in named[screen[c]]
    <3>1. PICK a \in answers[screen[c]] : a.subject_id = matricno[c]
      BY <1>1, StudentsAssumption DEF IInv, RunInOrder
    <3>2. QED
      BY <1>1, <3>1 DEF named
  <2>3. entries' = Append(entries, entry)
    <3>1. /\ DOMAIN sheet = 1..Len(sheet) /\ Len(sheet) \in Nat
          /\ DOMAIN sheet' = 1..(Len(sheet) + 1)
          /\ \A i \in DOMAIN sheet : sheet'[i] = sheet[i]
          /\ sheet'[Len(sheet) + 1] = row
      BY <1>1, <1>2
    <3>2. \A i \in DOMAIN sheet : entries[i] = [send |-> sheet[i].send,
                                              picture |-> sheet[i].screen,
                                              student |-> sheet[i].matricno]
      BY DEF entries
    <3>3. \A i \in DOMAIN sheet : sheet[i] \in Row
      BY RowSent DEF IInv
    <3>4. entries \in Seq(Ledger!Entry) /\ Len(entries) = Len(sheet)
      BY <3>1, <3>2, <3>3 DEF entries, Row, Ledger!Entry
    <3>5. DOMAIN Append(entries, entry) = 1..(Len(sheet) + 1)
      BY <3>4
    <3>6. /\ \A i \in 1..Len(sheet) : Append(entries, entry)[i] = entries[i]
          /\ Append(entries, entry)[Len(sheet) + 1] = entry
      BY <3>4
    <3>7. entries' = [i \in 1..(Len(sheet) + 1) |->
                        [send |-> sheet'[i].send, picture |-> sheet'[i].screen,
                         student |-> sheet'[i].matricno]]
      BY <3>1 DEF entries
    <3>8. \A i \in 1..(Len(sheet) + 1) : entries'[i] = Append(entries, entry)[i]
      <4> SUFFICES ASSUME NEW i \in 1..(Len(sheet) + 1)
                   PROVE  entries'[i] = Append(entries, entry)[i]
        OBVIOUS
      <4>1. entries'[i] = [send |-> sheet'[i].send, picture |-> sheet'[i].screen,
                           student |-> sheet'[i].matricno]
        BY <3>7
      <4>2. CASE i \in 1..Len(sheet)
        <5>1. sheet'[i] = sheet[i]
          BY <3>1, <4>2
        <5>2. entries'[i] = entries[i]
          BY <3>1, <3>2, <4>1, <4>2, <5>1
        <5>3. Append(entries, entry)[i] = entries[i]
          BY <3>6, <4>2
        <5>4. QED
          BY <5>2, <5>3
      <4>3. CASE i = Len(sheet) + 1
        <5>1. entries'[i] = entry
          BY <3>1, <4>1, <4>3
        <5> HIDE DEF entry
        <5>2. Append(entries, entry)[i] = entry
          BY <3>6, <4>3
        <5>3. QED
          BY <5>1, <5>2
      <4>4. i \in 1..Len(sheet) \/ i = Len(sheet) + 1
        BY <3>1
      <4>5. QED
        BY <4>2, <4>3, <4>4
    <3>9. Append(entries, entry) = [i \in 1..(Len(sheet) + 1) |-> Append(entries, entry)[i]]
      BY <3>4, <3>5
    <3>10. QED
      BY <3>7, <3>8, <3>9
  <2>4. UNCHANGED named
    BY <1>1 DEF named
  <2>5. Ledger!Enter(c, screen[c], matricno[c])
    BY <2>1, <2>2, <2>3, <2>4 DEF Ledger!Enter, named
  <2>6. QED
    BY <1>1, <2>5 DEF Ledger!Next
<1>3. CASE sheet' = sheet
  BY <1>1, <1>3 DEF Ledger!vars, entries
<1>4. QED
  BY <1>1, <1>2, <1>3

(* Every step of the Send handler is a step of the ledger or leaves it as *)
(* it is: the whole of recogImage, submitForm and their callbacks keeps    *)
(* the promise of AttendanceLedger.                                        *)
THEOREM Refinement == Spec => ImplementsLedger
<1>1. Init => Ledger!Init
  BY DEF Init, Ledger!Init, entries
<1>2. IInv /\ [Next]_vars => [Ledger!Next]_Ledger!vars
  <2> SUFFICES ASSUME IInv, [Next]_vars PROVE [Ledger!Next]_Ledger!vars
    OBVIOUS
  <2>1. ASSUME NEW c \in Sends, NEW r \in Reply, Recognized(c, r)
        PROVE  [Ledger!Next]_Ledger!vars
    BY <2>1, RecognizedImplements
  <2>2. ASSUME NEW c \in Sends, ScriptRuns(c)
        PROVE  [Ledger!Next]_Ledger!vars
    BY <2>2, ScriptRunsImplements
  <2>3. CASE UNCHANGED <<sheet, answers>>
    BY <2>3 DEF Ledger!vars, entries
  <2>4. ASSUME NEW c \in Sends,
               \/ RecognizeFails(c) \/ RecognizeThrows(c) \/ Redirected(c)
               \/ Callback(c) \/ PostFails(c)
        PROVE  UNCHANGED <<sheet, answers>>
    BY <2>4 DEF RecognizeFails, RecognizeThrows, Proceed, Redirected, Callback, PostFails
  <2>5. ASSUME NEW s \in Screens,
               \/ OpenPreview(s) \/ FeedbackListArrives(s) \/ LeavePreview(s)
               \/ Unmount(s) \/ \E c \in Sends : Send(c, s)
        PROVE  UNCHANGED <<sheet, answers>>
    BY <2>5 DEF OpenPreview, FeedbackListArrives, LeavePreview, Unmount, Send,
               runVars
  <2>6. CASE UNCHANGED vars
    BY <2>3, <2>6 DEF vars, runVars
  <2>7. QED
    BY <2>1, <2>2, <2>3, <2>4, <2>5, <2>6 DEF Next, Network
<1>3. QED
  BY <1>1, <1>2, Invariance, PTL DEF Spec, ImplementsLedger, Ledger!Spec
=============================================================================
