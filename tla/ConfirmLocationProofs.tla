----------------------- MODULE ConfirmLocationProofs -----------------------
(***************************************************************************)
(* Proofs about ConfirmLocation, for any places and distances.             *)
(***************************************************************************)
EXTENDS ConfirmLocation, TLAPS

(* Courses is opened on the profile only, so nothing lies under it. *)
CoursesBelow == \A i \in 1..Len(stack) : stack[i] = "courses" => i = 1

(* While a run waits, its dialog is somewhere, and no verdict of a run     *)
(* before it is left.                                                      *)
RunWaits ==
  run = "locating" => /\ Has("loading") /\ ~Has("camera") /\ ~Has("refusal")
                      /\ near \subseteq visited

IInv ==
  /\ TypeOK
  /\ VerdictOnPosition
  /\ PositionFromThisScreen
  /\ CoursesBelow
  /\ RunWaits
  /\ Has("courses") => here \in visited

(* What is on the stack. *)
LEMMA StackFacts ==
  ASSUME stack \in Seq(Routes)
  PROVE  /\ Len(stack) \in Nat
         /\ \A r : Has(r) <=> \E i \in 1..Len(stack) : stack[i] = r
         /\ stack # <<>> => Len(stack) > 0 /\ Last(stack) = stack[Len(stack)]
         /\ \A r : Top(r) => Has(r)
<1>1. DOMAIN stack = 1..Len(stack) /\ Len(stack) \in Nat
  OBVIOUS
<1>2. stack # <<>> => Len(stack) > 0
  OBVIOUS
<1>3. QED
  BY <1>1, <1>2 DEF Has, Top, ToSet, Last

(* What a push leaves. *)
LEMMA PushFacts ==
  ASSUME stack \in Seq(Routes), NEW r \in Routes, stack' = Append(stack, r)
  PROVE  /\ stack' \in Seq(Routes)
         /\ \A q : Has(q)' <=> Has(q) \/ q = r
         /\ CoursesBelow /\ (r = "courses" => stack = <<>>) => CoursesBelow'
<1>1. /\ stack' \in Seq(Routes) /\ Len(stack') = Len(stack) + 1
      /\ DOMAIN stack' = 1..(Len(stack) + 1) /\ Len(stack) \in Nat
      /\ \A i \in 1..Len(stack) : stack'[i] = stack[i]
      /\ stack'[Len(stack) + 1] = r
  OBVIOUS
<1>2. \A q : Has(q)' <=> \E i \in 1..(Len(stack) + 1) : stack'[i] = q
  BY <1>1 DEF Has, ToSet
<1>3. \A i \in 1..(Len(stack) + 1) : i \in 1..Len(stack) \/ i = Len(stack) + 1
  BY <1>1
<1>4. \A q : Has(q)' <=> (\E i \in 1..Len(stack) : stack[i] = q) \/ q = r
  BY <1>1, <1>2, <1>3
<1>5. stack = <<>> => Len(stack) = 0
  OBVIOUS
<1>6. QED
  BY <1>1, <1>3, <1>4, <1>5, StackFacts DEF CoursesBelow

(* What Front is made of. *)
LEMMA FrontTyped ==
  ASSUME NEW S, NEW q \in Seq(S), q # <<>>
  PROVE  /\ Front(q) \in Seq(S)
         /\ Len(Front(q)) = Len(q) - 1
         /\ \A i \in 1..(Len(q) - 1) : Front(q)[i] = q[i]
<1>1. Len(q) \in Nat /\ Len(q) > 0 /\ DOMAIN q = 1..Len(q)
  OBVIOUS
<1>2. QED
  BY <1>1 DEF Front

(* What a pop leaves. *)
LEMMA FrontFacts ==
  ASSUME stack \in Seq(Routes), stack # <<>>, NEW q \in Seq(Routes), q = Front(stack)
  PROVE  /\ Len(q) = Len(stack) - 1
         /\ \A i \in 1..Len(q) : q[i] = stack[i]
         /\ \A r : r \in ToSet(q) => Has(r)
         /\ \A r : Has(r) /\ Last(stack) # r => r \in ToSet(q)
<1>1. /\ Len(q) = Len(stack) - 1 /\ \A i \in 1..(Len(stack) - 1) : q[i] = stack[i]
  BY FrontTyped
<1>2. DOMAIN q = 1..(Len(stack) - 1) /\ Len(stack) \in Nat
  BY <1>1
<1>3. ASSUME NEW r, r \in ToSet(q) PROVE Has(r)
  <2>1. PICK i \in 1..(Len(stack) - 1) : q[i] = r
    BY <1>2, <1>3 DEF ToSet
  <2>2. i \in 1..Len(stack) /\ stack[i] = r
    BY <1>1, <1>2, <2>1
  <2>3. QED
    BY <2>2, StackFacts
<1>4. ASSUME NEW r, Has(r), Last(stack) # r PROVE r \in ToSet(q)
  <2>1. PICK i \in 1..Len(stack) : stack[i] = r
    BY <1>4, StackFacts
  <2>2. i \in 1..(Len(stack) - 1)
    BY <1>2, <1>4, <2>1, StackFacts
  <2>3. i \in DOMAIN q /\ q[i] = r
    BY <1>1, <1>2, <2>1, <2>2
  <2>4. QED
    BY <2>3 DEF ToSet
<1>5. QED
  BY <1>1, <1>3, <1>4

(* A screen that is not open has judged nothing. *)
LEMMA InitIInv == Init => IInv
<1> SUFFICES ASSUME Init PROVE IInv
  OBVIOUS
<1>1. stack = <<>> /\ stack \in Seq(Routes) /\ Len(stack) = 0 /\ ToSet(stack) = {}
  BY DEF Init, ToSet
<1>2. \A r : ~Has(r)
  BY <1>1 DEF Has
<1>3. TypeOK
  BY <1>1 DEF Init, TypeOK
<1>4. QED
  BY <1>1, <1>2, <1>3
  DEF Init, IInv, VerdictOnPosition, PositionFromThisScreen, CoursesBelow, RunWaits

(* Judging keeps the invariant when it is the position of a place visited. *)
LEMMA JudgeStep ==
  ASSUME IInv, run = "locating", Condition, Judge,
         currentPosition' \in Places \union {Null},
         Has("courses") /\ currentPosition' # Null => currentPosition' \in visited,
         UNCHANGED <<here, near, leaving, visited>>
  PROVE  IInv'
<1> DEFINE verdict == IF distanceInMeters' > 10 THEN "camera" ELSE "refusal"
           rest == Front(stack)
<1>0. /\ TypeOK /\ stack \in Seq(Routes) /\ CoursesBelow /\ Has("loading")
      /\ ~Has("camera") /\ ~Has("refusal") /\ near \subseteq visited
      /\ Has("courses") => here \in visited
  BY DEF IInv, TypeOK, RunWaits
<1>1. CASE run' = "thrown"
  <2>1. currentPosition' = Null /\ UNCHANGED <<stack, distanceInMeters>>
    BY <1>1 DEF Condition, Judge
  <2>2. QED
    BY <1>0, <1>1, <2>1 DEF IInv, TypeOK, VerdictOnPosition, PositionFromThisScreen,
                           CoursesBelow, RunWaits, Has
<1>2. CASE run' # "thrown"
  <2>1. /\ run' = "none" /\ currentPosition' \in Places
        /\ distanceInMeters' = Metres[currentPosition']
        /\ stack' = Append(rest, verdict)
    BY <1>2 DEF Condition, Judge
  <2>2. distanceInMeters' \in Nat /\ verdict \in {"camera", "refusal"}
    BY <2>1, PlacesAssumption
  <2>3. /\ verdict = "camera" => distanceInMeters' > 10
        /\ verdict = "refusal" => distanceInMeters' <= 10
    BY <2>2
  <2>4. stack # <<>>
    BY <1>0, StackFacts
  <2>5. rest \in Seq(Routes)
    BY <1>0, <2>4, FrontTyped
  <2>6. /\ Len(rest) = Len(stack) - 1 /\ Len(stack) \in Nat
        /\ \A i \in 1..Len(rest) : rest[i] = stack[i]
        /\ \A r : r \in ToSet(rest) => Has(r)
    BY <1>0, <2>4, <2>5, FrontFacts, StackFacts
  <2> HIDE DEF verdict, rest
  <2>7. /\ stack' \in Seq(Routes) /\ Len(stack') = Len(rest) + 1
        /\ DOMAIN stack' = 1..(Len(rest) + 1) /\ Len(rest) \in Nat
        /\ \A i \in 1..Len(rest) : stack'[i] = rest[i]
        /\ stack'[Len(rest) + 1] = verdict
    BY <2>1, <2>2, <2>5 DEF Routes
  <2>8. \A r : Has(r)' <=> \E i \in 1..(Len(rest) + 1) : stack'[i] = r
    BY <2>7 DEF Has, ToSet
  <2>9. \A i \in 1..(Len(rest) + 1) : i \in 1..Len(rest) \/ i = Len(rest) + 1
    BY <2>7
  <2>10. \A r : Has(r)' => Has(r) \/ r = verdict
    <3>1. DOMAIN rest = 1..Len(rest)
      BY <2>5
    <3>2. ASSUME NEW i \in 1..Len(rest) PROVE Has(rest[i])
      BY <2>6, <3>1, <3>2 DEF ToSet
    <3>3. QED
      BY <2>7, <2>8, <2>9, <3>2
  <2>11. CoursesBelow'
    <3>1. ASSUME NEW i \in 1..(Len(rest) + 1), stack'[i] = "courses" PROVE i = 1
      <4>1. i \in 1..Len(rest)
        BY <2>2, <2>7, <2>9, <3>1
      <4>2. stack[i] = "courses" /\ i \in 1..Len(stack)
        BY <2>6, <2>7, <3>1, <4>1
      <4>3. QED
        BY <1>0, <4>2 DEF CoursesBelow
    <3>2. QED
      BY <2>7, <3>1 DEF CoursesBelow
  <2>12. VerdictOnPosition'
    <3>1. /\ Has("camera")' => verdict = "camera"
          /\ Has("refusal")' => verdict = "refusal"
      BY <1>0, <2>10
    <3>2. currentPosition' # Null
      BY <2>1, PlacesAssumption
    <3>3. QED
      BY <2>1, <2>3, <3>1, <3>2 DEF VerdictOnPosition
  <2>13. Has("courses")' => Has("courses")
    BY <2>2, <2>10
  <2>14. TypeOK'
    BY <1>0, <2>1, <2>2, <2>7 DEF TypeOK
  <2>15. PositionFromThisScreen' /\ RunWaits' /\ (Has("courses")' => here' \in visited')
    BY <1>0, <2>1, <2>13 DEF PositionFromThisScreen, RunWaits
  <2>16. QED
    BY <2>11, <2>12, <2>14, <2>15 DEF IInv
<1>3. QED
  BY <1>1, <1>2

(* Back takes a screen off, and never the dialog of a run that waits. *)
LEMMA GoBackStep ==
  ASSUME IInv, GoBack
  PROVE  IInv'
<1>1. /\ TypeOK /\ stack \in Seq(Routes) /\ stack # <<>> /\ stack' = Front(stack)
      /\ UNCHANGED <<here, near, run, currentPosition, distanceInMeters, visited>>
      /\ Last(stack) # "loading" /\ leaving' \in BOOLEAN
  BY DEF IInv, TypeOK, GoBack, Top
<1>2. stack' \in Seq(Routes)
  BY <1>1, FrontTyped
<1>3. /\ Len(stack') = Len(stack) - 1 /\ Len(stack) \in Nat
      /\ \A i \in 1..Len(stack') : stack'[i] = stack[i]
      /\ \A r : Has(r)' => Has(r)
      /\ Has("loading") => Has("loading")'
  <2>1. /\ \A r : r \in ToSet(stack') => Has(r)
        /\ \A r : Has(r) /\ Last(stack) # r => r \in ToSet(stack')
        /\ Len(stack') = Len(stack) - 1
        /\ \A i \in 1..Len(stack') : stack'[i] = stack[i]
    BY <1>1, <1>2, FrontFacts
  <2>2. QED
    BY <1>1, <2>1, StackFacts DEF Has
<1>4. CoursesBelow'
  <2>1. \A i \in 1..Len(stack') : i \in 1..Len(stack)
    BY <1>3
  <2>2. QED
    BY <1>3, <2>1 DEF IInv, CoursesBelow
<1>5. TypeOK'
  BY <1>1, <1>2 DEF TypeOK
<1>6. VerdictOnPosition'
  BY <1>1, <1>3 DEF IInv, VerdictOnPosition
<1>7. QED
  BY <1>1, <1>3, <1>4, <1>5, <1>6 DEF IInv, PositionFromThisScreen, RunWaits

(* Every step keeps IInv. *)
LEMMA NextIInv == IInv /\ [Next]_vars => IInv'
<1> SUFFICES ASSUME IInv, [Next]_vars PROVE IInv'
  OBVIOUS
<1>0. /\ TypeOK /\ stack \in Seq(Routes) /\ VerdictOnPosition
      /\ PositionFromThisScreen /\ CoursesBelow /\ RunWaits
      /\ Has("courses") => here \in visited
  BY DEF IInv, TypeOK
<1>1. ASSUME NEW p \in Places, Move(p) PROVE IInv'
  BY <1>0, <1>1 DEF Move, IInv, TypeOK, VerdictOnPosition, PositionFromThisScreen,
                    CoursesBelow, RunWaits, Has
<1>2. CASE OpenCourses
  <2>1. /\ stack' = <<"courses">> /\ run' = "none" /\ currentPosition' = Null
        /\ distanceInMeters' = 0 /\ near' = {} /\ visited' = {here}
        /\ UNCHANGED <<here, leaving>>
    BY <1>2 DEF OpenCourses
  <2>2. stack' \in Seq(Routes) /\ Len(stack') = 1 /\ ToSet(stack') = {"courses"}
    BY <2>1 DEF Routes, ToSet
  <2>3. QED
    BY <1>0, <2>1, <2>2 DEF IInv, TypeOK, VerdictOnPosition, PositionFromThisScreen,
                            CoursesBelow, RunWaits, Has
<1>3. CASE Tap
  <2>1. /\ Top("courses") /\ stack' = Append(stack, "loading") /\ "loading" \in Routes
        /\ run' = "locating" /\ near' = {here}
        /\ UNCHANGED <<here, leaving, currentPosition, distanceInMeters, visited>>
    BY <1>3 DEF Tap, Routes
  <2>2. Has("courses") /\ Len(stack) = 1 /\ stack[1] = "courses"
    <3>1. Has("courses") /\ Len(stack) \in Nat /\ Len(stack) > 0
      BY <1>0, <2>1, StackFacts DEF Top
    <3>2. stack[Len(stack)] = "courses"
      BY <1>0, <2>1, StackFacts DEF Top
    <3>3. Len(stack) \in 1..Len(stack)
      BY <3>1
    <3>4. QED
      BY <1>0, <3>1, <3>2, <3>3 DEF CoursesBelow
  <2>3. ~Has("camera") /\ ~Has("refusal")
    BY <1>0, <2>2, StackFacts
  <2>4. /\ stack' \in Seq(Routes) /\ CoursesBelow'
        /\ \A q : Has(q)' <=> Has(q) \/ q = "loading"
    BY <1>0, <2>1, PushFacts
  <2>5. VerdictOnPosition' /\ RunWaits'
    BY <1>0, <2>1, <2>2, <2>3, <2>4 DEF VerdictOnPosition, RunWaits
  <2>6. QED
    BY <1>0, <2>1, <2>2, <2>4, <2>5 DEF IInv, TypeOK, PositionFromThisScreen
<1>4. CASE PositionArrives
  <2>1. near \subseteq visited /\ near \subseteq Places
    BY <1>0, <1>4 DEF PositionArrives, RunWaits, TypeOK
  <2>2. QED
    BY <1>4, <2>1, JudgeStep DEF PositionArrives
<1>5. CASE PositionFails
  BY <1>0, <1>5, JudgeStep DEF PositionFails, TypeOK, PositionFromThisScreen
<1>6. CASE PictureTaken
  <2>1. /\ stack' = Append(stack, "preview") /\ "preview" \in Routes
        /\ UNCHANGED <<here, near, leaving, run, currentPosition, distanceInMeters,
                       visited>>
    BY <1>6 DEF PictureTaken, Routes
  <2>2. /\ stack' \in Seq(Routes) /\ CoursesBelow'
        /\ \A q : Has(q)' <=> Has(q) \/ q = "preview"
    BY <1>0, <2>1, PushFacts
  <2>3. VerdictOnPosition' /\ RunWaits' /\ PositionFromThisScreen'
    BY <1>0, <2>1, <2>2 DEF VerdictOnPosition, RunWaits, PositionFromThisScreen
  <2>4. QED
    BY <1>0, <2>1, <2>2, <2>3 DEF IInv, TypeOK
<1>7. CASE GoBack
  BY <1>7, GoBackStep
<1>8. CASE Unmount
  BY <1>0, <1>8 DEF Unmount, IInv, TypeOK, VerdictOnPosition, PositionFromThisScreen,
                    CoursesBelow, RunWaits, Has
<1>9. CASE Kill
  <2>1. /\ stack' = <<>> /\ leaving' = FALSE /\ run' = "none"
        /\ UNCHANGED <<here, near, currentPosition, distanceInMeters, visited>>
    BY <1>9 DEF Kill
  <2>2. stack' \in Seq(Routes) /\ Len(stack') = 0 /\ ToSet(stack') = {}
    BY <2>1 DEF ToSet
  <2>3. \A r : ~Has(r)'
    BY <2>2 DEF Has
  <2>4. TypeOK'
    BY <1>0, <2>1, <2>2 DEF TypeOK
  <2>5. QED
    BY <2>1, <2>2, <2>3, <2>4
    DEF IInv, VerdictOnPosition, PositionFromThisScreen, CoursesBelow, RunWaits
<1>10. CASE UNCHANGED vars
  BY <1>0, <1>10 DEF vars, IInv, TypeOK, VerdictOnPosition, PositionFromThisScreen,
                     CoursesBelow, RunWaits, Has
<1>11. QED
  BY <1>1, <1>2, <1>3, <1>4, <1>5, <1>6, <1>7, <1>8, <1>9, <1>10 DEF Next

-----------------------------------------------------------------------------

(* What onTap and _condition keep true between any two of their awaits. *)
THEOREM Invariance == Spec => []IInv
  BY InitIInv, NextIInv, PTL DEF Spec

(* Whatever onTap awaits and in whatever order taps, positions, pictures   *)
(* and Back come, a position is a place the phone can be at and a distance *)
(* a number, or what the fields start with.                                *)
THEOREM TypeCorrect == Spec => []TypeOK
<1>1. IInv => TypeOK
  BY DEF IInv
<1>2. QED
  BY <1>1, Invariance, PTL

(* Every camera and refusal that onTap has opened is still accounted for   *)
(* by the position last obtained, whatever lies above it.                  *)
THEOREM VerdictIsMeasured == Spec => []VerdictOnPosition
<1>1. IInv => VerdictOnPosition
  BY DEF IInv
<1>2. QED
  BY <1>1, Invariance, PTL

(* A stale position that is judged again is at least this screen's. *)
THEOREM PositionIsThisScreens == Spec => []PositionFromThisScreen
<1>1. IInv => PositionFromThisScreen
  BY DEF IInv
<1>2. QED
  BY <1>1, Invariance, PTL
=============================================================================
