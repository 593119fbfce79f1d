------------------------ MODULE FaceEnrolmentProofs ------------------------
(***************************************************************************)
(* Proofs about FaceEnrolment, for any numbers of camera screens, pictures *)
(* and uploads.                                                            *)
(***************************************************************************)
EXTENDS FaceEnrolment, NavigatorProofs, FiniteSetTheorems, SequenceTheorems,
        TLAPS

(* The screens of this module are never under another route. *)
OnTopOnly == \A i \in 1..(Len(stack) - 1) : stack[i] \in Base

(* As long as nobody was late, the stack begins as it was at first. *)
Untouched ==
  late = {} => Len(stack) >= 2 /\ stack[1] = Start /\ stack[2] = Profile

(* A run acts for a screen of its own kind, and the preview of a picture   *)
(* is opened when the picture has been taken.                              *)
RunsHaveScreens ==
  /\ \A p \in Shots : shot[p] = "taking" => visit[p] \in Visits
  /\ \A u \in Uploads : upload[u] # "idle" => picture[u] \in Shots
  /\ \A p \in Shots : life[p] # "unopened" => shot[p] = "displayed"

(* A run has been late once at most, when it ended. *)
LateOnce ==
  /\ IsFiniteSet(late)
  /\ \A p \in Shots : p \in late => shot[p] = "displayed"
  /\ \A u \in Uploads : u \in late => upload[u] = "done"

Missing == {Start, Profile} \ ToSet(stack)

IInv == /\ TypeOK /\ Coherent
        /\ OnTopOnly /\ Untouched
        /\ RunsHaveScreens /\ LateOnce
        /\ BaseRoutesKept

-----------------------------------------------------------------------------
(* What the Navigator does here. *)

(* The stack is a sequence of routes, each of them once. *)
LEMMA StackFacts ==
  ASSUME TypeOK, Coherent
  PROVE  /\ stack \in Seq(Base \union Screens) /\ Len(stack) \in Nat
         /\ DOMAIN stack = 1..Len(stack)
         /\ \A i \in 1..Len(stack) : stack[i] \in Base \union Screens
         /\ \A i, j \in 1..Len(stack) : stack[i] = stack[j] => i = j
         /\ \A r : r \in ToSet(stack) <=> \E i \in 1..Len(stack) : stack[i] = r
<1>1. stack \in Seq(Base \union Screens)
  BY DEF TypeOK, NavTypeOK
<1>2. DOMAIN stack = 1..Len(stack) /\ Len(stack) \in Nat
  BY <1>1
<1>3. QED
  BY <1>1, <1>2 DEF Coherent, ToSet

(* A screen that is shown is on top. *)
LEMMA ShownOnTop ==
  ASSUME TypeOK, Coherent, OnTopOnly, NEW s \in Screens, life[s] = "shown"
  PROVE  stack # <<>> /\ Last(stack) = s /\ s \notin Base /\ stack[Len(stack)] = s
<1>1. PICK i \in 1..Len(stack) : stack[i] = s
  BY StackFacts DEF Coherent
<1>2. s \notin Base
  BY NavigatorAssumption
<1>3. i = Len(stack) /\ Len(stack) > 0
  <2>1. Len(stack) \in Nat
    BY StackFacts
  <2>2. i \notin 1..(Len(stack) - 1)
    BY <1>1, <1>2 DEF OnTopOnly
  <2>3. QED
    BY <2>1, <2>2
<1>4. QED
  BY <1>1, <1>2, <1>3, StackFacts DEF Last

(* Pop takes the route on top away, and opens nothing. *)
LEMMA PopFacts ==
  ASSUME TypeOK, Coherent, OnTopOnly, Pop
  PROVE  /\ Len(stack) > 0 /\ Len(stack') = Len(stack) - 1
         /\ \A i \in 1..(Len(stack) - 1) : stack'[i] = stack[i]
         /\ OnTopOnly'
         /\ \A r : r \in ToSet(stack) /\ r # Last(stack) => r \in ToSet(stack')
         /\ \A s \in Screens : life'[s] = "unopened" <=> life[s] = "unopened"
<1>1. /\ Len(stack) > 0 /\ Len(stack') = Len(stack) - 1
      /\ \A i \in 1..(Len(stack) - 1) : stack'[i] = stack[i]
      /\ Last(stack) = stack[Len(stack)]
      /\ stack' \in Seq(Base \union Screens)
  BY StackFacts, FrontAndLast DEF Pop
<1>2. OnTopOnly'
  BY <1>1, StackFacts DEF OnTopOnly
<1>3. DOMAIN stack' = 1..(Len(stack) - 1)
  BY <1>1
<1>4. ASSUME NEW r, r \in ToSet(stack), r # Last(stack) PROVE r \in ToSet(stack')
  <2>1. PICK i \in 1..Len(stack) : stack[i] = r
    BY <1>4, StackFacts
  <2>2. i \in 1..(Len(stack) - 1)
    BY <1>1, <1>4, <2>1, StackFacts
  <2>3. QED
    BY <1>1, <1>3, <2>1, <2>2 DEF ToSet
<1>5. ASSUME NEW s \in Screens PROVE life'[s] = "unopened" <=> life[s] = "unopened"
  <2>1. life'[s] = IF s = Last(stack) THEN "leaving" ELSE life[s]
    BY DEF Pop, Without
  <2>2. s = Last(stack) => life[s] = "shown"
    BY <1>1, StackFacts DEF Coherent
  <2>3. QED
    BY <2>1, <2>2
<1>6. QED
  BY <1>1, <1>2, <1>4, <1>5

(* PushReplacement puts its screen in the place of the route on top. *)
LEMMA ReplaceFacts ==
  ASSUME TypeOK, Coherent, OnTopOnly, NEW n \in Screens, PushReplacement(n)
  PROVE  /\ Len(stack) > 0 /\ Len(stack') = Len(stack)
         /\ \A i \in 1..(Len(stack) - 1) : stack'[i] = stack[i]
         /\ OnTopOnly'
         /\ \A r : r \in ToSet(stack) /\ r # Last(stack) => r \in ToSet(stack')
         /\ life'[n] = "shown" /\ life[n] = "unopened"
         /\ \A s \in Screens \ {n} : life'[s] = "unopened" <=> life[s] = "unopened"
<1> DEFINE q == Front(stack)
<1>1. /\ Len(stack) > 0 /\ Len(q) = Len(stack) - 1
      /\ \A i \in 1..(Len(stack) - 1) : q[i] = stack[i]
      /\ Last(stack) = stack[Len(stack)]
      /\ q \in Seq(Base \union Screens) /\ stack' = Append(q, n)
  BY StackFacts, FrontAndLast DEF PushReplacement
<1> HIDE DEF q
<1>2. /\ Len(stack') = Len(stack) /\ DOMAIN stack' = 1..Len(stack)
      /\ \A i \in 1..(Len(stack) - 1) : stack'[i] = stack[i]
  BY <1>1, StackFacts
<1>3. OnTopOnly'
  BY <1>1, <1>2, StackFacts DEF OnTopOnly
<1>4. ASSUME NEW r, r \in ToSet(stack), r # Last(stack) PROVE r \in ToSet(stack')
  <2>1. PICK i \in 1..Len(stack) : stack[i] = r
    BY <1>4, StackFacts
  <2>2. i \in 1..(Len(stack) - 1)
    BY <1>1, <1>4, <2>1, StackFacts
  <2>3. QED
    BY <1>2, <2>1, <2>2, StackFacts DEF ToSet
<1>5. /\ life[n] = "unopened" /\ life'[n] = "shown"
      /\ \A s \in Screens \ {n} :
            life'[s] = IF s = Last(stack) THEN "leaving" ELSE life[s]
  BY DEF PushReplacement, Without
<1>6. ASSUME NEW s \in Screens \ {n} PROVE life'[s] = "unopened" <=> life[s] = "unopened"
  <2>1. s = Last(stack) => life[s] = "shown"
    BY <1>1, StackFacts DEF Coherent
  <2>2. QED
    BY <1>5, <2>1
<1>7. QED
  BY <1>1, <1>2, <1>3, <1>4, <1>5, <1>6

(* A run takes one route away: that of its own screen, or it is late.      *)
LEMMA OneRouteTooMany ==
  ASSUME TypeOK, Coherent, OnTopOnly, LateOnce, BaseRoutesKept,
         NEW s \in Screens, NEW run, run \notin late, ActsFor(s, run), Mounted(s),
         \A r : r \in ToSet(stack) /\ r # Last(stack) => r \in ToSet(stack')
  PROVE  BaseRoutesKept' /\ IsFiniteSet(late')
<1>1. Base = {Start, Profile} /\ Missing \in SUBSET Base /\ Missing' \in SUBSET Base
  BY RoutesAssumption DEF Missing
<1>2. IsFiniteSet(Base)
  <2>1. Base = {Start} \union {Profile} /\ IsFiniteSet({Start})
    BY <1>1, FS_Singleton
  <2>2. QED
    BY <2>1, FS_AddElement
<1>3. /\ IsFiniteSet(Missing) /\ Cardinality(Missing) \in Nat
      /\ IsFiniteSet(late) /\ Cardinality(late) \in Nat
  BY <1>1, <1>2, FS_Subset, FS_CardinalityType DEF LateOnce
<1>4. Cardinality(Missing) <= Cardinality(late)
  BY DEF BaseRoutesKept, Missing
<1>5. CASE life[s] = "shown"
  <2>1. Last(stack) \notin Base
    BY <1>5, ShownOnTop
  <2>2. late' = late /\ Missing' \in SUBSET Missing
    BY <1>1, <1>5, <2>1 DEF ActsFor, Missing
  <2>3. Cardinality(Missing') <= Cardinality(Missing) /\ Cardinality(Missing') \in Nat
    BY <1>3, <2>2, FS_Subset, FS_CardinalityType
  <2>4. Cardinality(Missing') <= Cardinality(late')
    BY <1>3, <1>4, <2>2, <2>3
  <2>5. QED
    BY <1>3, <2>2, <2>4 DEF BaseRoutesKept, Missing
<1>6. CASE life[s] = "leaving"
  <2> DEFINE M == Missing \union {Last(stack)}
  <2>1. late' = late \union {run} /\ Missing' \in SUBSET M
    BY <1>1, <1>6 DEF ActsFor, Missing
  <2>2. /\ IsFiniteSet(M) /\ Cardinality(M) <= Cardinality(Missing) + 1
        /\ Cardinality(M) \in Nat
    <3>1. /\ IsFiniteSet(M)
          /\ Cardinality(M) = IF Last(stack) \in Missing THEN Cardinality(Missing)
                              ELSE Cardinality(Missing) + 1
      BY <1>3, FS_AddElement
    <3>2. QED
      BY <1>3, <3>1
  <2>3. Cardinality(Missing') <= Cardinality(M) /\ Cardinality(Missing') \in Nat
    BY <2>1, <2>2, FS_Subset, FS_CardinalityType
  <2>4. IsFiniteSet(late') /\ Cardinality(late') = Cardinality(late) + 1
    BY <1>3, <2>1, FS_AddElement
  <2>5. Cardinality(Missing') <= Cardinality(late')
    BY <1>3, <1>4, <2>2, <2>3, <2>4
  <2>6. QED
    BY <2>4, <2>5 DEF BaseRoutesKept, Missing
<1>7. QED
  BY <1>5, <1>6 DEF Mounted

-----------------------------------------------------------------------------

LEMMA InitIInv == Init => IInv
<1> SUFFICES ASSUME Init PROVE IInv
  OBVIOUS
<1>1. /\ Base = {Start, Profile} /\ Start # Profile /\ Screens \intersect Base = {}
      /\ Shots \subseteq Screens /\ Visits \subseteq Screens
  BY RoutesAssumption, NavigatorAssumption
<1>2. /\ stack = <<Start, Profile>> /\ Len(stack) = 2 /\ DOMAIN stack = 1..2
      /\ stack[1] = Start /\ stack[2] = Profile
      /\ \A s \in Screens : life[s] = "unopened"
  BY DEF Init
<1>3. stack \in Seq(Base \union Screens) /\ paths \in Seq(Shots)
  BY <1>1, <1>2 DEF Init
<1>4. TypeOK
  BY <1>3 DEF Init, TypeOK, NavTypeOK
<1>5. Coherent
  BY <1>1, <1>2 DEF Coherent
<1>6. OnTopOnly /\ Untouched
  BY <1>1, <1>2 DEF OnTopOnly, Untouched
<1>7. RunsHaveScreens /\ LateOnce
  BY <1>1, <1>2, FS_EmptySet DEF Init, RunsHaveScreens, LateOnce
<1>8. BaseRoutesKept
  <2>1. ToSet(stack) = {Start, Profile}
    BY <1>2 DEF ToSet
  <2>2. Cardinality({Start, Profile} \ ToSet(stack)) = 0 /\ Cardinality(late) = 0
    BY <2>1, FS_EmptySet DEF Init
  <2>3. QED
    BY <2>2 DEF BaseRoutesKept
<1>9. QED
  BY <1>4, <1>5, <1>6, <1>7, <1>8 DEF IInv

-----------------------------------------------------------------------------

(* The Navigator is only changed by its own operations. *)
LEMMA NextNav == Next \/ UNCHANGED vars => [NavStep]_navVars
<1> SUFFICES ASSUME Next \/ UNCHANGED vars PROVE [NavStep]_navVars
  OBVIOUS
<1>1. Visits \subseteq Screens /\ Shots \subseteq Screens
  BY RoutesAssumption
<1>2. QED
  BY <1>1 DEF Next, vars, NavStep, GoBack, Unmount, OpenCamera, TapCapture, PictureTaken,
              CaptureFails, TapUpload, ServiceEnrols, EnrollReturns, EnrollThrows

(* The state keeps its types. *)
LEMMA NextTyped == IInv /\ [Next]_vars => TypeOK' /\ Coherent'
<1> SUFFICES ASSUME IInv, [Next]_vars PROVE TypeOK' /\ Coherent'
  OBVIOUS
<1>1. NavTypeOK' /\ Coherent'
  BY NextNav, NavTyped, NavCoherent DEF IInv, TypeOK
<1>2. TypeOK
  BY DEF IInv
<1>3. ASSUME NEW p \in Shots, PictureTaken(p) PROVE TypeOK'
  <2>1. paths' \in Seq(Shots)
    BY <1>2, <1>3 DEF TypeOK, PictureTaken
  <2>2. QED
    BY <1>1, <1>2, <1>3, <2>1 DEF TypeOK, PictureTaken, ActsFor, uploadVars
<1>4. ASSUME NEW u \in Uploads, EnrollReturns(u) PROVE TypeOK'
  <2>1. upload[u] = "enrolling" => picture[u] \in Shots
    BY DEF IInv, RunsHaveScreens
  <2>2. QED
    BY <1>1, <1>2, <1>4, <2>1 DEF TypeOK, EnrollReturns, ActsFor, shotVars
<1>5. ASSUME NEW u \in Uploads, ServiceEnrols(u) PROVE TypeOK'
  <2>1. upload[u] # "idle" => picture[u] \in Shots
    BY DEF IInv, RunsHaveScreens
  <2>2. QED
    BY <1>1, <1>2, <1>5, <2>1 DEF TypeOK, ServiceEnrols, shotVars
<1>6. ASSUME NEW p \in Shots, NEW v \in Visits, TapCapture(p, v) PROVE TypeOK'
  BY <1>1, <1>2, <1>6 DEF TypeOK, TapCapture, uploadVars
<1>7. ASSUME NEW p \in Shots, NEW u \in Uploads, TapUpload(u, p) PROVE TypeOK'
  BY <1>1, <1>2, <1>7 DEF TypeOK, TapUpload, shotVars
<1>8. ASSUME NEW p \in Shots, CaptureFails(p) PROVE TypeOK'
  BY <1>1, <1>2, <1>8 DEF TypeOK, CaptureFails, uploadVars
<1>9. ASSUME NEW u \in Uploads, EnrollThrows(u) PROVE TypeOK'
  BY <1>1, <1>2, <1>9 DEF TypeOK, EnrollThrows, shotVars
<1>10. ASSUME \/ GoBack \/ \E s \in Screens : Unmount(s)
              \/ \E v \in Visits : OpenCamera(v)
              \/ UNCHANGED vars
       PROVE  TypeOK'
  BY <1>1, <1>2, <1>10 DEF TypeOK, GoBack, Unmount, OpenCamera, vars, shotVars, uploadVars
<1>11. QED
  BY <1>1, <1>3, <1>4, <1>5, <1>6, <1>7, <1>8, <1>9, <1>10 DEF Next

(* Steps that leave the Navigator and late alone. *)
LEMMA NavigatorAlone ==
  ASSUME IInv, UNCHANGED navVars, UNCHANGED late
  PROVE  OnTopOnly' /\ Untouched' /\ BaseRoutesKept'
  BY DEF IInv, navVars, OnTopOnly, Untouched, BaseRoutesKept

Rest == OnTopOnly /\ Untouched /\ RunsHaveScreens /\ LateOnce /\ BaseRoutesKept

(* A picture that is displayed replaces its camera, or the run is late.    *)
LEMMA PictureTakenKeeps ==
  ASSUME IInv, NEW p \in Shots, PictureTaken(p)
  PROVE  Rest'
<1>0. /\ TypeOK /\ Coherent /\ OnTopOnly /\ Untouched
      /\ RunsHaveScreens /\ LateOnce /\ BaseRoutesKept
      /\ shot[p] = "taking" /\ visit[p] \in Visits
      /\ p \in Screens /\ visit[p] \in Screens
      /\ Shots \intersect Uploads = {}
  BY RoutesAssumption DEF IInv, RunsHaveScreens, PictureTaken
<1>1. life[p] = "unopened" /\ p \notin late
  BY <1>0 DEF RunsHaveScreens, LateOnce
<1>2. /\ paths' = Append(paths, p) /\ paths \in Seq(Shots)
      /\ UNCHANGED <<visit, upload, picture, gallery, told>>
  BY <1>0 DEF PictureTaken, uploadVars, TypeOK
<1>3. CASE /\ Mounted(visit[p])
           /\ shot' = [shot EXCEPT ![p] = "displayed"]
           /\ PushReplacement(p)
           /\ ActsFor(visit[p], p)
  <2>1. OnTopOnly'
    BY <1>0, <1>3, ReplaceFacts
  <2>2. BaseRoutesKept' /\ IsFiniteSet(late')
    BY <1>0, <1>1, <1>3, ReplaceFacts, OneRouteTooMany
  <2>3. Untouched'
    <3>1. SUFFICES ASSUME late' = {}
                   PROVE  Len(stack') >= 2 /\ stack'[1] = Start /\ stack'[2] = Profile
      BY DEF Untouched
    <3>2. late = {} /\ life[visit[p]] = "shown"
      BY <1>3, <3>1 DEF ActsFor, Mounted
    <3>3. stack[Len(stack)] \notin {Start, Profile}
      BY <1>0, <3>2, ShownOnTop, RoutesAssumption
    <3>4. /\ Len(stack) \in Nat /\ Len(stack) >= 2
          /\ stack[1] = Start /\ stack[2] = Profile
      BY <1>0, <3>2, StackFacts DEF Untouched
    <3>5. 1 \in 1..(Len(stack) - 1) /\ 2 \in 1..(Len(stack) - 1)
      BY <3>3, <3>4
    <3>6. /\ Len(stack') = Len(stack)
          /\ \A i \in 1..(Len(stack) - 1) : stack'[i] = stack[i]
      BY <1>0, <1>3, ReplaceFacts
    <3>7. QED
      BY <3>4, <3>5, <3>6
  <2>4. /\ life'[p] = "shown"
        /\ \A s \in Screens \ {p} : life'[s] = "unopened" <=> life[s] = "unopened"
    BY <1>0, <1>3, ReplaceFacts
  <2>5. /\ shot \in [Shots -> {"idle", "taking", "displayed", "failed"}]
        /\ Shots \subseteq Screens
    BY <1>0, RoutesAssumption DEF TypeOK
  <2>6. RunsHaveScreens'
    BY <1>0, <1>2, <1>3, <2>4, <2>5 DEF RunsHaveScreens
  <2>7. LateOnce'
    BY <1>0, <1>2, <1>3, <2>2, <2>5 DEF LateOnce, ActsFor
  <2>8. QED
    BY <2>1, <2>2, <2>3, <2>6, <2>7 DEF Rest
<1>4. CASE shot' = [shot EXCEPT ![p] = "failed"] /\ UNCHANGED <<navVars, late>>
  <2>1. shot \in [Shots -> {"idle", "taking", "displayed", "failed"}]
    BY <1>0 DEF TypeOK
  <2>2. life' = life
    BY <1>4 DEF navVars
  <2>3. RunsHaveScreens'
    BY <1>0, <1>1, <1>2, <1>4, <2>1, <2>2 DEF RunsHaveScreens
  <2>4. LateOnce'
    BY <1>0, <1>2, <1>4, <2>1 DEF LateOnce
  <2>5. QED
    BY <1>4, <2>3, <2>4, NavigatorAlone DEF Rest
<1>5. QED
  BY <1>3, <1>4 DEF PictureTaken

(* Routes popped by Back or by an upload keep the rest in order.           *)
LEMMA PopKeeps ==
  ASSUME IInv, Pop
  PROVE  /\ OnTopOnly'
         /\ \A s \in Screens : life'[s] = "unopened" <=> life[s] = "unopened"
         /\ \A r : r \in ToSet(stack) /\ r # Last(stack) => r \in ToSet(stack')
         /\ (\E s \in Screens : life[s] = "shown") /\ late' = late => Untouched'
<1>0. TypeOK /\ Coherent /\ OnTopOnly /\ Untouched
  BY DEF IInv
<1>1. ASSUME NEW s \in Screens, life[s] = "shown", late' = late, late = {}
      PROVE  Len(stack') >= 2 /\ stack'[1] = Start /\ stack'[2] = Profile
  <2>1. stack[Len(stack)] \notin {Start, Profile}
    BY <1>0, <1>1, ShownOnTop, RoutesAssumption
  <2>2. /\ Len(stack) \in Nat /\ Len(stack) >= 2
        /\ stack[1] = Start /\ stack[2] = Profile
    BY <1>0, <1>1, StackFacts DEF Untouched
  <2>3. Len(stack) > 2 /\ 1 \in 1..(Len(stack) - 1) /\ 2 \in 1..(Len(stack) - 1)
    BY <2>1, <2>2
  <2>4. /\ Len(stack') = Len(stack) - 1
        /\ \A i \in 1..(Len(stack) - 1) : stack'[i] = stack[i]
    BY <1>0, PopFacts
  <2>5. QED
    BY <2>2, <2>3, <2>4
<1>2. QED
  BY <1>0, <1>1, PopFacts DEF Untouched

(* An upload that comes to its end pops its preview, or it is late.        *)
LEMMA EnrollReturnsKeeps ==
  ASSUME IInv, NEW u \in Uploads, EnrollReturns(u)
  PROVE  Rest'
<1>0. /\ TypeOK /\ Coherent /\ OnTopOnly /\ Untouched
      /\ RunsHaveScreens /\ LateOnce /\ BaseRoutesKept
      /\ upload[u] = "enrolling" /\ picture[u] \in Shots /\ picture[u] \in Screens
      /\ Shots \intersect Uploads = {} /\ Shots \subseteq Screens
      /\ upload \in [Uploads -> {"idle", "enrolling", "done", "failed"}]
  BY RoutesAssumption DEF IInv, RunsHaveScreens, EnrollReturns, TypeOK
<1>1. u \notin late
  BY <1>0 DEF LateOnce
<1>2. /\ told' \subseteq told \union {picture[u]}
      /\ UNCHANGED <<paths, shot, visit, picture, gallery>>
  BY DEF EnrollReturns, shotVars
<1>3. CASE /\ Mounted(picture[u])
           /\ upload' = [upload EXCEPT ![u] = "done"]
           /\ Pop
           /\ ActsFor(picture[u], u)
  <2>1. BaseRoutesKept' /\ IsFiniteSet(late')
    BY <1>0, <1>1, <1>3, PopFacts, OneRouteTooMany
  <2>2. Untouched'
    BY <1>0, <1>3, PopKeeps DEF ActsFor, Mounted, Untouched
  <2>3. RunsHaveScreens'
    BY <1>0, <1>2, <1>3, PopKeeps DEF RunsHaveScreens, TypeOK
  <2>4. LateOnce'
    BY <1>0, <1>2, <1>3, <2>1 DEF LateOnce, ActsFor
  <2>5. QED
    BY <1>3, <2>1, <2>2, <2>3, <2>4, PopKeeps DEF Rest
<1>4. CASE upload' = [upload EXCEPT ![u] = "failed"] /\ UNCHANGED <<navVars, late>>
  <2>1. life' = life
    BY <1>4 DEF navVars
  <2>2. RunsHaveScreens'
    BY <1>0, <1>2, <1>4, <2>1 DEF RunsHaveScreens
  <2>3. LateOnce'
    BY <1>0, <1>2, <1>4 DEF LateOnce
  <2>4. QED
    BY <1>4, <2>2, <2>3, NavigatorAlone DEF Rest
<1>5. QED
  BY <1>3, <1>4 DEF EnrollReturns

(* Every step keeps the invariant. *)
LEMMA NextIInv == IInv /\ [Next]_vars => IInv'
<1> SUFFICES ASSUME IInv, [Next]_vars PROVE Rest'
  BY NextTyped DEF IInv, Rest
<1>0. /\ TypeOK /\ Coherent /\ OnTopOnly /\ Untouched
      /\ RunsHaveScreens /\ LateOnce /\ BaseRoutesKept
      /\ Shots \subseteq Screens /\ Visits \subseteq Screens
      /\ Base = {Start, Profile} /\ Screens \intersect Base = {}
      /\ Visits \intersect Shots = {}
      /\ shot \in [Shots -> {"idle", "taking", "displayed", "failed"}]
      /\ upload \in [Uploads -> {"idle", "enrolling", "done", "failed"}]
      /\ visit \in [Shots -> Visits \union {Null}]
      /\ picture \in [Uploads -> Shots \union {Null}]
      /\ life \in [Screens -> {"unopened", "shown", "leaving", "gone"}]
      /\ gallery \subseteq Shots /\ told \subseteq Shots
  BY RoutesAssumption, NavigatorAssumption DEF IInv, TypeOK, NavTypeOK
<1>1. CASE GoBack
  <2>1. /\ Pop /\ UNCHANGED <<paths, shot, visit, upload, picture, gallery, told, late>>
    BY <1>1 DEF GoBack, shotVars, uploadVars
  <2>2. PICK s \in Screens : OnTop(s)
    BY <1>1 DEF GoBack
  <2>3. life[s] = "shown" /\ Last(stack) \notin {Start, Profile}
    BY <1>0, <2>2, StackFacts DEF OnTop, Last, Coherent
  <2>4. BaseRoutesKept'
    <3>1. {Start, Profile} \ ToSet(stack') \in SUBSET ({Start, Profile} \ ToSet(stack))
      BY <2>1, <2>3, PopKeeps
    <3>2. IsFiniteSet({Start, Profile} \ ToSet(stack))
      <4>1. {Start, Profile} = {Start} \union {Profile} /\ IsFiniteSet({Start})
        BY FS_Singleton
      <4>2. IsFiniteSet({Start, Profile})
        BY <4>1, FS_AddElement
      <4>3. QED
        BY <4>2, FS_Subset
    <3>3. /\ Cardinality({Start, Profile} \ ToSet(stack'))
               <= Cardinality({Start, Profile} \ ToSet(stack))
          /\ Cardinality({Start, Profile} \ ToSet(stack')) \in Nat
          /\ Cardinality({Start, Profile} \ ToSet(stack)) \in Nat
      BY <3>1, <3>2, FS_Subset, FS_CardinalityType
    <3>4. Cardinality(late) \in Nat
      BY <1>0, FS_CardinalityType DEF LateOnce
    <3>5. QED
      BY <1>0, <2>1, <3>3, <3>4 DEF BaseRoutesKept
  <2>5. RunsHaveScreens'
    BY <1>0, <2>1, PopKeeps DEF RunsHaveScreens
  <2>6. LateOnce'
    BY <1>0, <2>1 DEF LateOnce
  <2>7. OnTopOnly' /\ Untouched'
    BY <2>1, <2>3, PopKeeps
  <2>8. QED
    BY <2>4, <2>5, <2>6, <2>7 DEF Rest
<1>2. ASSUME NEW s \in Screens, Unmount(s) PROVE Rest'
  <2>1. /\ UNCHANGED <<stack, paths, shot, visit, upload, picture, gallery, told, late>>
        /\ life[s] = "leaving" /\ life' = [life EXCEPT ![s] = "gone"]
    BY <1>2 DEF Unmount, Dispose, shotVars, uploadVars
  <2>2. RunsHaveScreens'
    BY <1>0, <2>1 DEF RunsHaveScreens
  <2>3. OnTopOnly' /\ Untouched' /\ LateOnce' /\ BaseRoutesKept'
    BY <1>0, <2>1 DEF OnTopOnly, Untouched, LateOnce, BaseRoutesKept
  <2>4. QED
    BY <2>2, <2>3 DEF Rest
<1>3. ASSUME NEW v \in Visits, OpenCamera(v) PROVE Rest'
  <2>1. /\ UNCHANGED <<paths, shot, visit, upload, picture, gallery, told, late>>
        /\ life[v] = "unopened" /\ life' = [life EXCEPT ![v] = "shown"]
        /\ stack # <<>> /\ Last(stack) = Profile /\ stack' = Append(stack, v)
    BY <1>3 DEF OpenCamera, Push, OnTop, shotVars, uploadVars
  <2>2. /\ stack \in Seq(Base \union Screens) /\ Len(stack) \in Nat
        /\ stack[Len(stack)] \in Base
        /\ Len(stack') = Len(stack) + 1 /\ DOMAIN stack' = 1..(Len(stack) + 1)
        /\ \A i \in 1..Len(stack) : stack'[i] = stack[i]
    BY <1>0, <2>1, StackFacts DEF Last
  <2>3. OnTopOnly'
    BY <1>0, <2>2 DEF OnTopOnly
  <2>4. Untouched'
    BY <1>0, <2>1, <2>2 DEF Untouched
  <2>5. RunsHaveScreens'
    BY <1>0, <2>1 DEF RunsHaveScreens
  <2>6. LateOnce'
    BY <1>0, <2>1 DEF LateOnce
  <2>7. BaseRoutesKept'
    <3>1. ToSet(stack') = ToSet(stack) \union {v}
      <4>1. stack'[Len(stack) + 1] = v
        BY <2>1, <2>2
      <4>2. \A r : r \in ToSet(stack') <=> \E i \in 1..(Len(stack) + 1) : stack'[i] = r
        BY <2>2 DEF ToSet
      <4>3. \A r : r \in ToSet(stack') <=> r = v \/ \E i \in 1..Len(stack) : stack[i] = r
        BY <2>2, <4>1, <4>2
      <4>4. QED
        BY <1>0, <4>3, StackFacts
    <3>2. {Start, Profile} \ ToSet(stack') = {Start, Profile} \ ToSet(stack)
      BY <1>0, <3>1
    <3>3. QED
      BY <1>0, <2>1, <3>2 DEF BaseRoutesKept
  <2>8. QED
    BY <2>3, <2>4, <2>5, <2>6, <2>7 DEF Rest
<1>4. ASSUME NEW p \in Shots, NEW v \in Visits, TapCapture(p, v) PROVE Rest'
  <2>1. RunsHaveScreens' /\ LateOnce'
    BY <1>0, <1>4 DEF TapCapture, RunsHaveScreens, LateOnce, navVars, uploadVars
  <2>2. QED
    BY <1>4, <2>1, NavigatorAlone DEF TapCapture, Rest
<1>5. ASSUME NEW p \in Shots, CaptureFails(p) PROVE Rest'
  <2>1. RunsHaveScreens' /\ LateOnce'
    BY <1>0, <1>5 DEF CaptureFails, RunsHaveScreens, LateOnce, navVars, uploadVars
  <2>2. QED
    BY <1>5, <2>1, NavigatorAlone DEF CaptureFails, Rest
<1>6. ASSUME NEW u \in Uploads, NEW p \in Shots, TapUpload(u, p) PROVE Rest'
  <2>1. RunsHaveScreens' /\ LateOnce'
    BY <1>0, <1>6 DEF TapUpload, RunsHaveScreens, LateOnce, navVars, shotVars
  <2>3. QED
    BY <1>6, <2>1, NavigatorAlone DEF TapUpload, Rest
<1>7. ASSUME NEW u \in Uploads, ServiceEnrols(u) PROVE Rest'
  <2>1. RunsHaveScreens' /\ LateOnce'
    BY <1>0, <1>7 DEF ServiceEnrols, RunsHaveScreens, LateOnce, navVars, shotVars
  <2>2. QED
    BY <1>7, <2>1, NavigatorAlone DEF ServiceEnrols, Rest
<1>8. ASSUME NEW u \in Uploads, EnrollThrows(u) PROVE Rest'
  <2>1. RunsHaveScreens' /\ LateOnce'
    BY <1>0, <1>8 DEF EnrollThrows, RunsHaveScreens, LateOnce, navVars, shotVars
  <2>2. QED
    BY <1>8, <2>1, NavigatorAlone DEF EnrollThrows, Rest
<1>9. CASE UNCHANGED vars
  BY <1>0, <1>9, NavigatorAlone
  DEF vars, navVars, shotVars, uploadVars, RunsHaveScreens, LateOnce, Rest
<1>10. QED
  BY <1>1, <1>2, <1>3, <1>4, <1>5, <1>6, <1>7, <1>8, <1>9,
     PictureTakenKeeps, EnrollReturnsKeeps DEF Next

-----------------------------------------------------------------------------

(* What the handlers keep true between any two of their awaits. *)
THEOREM Invariance == Spec => []IInv
  BY InitIInv, NextIInv, PTL DEF Spec

(* The state has its types; a run acts for a screen of its own kind.       *)
THEOREM TypeCorrect == Spec => []TypeOK
<1>1. IInv => TypeOK
  BY DEF IInv
<1>2. QED
  BY <1>1, Invariance, PTL

(* The profile and the start screen are lost only to handlers that act for *)
(* a screen being left, one route each (Navigator.pop, pushReplacement).   *)
THEOREM BaseRoutesAreKept == Spec => []BaseRoutesKept
<1>1. IInv => BaseRoutesKept
  BY DEF IInv
<1>2. QED
  BY <1>1, Invariance, PTL

(* Previews and cameras never pile up, whatever pops and replacements      *)
(* overlap (_onCapturePressed, onPressed of Upload).                       *)
THEOREM ScreensDoNotPileUp == Spec => []OneScreenAtATime
<1>1. ASSUME IInv PROVE OneScreenAtATime
  <2>0. TypeOK /\ Coherent /\ OnTopOnly /\ Untouched /\ Screens \intersect Base = {}
    BY <1>1, NavigatorAssumption DEF IInv
  <2>1. ASSUME NEW s \in ToSet(stack) \intersect Screens PROVE s = Last(stack)
    BY <2>0, StackFacts, ShownOnTop DEF Coherent
  <2>2. Cardinality(ToSet(stack) \intersect Screens) <= 1
    <3>1. ToSet(stack) \intersect Screens \in SUBSET {Last(stack)}
      BY <2>1
    <3>2. IsFiniteSet({Last(stack)}) /\ Cardinality({Last(stack)}) = 1
      BY FS_Singleton
    <3>3. QED
      BY <3>1, <3>2, FS_Subset
  <2>3. ASSUME late = {} PROVE SubSeq(stack, 1, 2) = <<Start, Profile>>
    <3>1. /\ stack \in Seq(Base \union Screens) /\ Len(stack) >= 2
          /\ stack[1] = Start /\ stack[2] = Profile
      BY <2>0, <2>3, StackFacts DEF Untouched
    <3>2. 1 \in Int /\ 2 \in Int /\ \A i \in 1..2 : stack[i] \in Base \union Screens
      BY <2>0, <3>1, StackFacts
    <3>3. /\ SubSeq(stack, 1, 2) \in Seq(Base \union Screens)
          /\ Len(SubSeq(stack, 1, 2)) = IF 1 <= 2 THEN 2 - 1 + 1 ELSE 0
          /\ \A i \in 1..(2 - 1 + 1) : SubSeq(stack, 1, 2)[i] = stack[1 + i - 1]
      BY <3>2, SubSeqProperties
    <3> DEFINE q == SubSeq(stack, 1, 2)
    <3>4. q \in Seq(Base \union Screens) /\ Len(q) = 2
      BY <3>3
    <3>5. q[1] = Start /\ q[2] = Profile
      BY <3>1, <3>3
    <3> HIDE DEF q
    <3>6. q = <<Start, Profile>>
      BY <3>4, <3>5
    <3>7. QED
      BY <3>6 DEF q
  <2>4. QED
    BY <2>0, <2>2, <2>3 DEF OneScreenAtATime
<1>2. QED
  BY <1>1, Invariance, PTL
=============================================================================
