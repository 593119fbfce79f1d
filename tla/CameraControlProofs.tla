------------------------ MODULE CameraControlProofs ------------------------
(***************************************************************************)
(* Proofs about CameraControl, for any numbers of cameras, of runs of      *)
(* _initCameraController and of pictures.                                  *)
(***************************************************************************)
EXTENDS CameraControl, FiniteSetTheorems, SequenceTheorems, TLAPS

DisposingRuns == {i \in Inits : pc[i] = "disposing"}
Failed        == {i \in Inits : pc[i] = "failed"}

(* Controllers are made one by a run, and disposed and initialized after;  *)
(* before the cameras are listed there is nothing.                         *)
Lives ==
  /\ disposed \subseteq Made
  /\ controller # Null => controller \in Made
  /\ Made \union DisposingRuns # {} => controller # Null
  /\ ~listed => cameras = 0 /\ selectedCameraIdx = 0
  /\ \A i \in raced : pc[i] # "idle"

(* Without races there is one run at a time between the controller it      *)
(* disposed and the one it makes.                                          *)
InTurn ==
  raced = {} =>
    /\ \A i, j \in DisposingRuns : i = j
    /\ \A i \in DisposingRuns : controller \in disposed /\ target[i] = selectedCameraIdx
    /\ Leaked = {}
    /\ DisposingRuns = {} /\ Failed = {} /\ controller # Null =>
         target[controller] = selectedCameraIdx /\ controller \notin disposed

(* The runs that dispose will leak one controller each, but for one of     *)
(* them if the current controller has been disposed.                       *)
Paid ==
  \/ DisposingRuns = {} /\ Cardinality(Leaked) <= Cardinality(raced)
  \/ /\ DisposingRuns # {} /\ controller \in disposed
     /\ Cardinality(Leaked) + Cardinality(DisposingRuns) <= Cardinality(raced) + 1
  \/ /\ DisposingRuns # {} /\ controller \notin disposed
     /\ Cardinality(Leaked) + Cardinality(DisposingRuns) <= Cardinality(raced)

IInv == TypeOK /\ Lives /\ InTurn /\ Paid

-----------------------------------------------------------------------------

(* Runs can be counted. *)
LEMMA Counts ==
  ASSUME NEW S \in SUBSET Inits
  PROVE  IsFiniteSet(S) /\ Cardinality(S) \in Nat
  BY FS_Subset, FS_CardinalityType, RunsAssumption

(* What is left when the last preview is closed. *)
LEMMA FrontShorter ==
  ASSUME NEW S, NEW q \in Seq(S), q # <<>>
  PROVE  Front(q) \in Seq(S) /\ Len(Front(q)) = Len(q) - 1
<1>1. Len(q) \in Nat /\ Len(q) > 0 /\ \A i \in 1..Len(q) : q[i] \in S
  OBVIOUS
<1>2. 1 \in Int /\ Len(q) - 1 \in Int /\ \A i \in 1..(Len(q) - 1) : q[i] \in S
  BY <1>1
<1>3. /\ SubSeq(q, 1, Len(q) - 1) \in Seq(S)
      /\ Len(SubSeq(q, 1, Len(q) - 1)) = IF 1 <= Len(q) - 1 THEN Len(q) - 1 - 1 + 1 ELSE 0
  BY <1>2, SubSeqProperties
<1>4. Front(q) = SubSeq(q, 1, Len(q) - 1)
  BY DEF Front
<1>5. Front(q) \in Seq(S)
  BY <1>3, <1>4, Zenon
<1>6. Len(Front(q)) = IF 1 <= Len(q) - 1 THEN Len(q) - 1 - 1 + 1 ELSE 0
  BY <1>3, <1>4, Zenon
<1>7. \A n \in Nat : n > 0 => (IF 1 <= n - 1 THEN n - 1 - 1 + 1 ELSE 0) = n - 1
  OBVIOUS
<1>8. QED
  BY <1>1, <1>5, <1>6, <1>7, Zenon

LEMMA InitIInv == Init => IInv
<1> SUFFICES ASSUME Init PROVE IInv
  OBVIOUS
<1>1. TypeOK
  <2>1. 0 \in 0..NumCameras /\ 0 \in 0..(NumCameras - 1)
    BY CamerasAssumption
  <2>2. previews \in Seq(Captures) /\ ~(cameras > 0)
    BY DEF Init
  <2>3. QED
    BY <2>1, <2>2 DEF Init, TypeOK
<1>2. Made = {} /\ DisposingRuns = {} /\ Leaked = {}
  BY DEF Init, Made, DisposingRuns, Leaked
<1>3. Lives /\ InTurn
  BY <1>2 DEF Init, Lives, InTurn
<1>4. Paid
  <2>1. Cardinality(Leaked) = 0 /\ Cardinality(raced) = 0
    BY <1>2, FS_EmptySet DEF Init
  <2>2. QED
    BY <1>2, <2>1 DEF Paid
<1>5. QED
  BY <1>1, <1>3, <1>4 DEF IInv

-----------------------------------------------------------------------------
(* What keeps controllers and the toggle apart from everything else. *)

controls == <<listed, cameras, selectedCameraIdx, controller, target, disposed, raced>>

(* Runs that neither begin nor end to dispose change nothing. *)
LEMMA NoControl ==
  ASSUME IInv, UNCHANGED controls,
         Made' = Made, DisposingRuns' = DisposingRuns, Failed' = Failed,
         \A i \in Inits : pc[i] # "idle" => pc'[i] # "idle"
  PROVE  Lives' /\ InTurn' /\ Paid'
<1>1. Leaked' = Leaked /\ raced \in SUBSET Inits
  BY DEF Leaked, controls, IInv, TypeOK
<1>2. Lives'
  BY <1>1 DEF IInv, controls, Lives
<1>3. InTurn'
  BY <1>1 DEF IInv, controls, InTurn
<1>4. Paid'
  BY <1>1 DEF IInv, controls, Paid
<1>5. QED
  BY <1>2, <1>3, <1>4

(* A run begins for the camera the toggle shows. *)
LEMMA StartKeeps ==
  ASSUME IInv, NEW i \in Inits, Start(i, selectedCameraIdx'), listed'
  PROVE  Lives' /\ InTurn' /\ Paid'
<1> DEFINE D == DisposingRuns
<1>0. /\ pc[i] = "idle" /\ pc \in [Inits -> {"idle", "disposing", "initializing", "ended", "failed"}] /\ raced \in SUBSET Inits
      /\ target \in [Inits -> (0..(NumCameras - 1)) \union {Null}]
      /\ disposed \in SUBSET Inits /\ controller \in Inits \union {Null} /\ Null \notin Inits
  BY RunsAssumption DEF IInv, TypeOK, Start
<1>1. i \notin Made /\ i \notin D /\ i \notin disposed /\ i # controller /\ i \notin raced
  BY <1>0 DEF Made, DisposingRuns, IInv, Lives
<1>2. target'[i] = selectedCameraIdx' /\ \A j \in Inits \ {i} : target'[j] = target[j]
  BY <1>0 DEF Start
<1>3. Leaked \in SUBSET Inits /\ D \in SUBSET Inits
  BY DEF Leaked, Made, DisposingRuns
<1>4. CASE controller = Null
  <2>1. D = {} /\ Made = {} /\ disposed = {} /\ Leaked = {}
    BY <1>4 DEF IInv, Lives, Leaked
  <2>2. /\ controller' = i /\ disposed' = disposed /\ raced' = raced
        /\ pc' = [pc EXCEPT ![i] = "initializing"]
    BY <1>0, <1>4, <2>1 DEF Start, Disposing, DisposingRuns
  <2>3. Made' = {i} /\ DisposingRuns' = {} /\ Leaked' = {} /\ Failed' = Failed
    BY <1>0, <2>1, <2>2 DEF Made, DisposingRuns, Leaked, Failed
  <2>4. Lives'
    BY <1>0, <2>1, <2>2, <2>3 DEF IInv, Lives
  <2>5. InTurn'
    BY <1>2, <2>1, <2>2, <2>3 DEF InTurn
  <2>6. Paid'
    BY <2>1, <2>2, <2>3 DEF IInv, Paid
  <2>7. QED
    BY <2>4, <2>5, <2>6
<1>5. CASE controller # Null
  <2>1. /\ controller' = controller /\ disposed' = disposed \union {controller}
        /\ pc' = [pc EXCEPT ![i] = "disposing"]
        /\ raced' = IF D = {} THEN raced ELSE raced \union {i}
    BY <1>0, <1>5 DEF Start, Disposing, DisposingRuns
  <2>2. /\ Made' = Made /\ DisposingRuns' = D \union {i} /\ Leaked' = Leaked
        /\ Failed' = Failed
    BY <1>0, <1>1, <2>1 DEF Made, DisposingRuns, Leaked, Failed
  <2>3. Lives'
    BY <1>0, <1>5, <2>1, <2>2 DEF IInv, Lives
  <2>4. InTurn'
    <3>1. raced' = {} => D = {} /\ raced = {}
      BY <2>1
    <3>2. QED
      BY <1>2, <2>1, <2>2, <3>1 DEF IInv, InTurn
  <2>5. Paid'
    <3>1. i \notin raced => Cardinality(raced \union {i}) = Cardinality(raced) + 1
      BY <1>0, Counts, FS_AddElement
    <3>2. Cardinality(D \union {i}) = Cardinality(D) + 1
      BY <1>1, <1>3, Counts, FS_AddElement
    <3>3. /\ Cardinality(D) \in Nat /\ Cardinality(Leaked) \in Nat
          /\ Cardinality(raced) \in Nat
      BY <1>0, <1>3, Counts
    <3>4. D = {} => Cardinality(D) = 0
      BY FS_EmptySet
    <3>5. Paid /\ i \notin raced
      BY <1>1 DEF IInv
    <3>6. CASE D = {}
      BY <2>1, <2>2, <3>2, <3>3, <3>4, <3>5, <3>6 DEF Paid
    <3>7. CASE D # {}
      BY <2>1, <2>2, <3>1, <3>2, <3>3, <3>5, <3>7 DEF Paid
    <3>8. QED
      BY <3>6, <3>7
  <2>6. QED
    BY <2>3, <2>4, <2>5
<1>6. QED
  BY <1>4, <1>5

(* The dispose a run awaited returns, and its controller is the current    *)
(* one; the one before is leaked unless it was disposed.                   *)
LEMMA DisposedKeeps ==
  ASSUME IInv, NEW i \in Inits, ControllerDisposed(i)
  PROVE  Lives' /\ InTurn' /\ Paid'
<1> DEFINE D == DisposingRuns
<1>0. /\ pc[i] = "disposing"
      /\ pc \in [Inits -> {"idle", "disposing", "initializing", "ended", "failed"}]
      /\ raced \in SUBSET Inits /\ disposed \in SUBSET Inits
      /\ Lives /\ InTurn /\ Paid
  BY DEF IInv, TypeOK, ControllerDisposed
<1>1. /\ i \in D /\ i \notin Made /\ i \notin disposed /\ controller \in Made
  BY <1>0, RunsAssumption DEF Made, DisposingRuns, Lives
<1>2. /\ controller' = i /\ pc' = [pc EXCEPT ![i] = "initializing"]
      /\ UNCHANGED <<listed, cameras, selectedCameraIdx, target, disposed, raced>>
  BY DEF ControllerDisposed
<1>3. /\ Made' = Made \union {i} /\ DisposingRuns' = D \ {i} /\ Failed' = Failed
      /\ Leaked' = IF controller \in disposed THEN Leaked ELSE Leaked \union {controller}
  BY <1>0, <1>1, <1>2 DEF Made, DisposingRuns, Leaked, Failed
<1>4. Lives'
  BY <1>0, <1>1, <1>2, <1>3, RunsAssumption DEF Lives
<1>5. InTurn'
  <2>1. raced' = {} => /\ D = {i} /\ controller \in disposed /\ Leaked = {}
                       /\ target[i] = selectedCameraIdx
    BY <1>0, <1>1, <1>2 DEF InTurn
  <2>2. QED
    BY <1>1, <1>2, <1>3, <2>1 DEF InTurn
<1>6. Paid'
  <2>1. Leaked \in SUBSET Inits /\ D \in SUBSET Inits /\ controller \notin Leaked
    BY DEF Leaked, Made, DisposingRuns
  <2>2. Cardinality(D \ {i}) = Cardinality(D) - 1
    BY <1>1, <2>1, Counts, FS_RemoveElement
  <2>3. Cardinality(Leaked \union {controller}) = Cardinality(Leaked) + 1
    BY <2>1, Counts, FS_AddElement
  <2>4. /\ Cardinality(D) \in Nat /\ Cardinality(Leaked) \in Nat
        /\ Cardinality(raced) \in Nat /\ Cardinality(D \ {i}) \in Nat
    BY <1>0, <2>1, Counts
  <2>5. controller' \notin disposed' /\ raced' = raced
    BY <1>1, <1>2
  <2>6. CASE controller \in disposed
    BY <1>0, <1>1, <1>3, <2>2, <2>4, <2>5, <2>6 DEF Paid
  <2>7. CASE controller \notin disposed
    BY <1>0, <1>1, <1>3, <2>2, <2>3, <2>4, <2>5, <2>7 DEF Paid
  <2>8. QED
    BY <2>6, <2>7
<1>7. QED
  BY <1>4, <1>5, <1>6

(* A dispose that throws costs a run, and no controller. *)
LEMMA FailedDisposeKeeps ==
  ASSUME IInv, NEW i \in Inits, DisposeFails(i)
  PROVE  Lives' /\ InTurn' /\ Paid'
<1> DEFINE D == DisposingRuns
<1>0. /\ pc[i] = "disposing"
      /\ pc \in [Inits -> {"idle", "disposing", "initializing", "ended", "failed"}]
      /\ raced \in SUBSET Inits /\ disposed \in SUBSET Inits
      /\ Lives /\ InTurn /\ Paid
  BY DEF IInv, TypeOK, DisposeFails
<1>1. i \in D
  BY <1>0 DEF DisposingRuns
<1>2. /\ pc' = [pc EXCEPT ![i] = "failed"] /\ UNCHANGED controls
  BY DEF DisposeFails, controls
<1>3. /\ Made' = Made /\ DisposingRuns' = D \ {i} /\ Failed' = Failed \union {i}
      /\ Leaked' = Leaked
  BY <1>0, <1>2 DEF Made, DisposingRuns, Leaked, Failed, controls
<1>4. Lives'
  BY <1>0, <1>2, <1>3 DEF Lives, controls
<1>5. InTurn'
  BY <1>0, <1>2, <1>3 DEF InTurn, controls
<1>6. Paid'
  <2>1. Leaked \in SUBSET Inits /\ D \in SUBSET Inits
    BY DEF Leaked, Made, DisposingRuns
  <2>2. Cardinality(D \ {i}) = Cardinality(D) - 1
    BY <1>1, <2>1, Counts, FS_RemoveElement
  <2>3. /\ Cardinality(D) \in Nat /\ Cardinality(Leaked) \in Nat
        /\ Cardinality(raced) \in Nat /\ Cardinality(D \ {i}) \in Nat
    BY <1>0, <2>1, Counts
  <2>4. UNCHANGED <<controller, disposed, raced>>
    BY <1>2 DEF controls
  <2>5. QED
    BY <1>0, <1>1, <1>3, <2>2, <2>3, <2>4 DEF Paid
<1>7. QED
  BY <1>4, <1>5, <1>6

-----------------------------------------------------------------------------

(* The toggle steps through the cameras there are. *)
LEMMA NextCamera ==
  ASSUME TypeOK, cameras > 0,
         selectedCameraIdx' = IF selectedCameraIdx < cameras - 1
                              THEN selectedCameraIdx + 1 ELSE 0
  PROVE  selectedCameraIdx' \in 0..(NumCameras - 1) /\ selectedCameraIdx' < cameras
<1>1. /\ cameras \in Nat /\ cameras <= NumCameras
      /\ selectedCameraIdx \in Nat /\ NumCameras \in Nat
  BY CamerasAssumption DEF TypeOK
<1>2. QED
  BY <1>1

(* A run that begins keeps the state typed. *)
LEMMA StartTyped ==
  ASSUME TypeOK, NEW i \in Inits, Start(i, selectedCameraIdx'),
         selectedCameraIdx' \in 0..(NumCameras - 1)
  PROVE  /\ controller' \in Inits \union {Null}
         /\ pc' \in [Inits -> {"idle", "disposing", "initializing", "ended", "failed"}]
         /\ target' \in [Inits -> (0..(NumCameras - 1)) \union {Null}]
         /\ disposed' \subseteq Inits /\ initialized' \subseteq Inits
         /\ raced' \subseteq Inits
  BY DEF TypeOK, Start

(* The fields are what their types say after every step. *)
LEMMA NextTyped == IInv /\ [Next]_vars => TypeOK'
<1> SUFFICES ASSUME TypeOK, Lives, [Next]_vars PROVE TypeOK'
  BY DEF IInv
<1>1. ASSUME NEW n \in 0..NumCameras, CamerasListed(n) PROVE TypeOK'
  <2>1. cameras = 0 /\ selectedCameraIdx = 0 /\ n \in Nat
    BY <1>1, CamerasAssumption DEF CamerasListed, Lives
  <2>2. 0 \in 0..(NumCameras - 1)
    BY CamerasAssumption
  <2>3. CASE UNCHANGED initVars
    BY <1>1, <2>1, <2>3 DEF CamerasListed, TypeOK, initVars, captureVars
  <2>4. ASSUME NEW i \in Inits, selectedCameraIdx' = 0, n > 0, Start(i, 0)
        PROVE  TypeOK'
    <3>1. Start(i, selectedCameraIdx') /\ selectedCameraIdx' \in 0..(NumCameras - 1)
      BY <2>2, <2>4
    <3>2. QED
      BY <1>1, <2>1, <2>4, <3>1, StartTyped DEF CamerasListed, TypeOK, captureVars
  <2>5. QED
    BY <1>1, <2>3, <2>4 DEF CamerasListed
<1>2. CASE CamerasNotListed
  BY <1>2 DEF CamerasNotListed, TypeOK, initVars, captureVars
<1>3. ASSUME NEW i \in Inits, SwitchCamera(i) PROVE TypeOK'
  <2>1. /\ selectedCameraIdx' \in 0..(NumCameras - 1) /\ selectedCameraIdx' < cameras
        /\ Start(i, selectedCameraIdx')
    BY <1>3, NextCamera DEF SwitchCamera
  <2>2. QED
    BY <1>3, <2>1, StartTyped DEF SwitchCamera, TypeOK, captureVars
<1>4. ASSUME NEW i \in Inits,
             \/ ControllerDisposed(i) \/ DisposeFails(i)
             \/ InitializeReturns(i) \/ InitializeFails(i)
      PROVE  TypeOK'
  BY <1>4 DEF ControllerDisposed, DisposeFails, InitializeReturns, InitializeFails,
              TypeOK, captureVars
<1>5. ASSUME NEW p \in Captures, TapCapture(p) \/ DirectoryArrives(p) \/ CaptureFails(p)
      PROVE  TypeOK'
  BY <1>5 DEF TapCapture, DirectoryArrives, CaptureFails, TypeOK, initVars
<1>6. ASSUME NEW p \in Captures, PictureTaken(p) PROVE TypeOK'
  <2>1. Append(previews, p) \in Seq(Captures)
    BY DEF TypeOK
  <2>2. QED
    BY <1>6, <2>1 DEF PictureTaken, TypeOK, initVars
<1>7. CASE ClosePreview
  <2>1. Front(previews) \in Seq(Captures)
    BY <1>7, FrontShorter DEF ClosePreview, TypeOK
  <2>2. QED
    BY <1>7, <2>1 DEF ClosePreview, TypeOK, initVars
<1>8. CASE LeaveScreen \/ Unmount
  BY <1>8 DEF LeaveScreen, Unmount, TypeOK, initVars, captureVars
<1>9. CASE UNCHANGED vars
  BY <1>9 DEF vars, TypeOK, initVars, captureVars
<1>10. QED
  BY <1>1, <1>2, <1>3, <1>4, <1>5, <1>6, <1>7, <1>8, <1>9 DEF Next

(* Every step keeps the controllers in order, races or not. *)
LEMMA NextIInv == IInv /\ [Next]_vars => IInv'
<1> SUFFICES ASSUME IInv, [Next]_vars PROVE Lives' /\ InTurn' /\ Paid'
  BY NextTyped DEF IInv
<1> DEFINE Same == /\ UNCHANGED controls /\ Made' = Made
                   /\ DisposingRuns' = DisposingRuns /\ Failed' = Failed
                   /\ \A i \in Inits : pc[i] # "idle" => pc'[i] # "idle"
<1>1. ASSUME NEW n \in 0..NumCameras, CamerasListed(n)
      PROVE  Lives' /\ InTurn' /\ Paid'
  <2>1. ASSUME NEW i \in Inits, selectedCameraIdx' = 0, Start(i, 0)
        PROVE  Lives' /\ InTurn' /\ Paid'
    BY <1>1, <2>1, StartKeeps DEF CamerasListed
  <2>2. CASE UNCHANGED initVars
    <3>1. /\ Made' = Made /\ DisposingRuns' = DisposingRuns /\ Failed' = Failed
          /\ Leaked' = Leaked /\ listed'
      BY <1>1, <2>2 DEF initVars, Made, DisposingRuns, Failed, Leaked, CamerasListed
    <3>2. QED
      BY <2>2, <3>1 DEF initVars, IInv, Lives, InTurn, Paid
  <2>3. QED
    BY <1>1, <2>1, <2>2 DEF CamerasListed
<1>2. CASE CamerasNotListed
  <2>1. /\ Made' = Made /\ DisposingRuns' = DisposingRuns /\ Failed' = Failed
        /\ Leaked' = Leaked /\ listed'
    BY <1>2 DEF CamerasNotListed, initVars, Made, DisposingRuns, Failed, Leaked
  <2>2. QED
    BY <1>2, <2>1 DEF CamerasNotListed, initVars, IInv, Lives, InTurn, Paid
<1>3. ASSUME NEW i \in Inits, SwitchCamera(i) PROVE Lives' /\ InTurn' /\ Paid'
  <2>1. listed' /\ Start(i, selectedCameraIdx')
    BY <1>3 DEF SwitchCamera, IInv, Lives, TypeOK
  <2>2. QED
    BY <2>1, StartKeeps
<1>4. ASSUME NEW i \in Inits, ControllerDisposed(i) \/ DisposeFails(i)
      PROVE  Lives' /\ InTurn' /\ Paid'
  BY <1>4, DisposedKeeps, FailedDisposeKeeps
<1>5. ASSUME NEW i \in Inits, InitializeReturns(i) \/ InitializeFails(i)
      PROVE  Same
  BY <1>5 DEF InitializeReturns, InitializeFails, controls, Made, DisposingRuns, Failed,
              IInv, TypeOK
<1>6. ASSUME \/ \E p \in Captures : \/ TapCapture(p) \/ DirectoryArrives(p)
                                   \/ PictureTaken(p) \/ CaptureFails(p)
             \/ ClosePreview \/ LeaveScreen \/ Unmount \/ UNCHANGED vars
      PROVE  Same
  BY <1>6 DEF TapCapture, DirectoryArrives, PictureTaken, CaptureFails, ClosePreview,
              LeaveScreen, Unmount, vars, initVars, controls, Made, DisposingRuns, Failed
<1>7. Same => Lives' /\ InTurn' /\ Paid'
  BY NoControl
<1>8. QED
  BY <1>1, <1>2, <1>3, <1>4, <1>5, <1>6, <1>7 DEF Next

-----------------------------------------------------------------------------

(* What _initCameraController keeps true between any two of its awaits. *)
THEOREM Invariance == Spec => []IInv
  BY InitIInv, NextIInv, PTL DEF Spec

(* The fields of the screen have their types; in particular the selected   *)
(* camera is one there is (_onSwitchCamera).                               *)
THEOREM TypeCorrect == Spec => []TypeOK
<1>1. IInv => TypeOK
  BY DEF IInv
<1>2. QED
  BY <1>1, Invariance, PTL

(* Switches in turn lose no controller and end with the right one          *)
(* (_initCameraController).                                                *)
THEOREM SwitchesInTurn == Spec => []SwitchesInTurnAreSafe
<1>1. IInv => SwitchesInTurnAreSafe
  BY DEF IInv, InTurn, SwitchesInTurnAreSafe, Quiet, DisposingRuns, Failed
<1>2. QED
  BY <1>1, Invariance, PTL

(* However many switches overlap, each controller leaked is paid for by a  *)
(* race (_initCameraController).                                           *)
THEOREM LeaksAreCounted == Spec => []LeaksCountRaces
<1>1. ASSUME IInv PROVE LeaksCountRaces
  <2>1. /\ Leaked \in SUBSET Inits /\ DisposingRuns \in SUBSET Inits
        /\ raced \in SUBSET Inits
    BY <1>1 DEF IInv, TypeOK, Leaked, Made, DisposingRuns
  <2>2. /\ Cardinality(Leaked) \in Nat /\ Cardinality(DisposingRuns) \in Nat
        /\ Cardinality(raced) \in Nat
        /\ DisposingRuns # {} => Cardinality(DisposingRuns) > 0
    BY <2>1, Counts, FS_EmptySet
  <2>3. Cardinality(Leaked) <= Cardinality(raced)
    BY <1>1, <2>2 DEF IInv, Paid
  <2>4. Made # {} => controller \in Made
    BY <1>1 DEF IInv, Lives
  <2>5. QED
    BY <2>3, <2>4 DEF LeaksCountRaces
<1>2. QED
  BY <1>1, Invariance, PTL

-----------------------------------------------------------------------------
(* A controller that is not disposed is for the camera of the toggle, also *)
(* after a run that failed to dispose: InTurn is silent about those.       *)
Usable ==
  raced = {} /\ controller # Null /\ controller \notin disposed =>
    target[controller] = selectedCameraIdx

LEMMA UsableKept == IInv /\ Usable /\ [Next]_vars => Usable'
<1> SUFFICES ASSUME IInv, Usable, [Next]_vars,
                    raced' = {}, controller' # Null, controller' \notin disposed'
             PROVE  target'[controller'] = selectedCameraIdx'
  BY DEF Usable
<1>1. TypeOK /\ InTurn
  BY DEF IInv
<1>2. ASSUME NEW i \in Inits, Start(i, selectedCameraIdx')
      PROVE  target'[controller'] = selectedCameraIdx'
  BY <1>1, <1>2 DEF Start, TypeOK
<1>3. ASSUME NEW n \in 0..NumCameras, CamerasListed(n)
      PROVE  target'[controller'] = selectedCameraIdx'
  <2>1. CASE \E i \in Inits : Start(i, 0) /\ selectedCameraIdx' = 0
    BY <1>2, <2>1
  <2>2. CASE UNCHANGED initVars
    BY <2>2 DEF initVars, Usable
  <2>3. QED
    BY <1>3, <2>1, <2>2 DEF CamerasListed
<1>4. ASSUME NEW i \in Inits, SwitchCamera(i)
      PROVE  target'[controller'] = selectedCameraIdx'
  BY <1>2, <1>4 DEF SwitchCamera
<1>5. ASSUME NEW i \in Inits, ControllerDisposed(i)
      PROVE  target'[controller'] = selectedCameraIdx'
  <2>1. i \in DisposingRuns /\ raced = {}
    BY <1>5 DEF ControllerDisposed, DisposingRuns
  <2>2. target[i] = selectedCameraIdx
    BY <1>1, <2>1 DEF InTurn
  <2>3. QED
    BY <1>5, <2>2 DEF ControllerDisposed
<1>6. CASE UNCHANGED <<selectedCameraIdx, controller, target, disposed, raced>>
  BY <1>6 DEF Usable
<1>7. QED
  BY <1>3, <1>4, <1>5, <1>6
  DEF Next, vars, initVars, CamerasNotListed, DisposeFails, InitializeReturns,
      InitializeFails, TapCapture, DirectoryArrives, PictureTaken, CaptureFails,
      ClosePreview, LeaveScreen, Unmount

(* The picture of _onCapturePressed is taken by the camera of the toggle,  *)
(* though the controller is read only after the directory is known, unless *)
(* switches overlap.                                                       *)
THEOREM PicturesBySelected == Spec => TakenBySelectedCamera
<1> DEFINE A == \A p \in Captures :
                  raced = {} /\ shot[p] = "naming" /\ shot'[p] = "taking" =>
                     target[camera'[p]] = selectedCameraIdx
<1>1. Init => Usable
  BY DEF Init, Usable
<1>2. Spec => []Usable
  BY <1>1, UsableKept, Invariance, PTL DEF Spec
<1>3. IInv /\ Usable /\ [Next]_vars => [A]_vars
  <2> SUFFICES ASSUME TypeOK, Usable, Next, NEW p \in Captures, raced = {},
                      shot[p] = "naming", shot'[p] = "taking"
               PROVE  target[camera'[p]] = selectedCameraIdx
    BY DEF IInv, vars, captureVars
  <2>1. PICK q \in Captures : DirectoryArrives(q)
    BY DEF Next, CamerasListed, CamerasNotListed, SwitchCamera, ControllerDisposed,
           DisposeFails, InitializeReturns, InitializeFails, TapCapture, PictureTaken,
           CaptureFails, ClosePreview, LeaveScreen, Unmount, captureVars, TypeOK
  <2>2. q = p /\ CanTakePicture /\ camera' = [camera EXCEPT ![p] = controller]
    BY <2>1 DEF DirectoryArrives, TypeOK
  <2>3. controller # Null /\ controller \notin disposed
    BY <2>2 DEF CanTakePicture
  <2>4. camera'[p] = controller
    BY <2>2 DEF TypeOK
  <2>5. QED
    BY <2>3, <2>4 DEF Usable
<1>4. QED
  BY <1>2, <1>3, Invariance, PTL DEF Spec, TakenBySelectedCamera
=============================================================================
