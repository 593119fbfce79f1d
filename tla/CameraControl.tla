--------------------------- MODULE CameraControl ---------------------------
(***************************************************************************)
(* The camera screen (lib/Attendance/camera_screen.dart): its selected     *)
(* camera, the controller of the camera plugin that stands for it, the     *)
(* toggle that switches cameras and the button that takes a picture.       *)
(* Register_camera.dart has the same controller and toggle, line by line.  *)
(*                                                                         *)
(* _initCameraController is async: it disposes the controller it finds,    *)
(* then makes and initializes a new one.  Each call is a run, and names    *)
(* the controller it makes.  The toggle stays enabled, so runs overlap.    *)
(***************************************************************************)
EXTENDS Integers, Sequences, FiniteSets, SequencesExt

CONSTANTS NumCameras,  \* the most cameras a phone has
          Inits,       \* runs of _initCameraController, and their controllers
          Captures,    \* taps on the capture button
          Null

ASSUME CamerasAssumption == NumCameras \in Nat \ {0}
ASSUME RunsAssumption == IsFiniteSet(Inits) /\ Null \notin Inits \union Captures

VARIABLES
  life,              \* whether the screen is shown, being left, or unmounted
  listed,            \* whether availableCameras has answered
  cameras,           \* how many cameras the screen knows of
  selectedCameraIdx,
  controller,        \* the run that made the current controller
  pc,                \* where each run is
  target,            \* the camera each run is for
  disposed,          \* the controllers disposed
  initialized,       \* the controllers initialized
  shot,              \* where each capture is
  camera,            \* the controller that takes each picture
  previews,          \* the previews on top of the screen
  raced              \* history: the runs started while another was disposing

initVars    == <<selectedCameraIdx, controller, pc, target, disposed, initialized, raced>>
captureVars == <<shot, camera, previews>>
vars == <<life, listed, cameras, initVars, captureVars>>

TypeOK ==
  /\ life \in {"shown", "leaving", "gone"}
  /\ listed \in BOOLEAN
  /\ cameras \in 0..NumCameras
  /\ selectedCameraIdx \in 0..(NumCameras - 1)
  /\ cameras > 0 => selectedCameraIdx < cameras
  /\ controller \in Inits \union {Null}
  /\ pc \in [Inits -> {"idle", "disposing", "initializing", "ended", "failed"}]
  /\ target \in [Inits -> (0..(NumCameras - 1)) \union {Null}]
  /\ disposed \subseteq Inits
  /\ initialized \subseteq Inits
  /\ shot \in [Captures -> {"idle", "naming", "taking", "shown", "failed"}]
  /\ camera \in [Captures -> Inits \union {Null}]
  /\ previews \in Seq(Captures)
  /\ raced \subseteq Inits

Init ==
  /\ life = "shown"
  /\ listed = FALSE
  /\ cameras = 0
  /\ selectedCameraIdx = 0
  /\ controller = Null
  /\ pc = [i \in Inits |-> "idle"]
  /\ target = [i \in Inits |-> Null]
  /\ disposed = {}
  /\ initialized = {}
  /\ shot = [p \in Captures |-> "idle"]
  /\ camera = [p \in Captures |-> Null]
  /\ previews = <<>>
  /\ raced = {}

Mounted == life # "gone"
OnTop   == life = "shown" /\ previews = <<>>

-----------------------------------------------------------------------------
(* The runs of _initCameraController. *)

Disposing == \E d \in Inits : pc[d] = "disposing"

(* Mutant: the new controller is made without disposing the old one. *)
StartWithoutDisposing(i, k) ==
  /\ pc[i] = "idle"
  /\ target' = [target EXCEPT ![i] = k]
  /\ controller' = i
  /\ pc' = [pc EXCEPT ![i] = "initializing"]
  /\ raced' = IF Disposing THEN raced \union {i} ELSE raced
  /\ UNCHANGED <<disposed, initialized>>

(* Up to its first await: without a controller the run makes one at once. *)
Start(i, k) ==
  /\ pc[i] = "idle"
  /\ target' = [target EXCEPT ![i] = k]
  /\ \/ /\ controller = Null
        /\ controller' = i
        /\ pc' = [pc EXCEPT ![i] = "initializing"]
        /\ UNCHANGED disposed
     \/ /\ controller # Null
        /\ disposed' = disposed \union {controller}
        /\ pc' = [pc EXCEPT ![i] = "disposing"]
        /\ UNCHANGED controller
  /\ raced' = IF Disposing THEN raced \union {i} ELSE raced
  /\ UNCHANGED initialized

(* availableCameras answers; on an unmounted screen setState throws. *)
CamerasListed(n) ==
  /\ ~listed
  /\ listed' = TRUE
  /\ cameras' = n
  /\ \/ /\ n > 0 /\ Mounted
        /\ selectedCameraIdx' = 0
        /\ \E i \in Inits : Start(i, 0)
     \/ /\ ~(n > 0 /\ Mounted)
        /\ UNCHANGED initVars
  /\ UNCHANGED <<life, captureVars>>

CamerasNotListed ==
  /\ ~listed
  /\ listed' = TRUE
  /\ UNCHANGED <<life, cameras, initVars, captureVars>>

(* Mutant: one step too far before starting over. *)
SwitchPastTheLast(i) ==
  /\ OnTop
  /\ cameras > 0
  /\ selectedCameraIdx' = IF selectedCameraIdx <= cameras - 1
                          THEN selectedCameraIdx + 1 ELSE 0
  /\ Start(i, selectedCameraIdx')
  /\ UNCHANGED <<life, listed, cameras, captureVars>>

(* Mutant: the controller is made for the camera selected before. *)
SwitchToPrevious(i) ==
  /\ OnTop
  /\ cameras > 0
  /\ selectedCameraIdx' = IF selectedCameraIdx < cameras - 1
                          THEN selectedCameraIdx + 1 ELSE 0
  /\ Start(i, selectedCameraIdx)
  /\ UNCHANGED <<life, listed, cameras, captureVars>>

(* The toggle: the next camera, and after the last one the first. *)
SwitchCamera(i) ==
  /\ OnTop
  /\ cameras > 0
  /\ selectedCameraIdx' = IF selectedCameraIdx < cameras - 1
                          THEN selectedCameraIdx + 1 ELSE 0
  /\ Start(i, selectedCameraIdx')
  /\ UNCHANGED <<life, listed, cameras, captureVars>>

(* dispose returns: the run makes its controller the current one. *)
ControllerDisposed(i) ==
  /\ pc[i] = "disposing"
  /\ controller' = i
  /\ pc' = [pc EXCEPT ![i] = "initializing"]
  /\ UNCHANGED <<life, listed, cameras, selectedCameraIdx, target, disposed,
                 initialized, raced, captureVars>>

(* dispose throws and ends the run; the disposed controller stays. *)
DisposeFails(i) ==
  /\ pc[i] = "disposing"
  /\ pc' = [pc EXCEPT ![i] = "failed"]
  /\ UNCHANGED <<life, listed, cameras, selectedCameraIdx, controller, target,
                 disposed, initialized, raced, captureVars>>

InitializeReturns(i) ==
  /\ pc[i] = "initializing"
  /\ pc' = [pc EXCEPT ![i] = "ended"]
  /\ initialized' = initialized \union {i}
  /\ UNCHANGED <<life, listed, cameras, selectedCameraIdx, controller, target,
                 disposed, raced, captureVars>>

(* A CameraException is printed; the controller stays, uninitialized. *)
InitializeFails(i) ==
  /\ pc[i] = "initializing"
  /\ pc' = [pc EXCEPT ![i] = "ended"]
  /\ UNCHANGED <<life, listed, cameras, selectedCameraIdx, controller, target,
                 disposed, initialized, raced, captureVars>>

-----------------------------------------------------------------------------
(* The runs of _onCapturePressed. *)

TapCapture(p) ==
  /\ OnTop
  /\ shot[p] = "idle"
  /\ shot' = [shot EXCEPT ![p] = "naming"]
  /\ UNCHANGED <<life, listed, cameras, initVars, camera, previews>>

(* Mutant: a controller that is being disposed still takes pictures. *)
CanTakePictureDisposed ==
  /\ controller # Null
  /\ controller \in initialized
  /\ \A q \in Captures : shot[q] = "taking" => camera[q] # controller

(* takePicture throws unless the controller is ready and idle. *)
CanTakePicture ==
  /\ controller # Null
  /\ controller \in initialized \ disposed
  /\ \A q \in Captures : shot[q] = "taking" => camera[q] # controller

(* The temporary directory is known: whichever controller is there by now  *)
(* takes the picture, or takePicture throws, into the catch.               *)
DirectoryArrives(p) ==
  /\ shot[p] = "naming"
  /\ \/ /\ CanTakePicture
        /\ shot' = [shot EXCEPT ![p] = "taking"]
        /\ camera' = [camera EXCEPT ![p] = controller]
     \/ /\ ~CanTakePicture
        /\ shot' = [shot EXCEPT ![p] = "failed"]
        /\ UNCHANGED camera
  /\ UNCHANGED <<life, listed, cameras, initVars, previews>>

(* The picture is displayed on top of everything, if the screen is         *)
(* mounted; Navigator.push throws if it is not.                            *)
PictureTaken(p) ==
  /\ shot[p] = "taking"
  /\ \/ /\ Mounted
        /\ shot' = [shot EXCEPT ![p] = "shown"]
        /\ previews' = Append(previews, p)
     \/ /\ ~Mounted
        /\ shot' = [shot EXCEPT ![p] = "failed"]
        /\ UNCHANGED previews
  /\ UNCHANGED <<life, listed, cameras, initVars, camera>>

(* The directory or the picture cannot be had: printed. *)
CaptureFails(p) ==
  /\ shot[p] \in {"naming", "taking"}
  /\ shot' = [shot EXCEPT ![p] = "failed"]
  /\ UNCHANGED <<life, listed, cameras, initVars, camera, previews>>

-----------------------------------------------------------------------------
(* Leaving. *)

ClosePreview ==
  /\ previews # <<>>
  /\ previews' = Front(previews)
  /\ UNCHANGED <<life, listed, cameras, initVars, shot, camera>>

LeaveScreen ==
  /\ OnTop
  /\ life' = "leaving"
  /\ UNCHANGED <<listed, cameras, initVars, captureVars>>

(* The screen has no dispose of its own: its controller stays as it is. *)
Unmount ==
  /\ life = "leaving"
  /\ life' = "gone"
  /\ UNCHANGED <<listed, cameras, initVars, captureVars>>

-----------------------------------------------------------------------------

Next ==
  \/ \E n \in 0..NumCameras : CamerasListed(n)
  \/ CamerasNotListed
  \/ \E i \in Inits :
        \/ SwitchCamera(i)
        \/ ControllerDisposed(i)
        \/ DisposeFails(i)
        \/ InitializeReturns(i)
        \/ InitializeFails(i)
  \/ \E p \in Captures :
        \/ TapCapture(p)
        \/ DirectoryArrives(p)
        \/ PictureTaken(p)
        \/ CaptureFails(p)
  \/ ClosePreview
  \/ LeaveScreen
  \/ Unmount

Spec == Init /\ [][Next]_vars

-----------------------------------------------------------------------------

(* The controllers made, and those nobody can dispose any more. *)
Made   == {i \in Inits : pc[i] \in {"initializing", "ended"}}
Leaked == Made \ (disposed \union {controller})

Quiet == \A i \in Inits : pc[i] \in {"idle", "ended"}

(* As long as no switch starts while another is disposing, whatever else   *)
(* overlaps: every controller but the current one has been disposed, and   *)
(* once all runs have ended well the current one is for the camera of the  *)
(* toggle and is not disposed (_initCameraController, _onSwitchCamera).    *)
SwitchesInTurnAreSafe ==
  raced = {} =>
    /\ Leaked = {}
    /\ Quiet /\ controller # Null => /\ target[controller] = selectedCameraIdx
                                    /\ controller \notin disposed

(* What overlapping switches cost: each controller leaked is paid for by a *)
(* run of its own that started while another was disposing, and however    *)
(* they overlap there is a current controller as soon as one was made.     *)
LeaksCountRaces ==
  /\ Cardinality(Leaked) <= Cardinality(raced)
  /\ Made # {} => controller \in Made

(* A capture waits for a directory, and then uses whichever controller is  *)
(* there by then.  As long as no switch starts while another is disposing, *)
(* that is one for the camera of the toggle, or none that takes a picture: *)
(* whether a switch is under way, or one has failed before                 *)
(* (_onCapturePressed, _initCameraController).                             *)
TakenBySelectedCamera ==
  [][\A p \in Captures :
        raced = {} /\ shot[p] = "naming" /\ shot'[p] = "taking" =>
           target[camera'[p]] = selectedCameraIdx]_vars
=============================================================================
