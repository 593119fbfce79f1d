--------------------------- MODULE FaceEnrolment ---------------------------
(***************************************************************************)
(* Enrolling a face: the camera screen that the profile opens              *)
(* (lib/Registration/Register_camera.dart), the preview of the picture it  *)
(* takes (lib/Registration/Register_preview.dart) and the request that     *)
(* enrols the picture (enrollImage, lib/utils/face_recognition.dart).      *)
(*                                                                         *)
(* The handlers act on the Navigator after their awaits, and Navigator     *)
(* calls act on the route that is on top by then, whichever that is.       *)
(* Camera screens are named by visits, and previews by their pictures.     *)
(***************************************************************************)
EXTENDS Navigator

CONSTANTS Visits,   \* camera screens opened
          Shots,    \* taps on the capture button, and the pictures they take
          Uploads,  \* taps on Upload
          Start,    \* the route at the bottom
          Profile,  \* the route above it, from which faces are registered
          Null

ASSUME RoutesAssumption ==
  /\ Screens = Visits \union Shots
  /\ Base = {Start, Profile}
  /\ Visits \intersect Shots = {} /\ Shots \intersect Uploads = {}
  /\ Start # Profile
  /\ Null \notin Screens

VARIABLES
  paths,    \* the global list of pictures, which is never cleared
  shot,     \* where each capture is
  visit,    \* the camera screen of each capture
  upload,   \* where each upload is
  picture,  \* the picture of each upload
  gallery,  \* the pictures the service has enrolled
  told,     \* the pictures the user was told 'IMAGE UPLOADED' of
  late      \* history: captures and uploads that acted for a screen being left

shotVars   == <<paths, shot, visit>>
uploadVars == <<upload, picture, gallery, told>>
vars == <<navVars, shotVars, uploadVars, late>>

TypeOK ==
  /\ NavTypeOK
  /\ paths \in Seq(Shots)
  /\ shot \in [Shots -> {"idle", "taking", "displayed", "failed"}]
  /\ visit \in [Shots -> Visits \union {Null}]
  /\ upload \in [Uploads -> {"idle", "enrolling", "done", "failed"}]
  /\ picture \in [Uploads -> Shots \union {Null}]
  /\ gallery \subseteq Shots
  /\ told \subseteq Shots
  /\ late \subseteq Shots \union Uploads

Init ==
  /\ stack = <<Start, Profile>>
  /\ life = [s \in Screens |-> "unopened"]
  /\ paths = <<>>
  /\ shot = [p \in Shots |-> "idle"]
  /\ visit = [p \in Shots |-> Null]
  /\ upload = [u \in Uploads |-> "idle"]
  /\ picture = [u \in Uploads |-> Null]
  /\ gallery = {}
  /\ told = {}
  /\ late = {}

-----------------------------------------------------------------------------
(* The run acts for the screen s, which may not be on the stack any more. *)
ActsFor(s, run) == late' = IF life[s] = "leaving" THEN late \union {run} ELSE late

GoBack ==
  /\ \E s \in Screens : OnTop(s)
  /\ Pop
  /\ UNCHANGED <<shotVars, uploadVars, late>>

Unmount(s) ==
  /\ Dispose(s)
  /\ UNCHANGED <<shotVars, uploadVars, late>>

-----------------------------------------------------------------------------
(* The camera screen. *)

OpenCamera(v) ==
  /\ OnTop(Profile)
  /\ Push(v)
  /\ UNCHANGED <<shotVars, uploadVars, late>>

(* Mutant: a picture is taken for whatever is on top. *)
TapCaptureAnywhere(p, v) ==
  /\ shot[p] = "idle"
  /\ stack # <<>>
  /\ shot' = [shot EXCEPT ![p] = "taking"]
  /\ visit' = [visit EXCEPT ![p] = Last(stack)]
  /\ UNCHANGED <<navVars, paths, uploadVars, late>>

TapCapture(p, v) ==
  /\ OnTop(v)
  /\ shot[p] = "idle"
  /\ shot' = [shot EXCEPT ![p] = "taking"]
  /\ visit' = [visit EXCEPT ![p] = v]
  /\ UNCHANGED <<navVars, paths, uploadVars, late>>

(* The picture a preview shows: the first of the list it is given. *)
DisplayedPicture == Head(paths)

(* Mutant: the preview goes on top of what is there. *)
PictureTakenPushing(p) ==
  /\ shot[p] = "taking"
  /\ paths' = Append(paths, p)
  /\ Mounted(visit[p])
  /\ shot' = [shot EXCEPT ![p] = "displayed"]
  /\ Push(p)
  /\ ActsFor(visit[p], p)
  /\ UNCHANGED <<visit, uploadVars>>

(* takePicture returns: the picture is added to paths, and its preview     *)
(* replaces the route on top unless the camera screen is unmounted.        *)
PictureTaken(p) ==
  /\ shot[p] = "taking"
  /\ paths' = Append(paths, p)
  /\ \/ /\ Mounted(visit[p]) /\ stack # <<>>
        /\ shot' = [shot EXCEPT ![p] = "displayed"]
        /\ PushReplacement(p)
        /\ ActsFor(visit[p], p)
     \/ /\ ~(Mounted(visit[p]) /\ stack # <<>>)
        /\ shot' = [shot EXCEPT ![p] = "failed"]
        /\ UNCHANGED <<navVars, late>>
  /\ UNCHANGED <<visit, uploadVars>>

(* The directory or the picture cannot be had: printed. *)
CaptureFails(p) ==
  /\ shot[p] = "taking"
  /\ shot' = [shot EXCEPT ![p] = "failed"]
  /\ UNCHANGED <<navVars, paths, visit, uploadVars, late>>

-----------------------------------------------------------------------------
(* The preview. *)

TapUpload(u, p) ==
  /\ OnTop(p)
  /\ upload[u] = "idle"
  /\ upload' = [upload EXCEPT ![u] = "enrolling"]
  /\ picture' = [picture EXCEPT ![u] = p]
  /\ UNCHANGED <<navVars, shotVars, gallery, told, late>>

(* The service enrols the picture of a request that was made, which it may *)
(* do after the client has given the request up.                           *)
ServiceEnrols(u) ==
  /\ upload[u] # "idle"
  /\ gallery' = gallery \union {picture[u]}
  /\ UNCHANGED <<navVars, shotVars, upload, picture, told, late>>

(* Mutant: the preview is popped even after it is gone. *)
EnrollReturnsUnmounted(u) ==
  /\ upload[u] = "enrolling"
  /\ upload' = [upload EXCEPT ![u] = "done"]
  /\ told' = told \union {picture[u]}
  /\ Pop
  /\ ActsFor(picture[u], u)
  /\ UNCHANGED <<shotVars, picture, gallery>>

(* enrollImage returns: the service has enrolled the picture, or answered  *)
(* with Errors, or the request or its answer was lost, which a DioError    *)
(* is caught for.  The same is shown for all three, and the route on top   *)
(* is popped; on an unmounted preview the snackbar throws before that.     *)
EnrollReturns(u) ==
  /\ upload[u] = "enrolling"
  /\ told' = told \union {p \in {picture[u]} : Mounted(p)}
  /\ \/ /\ Mounted(picture[u]) /\ stack # <<>>
        /\ upload' = [upload EXCEPT ![u] = "done"]
        /\ Pop
        /\ ActsFor(picture[u], u)
     \/ /\ ~(Mounted(picture[u]) /\ stack # <<>>)
        /\ upload' = [upload EXCEPT ![u] = "failed"]
        /\ UNCHANGED <<navVars, late>>
  /\ UNCHANGED <<shotVars, picture, gallery>>

(* The answer cannot be parsed: nothing is shown and nothing popped. *)
EnrollThrows(u) ==
  /\ upload[u] = "enrolling"
  /\ upload' = [upload EXCEPT ![u] = "failed"]
  /\ UNCHANGED <<navVars, shotVars, picture, gallery, told, late>>

-----------------------------------------------------------------------------

Next ==
  \/ GoBack
  \/ \E s \in Screens : Unmount(s)
  \/ \E v \in Visits : OpenCamera(v) \/ \E p \in Shots : TapCapture(p, v)
  \/ \E p \in Shots : PictureTaken(p) \/ CaptureFails(p)
  \/ \E u \in Uploads :
        \/ \E p \in Shots : TapUpload(u, p)
        \/ ServiceEnrols(u)
        \/ EnrollReturns(u)
        \/ EnrollThrows(u)

Spec == Init /\ [][Next]_vars

-----------------------------------------------------------------------------

(* No handler takes away the profile or the start screen, except that each *)
(* one that acts for a screen which has just been left, by Back or by      *)
(* another handler, may take away one route too many (Navigator.pop and    *)
(* pushReplacement after an await act on whatever is on top).              *)
BaseRoutesKept ==
  Cardinality({Start, Profile} \ ToSet(stack)) <= Cardinality(late)

(* The routes are the start screen, the profile and one screen of this     *)
(* module at most, and the screens on the stack are those not being left,  *)
(* whatever pops and replacements overlap: previews never pile up, as a    *)
(* capture replaces its camera screen and a second one its first preview.  *)
OneScreenAtATime ==
  /\ Cardinality(ToSet(stack) \intersect Screens) <= 1
  /\ Coherent
  /\ late = {} => SubSeq(stack, 1, 2) = <<Start, Profile>>

(* "If the picture was taken, display it on a new screen": the preview on  *)
(* top shows the picture it would upload.                                  *)
DisplaysThePictureTaken ==
  \A p \in Shots : OnTop(p) => DisplayedPicture = p

(* "Enroll Image in the database", after which 'IMAGE UPLOADED' is shown:  *)
(* the service has every picture the user was told so of.                  *)
UploadedMeansEnrolled == told \subseteq gallery
=============================================================================
