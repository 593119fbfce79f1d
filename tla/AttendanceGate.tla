--------------------------- MODULE AttendanceGate ---------------------------
(***************************************************************************)
(* What the way from a course to the sheet promises, without routes,       *)
(* dialogs, cameras or requests.  A tap on a course is judged once, by a   *)
(* distance; only a tap that was confirmed has pictures, each taken once   *)
(* and for one tap; and a row is of a picture.  A verdict is never         *)
(* changed, a picture never passes to another tap, and rows are never      *)
(* changed or removed.  App implements this module.                        *)
(***************************************************************************)
EXTENDS Sequences

CONSTANTS Taps,       \* taps on a course
          Pictures,   \* the face pictures taken
          Distances,  \* the distances a tap may be judged by
          Confirmed,  \* those that confirm it
          Null

VARIABLES judged,     \* the distance each tap was judged by
          origin,     \* the tap each picture was taken for
          rows        \* the pictures of the rows, oldest first

vars == <<judged, origin, rows>>

-----------------------------------------------------------------------------

Init == /\ judged = [t \in Taps |-> Null]
        /\ origin = [p \in Pictures |-> Null]
        /\ rows = <<>>

(* The tap t is judged by the distance d. *)
Judge(t, d) == /\ judged[t] = Null
               /\ judged' = [judged EXCEPT ![t] = d]
               /\ UNCHANGED <<origin, rows>>

(* The picture p is taken for the tap t. *)
Take(p, t) == /\ judged[t] \in Confirmed
              /\ origin[p] = Null
              /\ origin' = [origin EXCEPT ![p] = t]
              /\ UNCHANGED <<judged, rows>>

(* The picture p gets a row. *)
Record(p) == /\ origin[p] \in Taps
             /\ rows' = Append(rows, p)
             /\ UNCHANGED <<judged, origin>>

Next == \/ \E t \in Taps : \/ \E d \in Distances : Judge(t, d)
                           \/ \E p \in Pictures : Take(p, t)
        \/ \E p \in Pictures : Record(p)

Spec == Init /\ [][Next]_vars
=============================================================================
