-------------------------- MODULE AttendanceLedger --------------------------
(***************************************************************************)
(* What taking attendance promises, without screens, requests or replies.  *)
(* A picture comes to be known as the face of one or more students; an     *)
(* attempt to send a picture adds at most one entry to the ledger, and     *)
(* only for a student that very picture was recognised as.  Entries are    *)
(* never changed or removed.  MarkAttendance implements this module.       *)
(***************************************************************************)
EXTENDS Sequences, Naturals

CONSTANTS Pictures,  \* the face pictures taken
          Sends,     \* the attempts to send a picture
          Students   \* the subject ids of the face gallery

VARIABLES named,     \* the students each picture has been recognised as
          ledger     \* the attendance entries, oldest first

vars == <<named, ledger>>

Entry == [send: Sends, picture: Pictures, student: Students]

Entered(e) == \E i \in DOMAIN ledger : ledger[i].send = e

-----------------------------------------------------------------------------

Init == /\ named = [p \in Pictures |-> {}]
        /\ ledger = <<>>

(* The picture p is recognised as the face of m. *)
Recognise(p, m) == /\ named' = [named EXCEPT ![p] = @ \union {m}]
                   /\ UNCHANGED ledger

(* The attempt e to send the picture p puts down m, once. *)
Enter(e, p, m) == /\ ~Entered(e)
                  /\ m \in named[p]
                  /\ ledger' = Append(ledger, [send |-> e, picture |-> p, student |-> m])
                  /\ UNCHANGED named

Next == \E p \in Pictures, m \in Students :
           \/ Recognise(p, m)
           \/ \E e \in Sends : Enter(e, p, m)

Spec == Init /\ [][Next]_vars
=============================================================================
