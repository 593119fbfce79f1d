-------------------------- MODULE StudentAccounts --------------------------
(***************************************************************************)
(* What accounts and sessions of students come to, without screens, calls  *)
(* or restarts.  Each student gets one account at most, and the session    *)
(* that comes with it can be begun once, by whoever waits for it; if it is *)
(* lost it is lost for good, and once ended no session of the student ever *)
(* begins again.  Session implements this module.                          *)
(***************************************************************************)
CONSTANTS Students,
          Null       \* nobody

VARIABLES accounts,    \* the students who have an account
          unclaimed,   \* those of them whose session has still to begin
          currentUser  \* the student signed in

vars == <<accounts, unclaimed, currentUser>>

-----------------------------------------------------------------------------

Init == /\ accounts = {}
        /\ unclaimed = {}
        /\ currentUser = Null

(* The student e gets an account. *)
Register(e) == /\ e \notin accounts
               /\ accounts' = accounts \union {e}
               /\ unclaimed' = unclaimed \union {e}
               /\ UNCHANGED currentUser

(* The session that came with it begins, whoever was signed in before. *)
Begin(e) == /\ e \in unclaimed
            /\ unclaimed' = unclaimed \ {e}
            /\ currentUser' = e
            /\ UNCHANGED accounts

(* Some of the sessions still to begin are lost. *)
Lose == /\ unclaimed' \subseteq unclaimed
        /\ UNCHANGED <<accounts, currentUser>>

End == /\ currentUser' = Null
       /\ UNCHANGED <<accounts, unclaimed>>

Next == \/ \E e \in Students : Register(e) \/ Begin(e)
        \/ Lose
        \/ End

Spec == Init /\ [][Next]_vars
=============================================================================
