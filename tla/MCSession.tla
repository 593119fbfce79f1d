----------------------------- MODULE MCSession -----------------------------
(* Small instances of Session for TLC. *)
EXTENDS Session, TLC

CONSTANTS ada, ben

(* Two students, so that one's screens and session can be the other's. *)
MCEmails == {ada, ben}
MCSymmetry == Permutations(MCEmails)

(* Login, sign-up and profile; or, after a restart, login, the restored    *)
(* profile and what it opens or the login screen it is left for.           *)
MCScreens == 1..3
MCBase == {0}
=============================================================================
