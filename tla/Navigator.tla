----------------------------- MODULE Navigator -----------------------------
(***************************************************************************)
(* The Navigator of Flutter, as the handlers of this program use it.  Its  *)
(* calls act on whatever route is on top when they are made.  A route that *)
(* is popped or replaced stays mounted until its exit transition is over;  *)
(* until then its context still finds the Navigator, and then it throws.   *)
(***************************************************************************)
EXTENDS Integers, Sequences, FiniteSets, SequencesExt

CONSTANTS Screens,  \* the routes whose life matters to the handlers
          Base      \* the routes that are there before, below them

ASSUME NavigatorAssumption == Screens \intersect Base = {}

VARIABLES stack,    \* the routes of the Navigator, the one on top last
          life      \* of each screen: mounted or not, and whether on the stack

navVars == <<stack, life>>

NavTypeOK ==
  /\ stack \in Seq(Base \union Screens)
  /\ life \in [Screens -> {"unopened", "shown", "leaving", "gone"}]

OnTop(r)   == stack # <<>> /\ Last(stack) = r
Mounted(s) == life[s] \in {"shown", "leaving"}

(* The life of the screens once the routes of the set gone are popped. *)
Without(gone) == [s \in Screens |-> IF s \in gone THEN "leaving" ELSE life[s]]

Push(s) ==
  /\ life[s] = "unopened"
  /\ stack' = Append(stack, s)
  /\ life' = [life EXCEPT ![s] = "shown"]

Pop ==
  /\ stack # <<>>
  /\ stack' = Front(stack)
  /\ life' = Without({Last(stack)})

PushReplacement(s) ==
  /\ stack # <<>>
  /\ life[s] = "unopened"
  /\ stack' = Append(Front(stack), s)
  /\ life' = [Without({Last(stack)}) EXCEPT ![s] = "shown"]

(* pushAndRemoveUntil, with a predicate that the route r alone satisfies. *)
PushOnto(r, s) ==
  /\ life[s] = "unopened"
  /\ stack' = IF r \in ToSet(stack) THEN <<r, s>> ELSE <<s>>
  /\ life' = [Without(ToSet(stack) \ {r}) EXCEPT ![s] = "shown"]

(* The exit transition of s is over. *)
Dispose(s) ==
  /\ life[s] = "leaving"
  /\ life' = [life EXCEPT ![s] = "gone"]
  /\ UNCHANGED stack

-----------------------------------------------------------------------------
(* The stack and the lives tell the same: the screens on the stack are     *)
(* those that are shown, each of them once.                                *)
Coherent ==
  /\ \A s \in Screens : life[s] = "shown" <=> \E i \in DOMAIN stack : stack[i] = s
  /\ \A i, j \in DOMAIN stack : stack[i] = stack[j] => i = j
=============================================================================
