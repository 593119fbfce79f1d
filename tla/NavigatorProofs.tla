-------------------------- MODULE NavigatorProofs --------------------------
(***************************************************************************)
(* Every operation of the Navigator keeps its state typed, and keeps the   *)
(* stack and the lives of the screens telling the same.                    *)
(***************************************************************************)
EXTENDS Navigator, TLAPS

(* One call of the Navigator, or the end of an exit transition. *)
NavStep ==
  \/ \E s \in Screens : \/ Push(s) \/ PushReplacement(s) \/ Dispose(s)
                        \/ \E r \in Base \union Screens : PushOnto(r, s)
  \/ Pop

(* The first routes of a stack and the one on top of them. *)
LEMMA FrontAndLast ==
  ASSUME NEW S, NEW q \in Seq(S), q # <<>>
  PROVE  /\ Len(q) \in Nat /\ Len(q) > 0
         /\ DOMAIN q = 1..Len(q)
         /\ Front(q) \in Seq(S) /\ Len(Front(q)) = Len(q) - 1
         /\ \A i \in 1..(Len(q) - 1) : Front(q)[i] = q[i]
         /\ Last(q) = q[Len(q)] /\ Last(q) \in S
<1>1. Len(q) \in Nat /\ Len(q) > 0 /\ DOMAIN q = 1..Len(q)
  OBVIOUS
<1>2. QED
  BY <1>1 DEF Front, Last

(* The stack holds routes and every screen has a life, after any call. *)
THEOREM NavTyped == NavTypeOK /\ [NavStep]_navVars => NavTypeOK'
<1> SUFFICES ASSUME NavTypeOK, [NavStep]_navVars PROVE NavTypeOK'
  OBVIOUS
<1> USE DEF NavTypeOK, Without
<1>1. ASSUME NEW s \in Screens, Push(s) PROVE NavTypeOK'
  BY <1>1 DEF Push
<1>2. ASSUME NEW s \in Screens, PushReplacement(s) PROVE NavTypeOK'
  <2>1. Front(stack) \in Seq(Base \union Screens)
    BY <1>2, FrontAndLast DEF PushReplacement
  <2>2. QED
    BY <1>2, <2>1 DEF PushReplacement
<1>3. ASSUME NEW s \in Screens, Dispose(s) PROVE NavTypeOK'
  BY <1>3 DEF Dispose
<1>4. ASSUME NEW s \in Screens, NEW r \in Base \union Screens, PushOnto(r, s)
      PROVE  NavTypeOK'
  <2>1. <<r, s>> \in Seq(Base \union Screens) /\ <<s>> \in Seq(Base \union Screens)
    OBVIOUS
  <2>2. stack' = <<r, s>> \/ stack' = <<s>>
    BY <1>4 DEF PushOnto
  <2>3. life' \in [Screens -> {"unopened", "shown", "leaving", "gone"}]
    BY <1>4 DEF PushOnto
  <2>4. QED
    BY <2>1, <2>2, <2>3
<1>5. CASE Pop
  <2>1. Front(stack) \in Seq(Base \union Screens)
    BY <1>5, FrontAndLast DEF Pop
  <2>2. QED
    BY <1>5, <2>1 DEF Pop
<1>6. CASE UNCHANGED navVars
  BY <1>6 DEF navVars
<1>7. QED
  BY <1>1, <1>2, <1>3, <1>4, <1>5, <1>6 DEF NavStep

(* Whatever the handlers call, a screen is shown as long as it is on the   *)
(* stack and no longer, and it is there once.                              *)
THEOREM NavCoherent == NavTypeOK /\ Coherent /\ [NavStep]_navVars => Coherent'
<1> SUFFICES ASSUME NavTypeOK, Coherent, [NavStep]_navVars PROVE Coherent'
  OBVIOUS
<1> DEFINE On(t, q) == \E i \in DOMAIN q : q[i] = t
<1>0. /\ stack \in Seq(Base \union Screens)
      /\ DOMAIN stack = 1..Len(stack) /\ Len(stack) \in Nat
      /\ \A t \in Screens : life[t] = "shown" <=> On(t, stack)
      /\ \A i, j \in DOMAIN stack : stack[i] = stack[j] => i = j
  BY DEF NavTypeOK, Coherent
<1>1. ASSUME NEW s \in Screens, Push(s) PROVE Coherent'
  <2>1. ~On(s, stack)
    BY <1>0, <1>1 DEF Push
  <2>2. /\ DOMAIN stack' = 1..(Len(stack) + 1)
        /\ stack'[Len(stack) + 1] = s
        /\ \A i \in 1..Len(stack) : stack'[i] = stack[i]
    BY <1>0, <1>1 DEF Push
  <2>3. \A i, j \in DOMAIN stack' : stack'[i] = stack'[j] => i = j
    BY <1>0, <2>1, <2>2
  <2>4. ASSUME NEW t \in Screens PROVE life'[t] = "shown" <=> On(t, stack')
    <3>1. On(t, stack') <=> t = s \/ On(t, stack)
      BY <1>0, <2>2
    <3>2. life'[t] = IF t = s THEN "shown" ELSE life[t]
      BY <1>1 DEF Push, NavTypeOK
    <3>3. QED
      BY <1>0, <3>1, <3>2
  <2>5. QED
    BY <2>3, <2>4 DEF Coherent
<1>2. ASSUME stack # <<>> 
      PROVE  /\ \A t \in Base \union Screens : 
                  On(t, Front(stack)) <=> On(t, stack) /\ t # Last(stack)
             /\ Front(stack) \in Seq(Base \union Screens)
             /\ Last(stack) \in Base \union Screens
             /\ \A i, j \in DOMAIN Front(stack) :
                  Front(stack)[i] = Front(stack)[j] => i = j
  <2>1. /\ Len(stack) > 0 /\ Len(Front(stack)) = Len(stack) - 1
        /\ Front(stack) \in Seq(Base \union Screens)
        /\ \A i \in 1..(Len(stack) - 1) : Front(stack)[i] = stack[i]
        /\ Last(stack) = stack[Len(stack)] /\ Last(stack) \in Base \union Screens
    BY <1>0, <1>2, FrontAndLast
  <2>2. DOMAIN Front(stack) = 1..(Len(stack) - 1)
    BY <2>1
  <2>3. ASSUME NEW t \in Base \union Screens
        PROVE  On(t, Front(stack)) <=> On(t, stack) /\ t # Last(stack)
    <3>1. ASSUME NEW i \in DOMAIN Front(stack), Front(stack)[i] = t
          PROVE  On(t, stack) /\ t # Last(stack)
      <4>1. i \in DOMAIN stack /\ i # Len(stack) /\ stack[i] = t
        BY <1>0, <2>1, <2>2, <3>1
      <4>2. QED
        BY <1>0, <2>1, <4>1
    <3>2. ASSUME NEW i \in DOMAIN stack, stack[i] = t, t # Last(stack)
          PROVE  On(t, Front(stack))
      <4>1. i \in 1..(Len(stack) - 1)
        BY <1>0, <2>1, <3>2
      <4>2. QED
        BY <2>1, <2>2, <3>2, <4>1
    <3>3. QED
      BY <3>1, <3>2
  <2>4. \A i, j \in DOMAIN Front(stack) : Front(stack)[i] = Front(stack)[j] => i = j
    BY <1>0, <2>1, <2>2
  <2>5. QED
    BY <2>1, <2>3, <2>4
<1>3. CASE Pop
  <2>1. /\ stack # <<>> /\ stack' = Front(stack)
        /\ \A t \in Screens : life'[t] = IF t = Last(stack) THEN "leaving" ELSE life[t]
    BY <1>3 DEF Pop, Without
  <2>2. ASSUME NEW t \in Screens PROVE life'[t] = "shown" <=> On(t, stack')
    BY <1>0, <1>2, <2>1
  <2>3. QED
    BY <1>2, <2>1, <2>2 DEF Coherent
<1>4. ASSUME NEW s \in Screens, PushReplacement(s) PROVE Coherent'
  <2>1. /\ stack # <<>> /\ life[s] = "unopened" /\ stack' = Append(Front(stack), s)
        /\ \A t \in Screens :
             life'[t] = IF t = s THEN "shown"
                        ELSE IF t = Last(stack) THEN "leaving" ELSE life[t]
    BY <1>4 DEF PushReplacement, Without
  <2> DEFINE q == Front(stack)
  <2>2. /\ q \in Seq(Base \union Screens)
        /\ \A i, j \in DOMAIN q : q[i] = q[j] => i = j
        /\ \A t \in Base \union Screens : On(t, q) <=> On(t, stack) /\ t # Last(stack)
    BY <1>2, <2>1
  <2>3. ~On(s, q)
    BY <1>0, <2>1, <2>2
  <2>4. stack' = Append(q, s)
    BY <2>1
  <2> HIDE DEF q
  <2>5. /\ DOMAIN q = 1..Len(q) /\ Len(q) \in Nat
        /\ DOMAIN stack' = 1..(Len(q) + 1)
        /\ stack'[Len(q) + 1] = s
        /\ \A i \in 1..Len(q) : stack'[i] = q[i]
    BY <2>2, <2>4
  <2>6. \A i, j \in DOMAIN stack' : stack'[i] = stack'[j] => i = j
    BY <2>2, <2>3, <2>5
  <2>7. ASSUME NEW t \in Screens PROVE life'[t] = "shown" <=> On(t, stack')
    <3>1. On(t, stack') <=> t = s \/ On(t, q)
      BY <2>5
    <3>2. QED
      BY <1>0, <2>1, <2>2, <3>1
  <2>8. QED
    BY <2>6, <2>7 DEF Coherent
<1>5. ASSUME NEW s \in Screens, NEW r \in Base \union Screens, PushOnto(r, s)
      PROVE  Coherent'
  <2>1. /\ life[s] = "unopened"
        /\ \A t \in Screens :
             life'[t] = IF t = s THEN "shown"
                        ELSE IF On(t, stack) /\ t # r THEN "leaving" ELSE life[t]
    BY <1>5 DEF PushOnto, Without, ToSet
  <2>2. ~On(s, stack)
    BY <1>0, <2>1
  <2>3. CASE On(r, stack)
    <3>1. stack' = <<r, s>> /\ r # s
      BY <1>5, <2>2, <2>3 DEF PushOnto, ToSet
    <3>2. \A t \in Screens : On(t, stack') <=> t = r \/ t = s
      BY <3>1
    <3>3. \A i, j \in DOMAIN stack' : stack'[i] = stack'[j] => i = j
      BY <3>1
    <3>4. ASSUME NEW t \in Screens PROVE life'[t] = "shown" <=> On(t, stack')
      BY <1>0, <2>1, <2>3, <3>2
    <3>5. QED
      BY <3>3, <3>4 DEF Coherent
  <2>4. CASE ~On(r, stack)
    <3>1. stack' = <<s>>
      BY <1>5, <2>4 DEF PushOnto, ToSet
    <3>2. \A t \in Screens : On(t, stack') <=> t = s
      BY <3>1
    <3>3. \A i, j \in DOMAIN stack' : stack'[i] = stack'[j] => i = j
      BY <3>1
    <3>4. ASSUME NEW t \in Screens PROVE life'[t] = "shown" <=> On(t, stack')
      BY <1>0, <2>1, <2>4, <3>2
    <3>5. QED
      BY <3>3, <3>4 DEF Coherent
  <2>5. QED
    BY <2>3, <2>4
<1>6. ASSUME NEW s \in Screens, Dispose(s) PROVE Coherent'
  BY <1>0, <1>6 DEF Dispose, Coherent
<1>7. CASE UNCHANGED navVars
  BY <1>7 DEF navVars, Coherent
<1>8. QED
  BY <1>1, <1>3, <1>4, <1>5, <1>6, <1>7 DEF NavStep

(* A screen is opened once, and from then on goes forward: shown, being    *)
(* left, gone.                                                             *)
THEOREM LivesGoForward ==
  ASSUME NavTypeOK, Coherent, [NavStep]_navVars, NEW t \in Screens, life[t] # "unopened"
  PROVE  \/ life'[t] = life[t]
         \/ life[t] = "shown" /\ life'[t] = "leaving"
         \/ life[t] = "leaving" /\ life'[t] = "gone"
<1>1. life \in [Screens -> {"unopened", "shown", "leaving", "gone"}]
  BY DEF NavTypeOK
<1>2. t \in ToSet(stack) => life[t] = "shown"
  BY DEF Coherent, ToSet
<1>3. stack # <<>> /\ t = Last(stack) => life[t] = "shown"
  <2>1. stack \in Seq(Base \union Screens)
    BY DEF NavTypeOK
  <2>2. ASSUME stack # <<>>
        PROVE  Last(stack) = stack[Len(stack)] /\ Len(stack) \in DOMAIN stack
    <3>1. /\ Len(stack) \in Nat /\ Len(stack) > 0 /\ DOMAIN stack = 1..Len(stack)
          /\ Last(stack) = stack[Len(stack)]
      BY <2>1, <2>2, FrontAndLast
    <3>2. QED
      BY <3>1
  <2>3. QED
    BY <2>2 DEF Coherent
<1>4. ASSUME NEW s \in Screens, Push(s) PROVE life'[t] = life[t]
  BY <1>1, <1>4 DEF Push
<1>5. ASSUME NEW s \in Screens, PushReplacement(s)
      PROVE  life'[t] = life[t] \/ (life[t] = "shown" /\ life'[t] = "leaving")
  BY <1>1, <1>3, <1>5 DEF PushReplacement, Without
<1>6. ASSUME NEW s \in Screens, NEW r, PushOnto(r, s)
      PROVE  life'[t] = life[t] \/ (life[t] = "shown" /\ life'[t] = "leaving")
  BY <1>1, <1>2, <1>6 DEF PushOnto, Without
<1>7. ASSUME NEW s \in Screens, Dispose(s)
      PROVE  life'[t] = life[t] \/ (life[t] = "leaving" /\ life'[t] = "gone")
  BY <1>1, <1>7 DEF Dispose
<1>8. ASSUME Pop
      PROVE  life'[t] = life[t] \/ (life[t] = "shown" /\ life'[t] = "leaving")
  BY <1>1, <1>3, <1>8 DEF Pop, Without
<1>9. QED
  BY <1>4, <1>5, <1>6, <1>7, <1>8 DEF NavStep, navVars
=============================================================================
