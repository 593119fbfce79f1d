--------------------------- MODULE SessionProofs ---------------------------
(***************************************************************************)
(* Proofs about Session, for any numbers of routes, of unanswered calls    *)
(* and of students.                                                        *)
(***************************************************************************)
EXTENDS Session, NavigatorProofs, SequenceTheorems, TLAPS

(* The screen a call is made by. *)
Caller(op) == IF op \in Builds \union {"signIn"} THEN "login"
              ELSE IF op \in SignUpCalls THEN "signUp" ELSE "profile"

(* A call is made by a screen that was opened, of the kind that makes it;  *)
(* a form names a student, and so do the sign-ups sent.                    *)
CallsFit ==
  /\ \A c \in pending :
        /\ life[c.screen] # "unopened"
        /\ Mounted(c.screen) => kind[c.screen] = Caller(c.op)
        /\ c.op \in SignUpCalls => c.email \in Emails
  /\ \A r \in Screens : kind[r] = "signUp" => user[r] \in Emails

(* A sign-up that was answered has made its account, and no other has. *)
OneReply ==
  \A c, d \in pending :
    c.op = "created" /\ d.op = "created" /\ c.email = d.email => c = d

Accounts ==
  /\ \A c \in pending : c.op \in {"created", "update"} => c.email \in accounts
  /\ OneReply
  /\ UserHasAccount

(* Spinners go with their screens. *)
Spinning == SpinnersStop /\ \A x \in spinning : Mounted(x[1])

(* A form, a camera, Courses and SendMail are never under another screen. *)
TopOnly ==
  \A r \in Screens :
    life[r] = "shown" /\ kind[r] \in {"signUp", "register", "courses", "sendMail"} => OnTop(r)

NoSlips == ~astray

(* Without slips a profile is on top or right under what it opened. *)
ProfileNearTop ==
  NoSlips =>
    \A i \in 1..Len(stack) : stack[i] \in Screens /\ kind[stack[i]] = "profile" =>
      \/ i = Len(stack)
      \/ /\ i = Len(stack) - 1 /\ Last(stack) \in Screens
         /\ kind[Last(stack)] \in {"register", "courses"}

(* Without slips, once a sign-up was answered its student is signed in, at *)
(* least until the form is gone.                                           *)
SignUpsFit ==
  NoSlips =>
    \A c \in pending : c.op = "update" /\ Mounted(c.screen) => currentUser = c.email

IInv == /\ TypeOK /\ Coherent
        /\ CallsFit /\ Accounts /\ Spinning /\ StartKept
        /\ TopOnly /\ ProfileNearTop /\ SignUpsFit /\ ProfileIsOwn

-----------------------------------------------------------------------------
(* What the Navigator does here. *)

(* The stack is a sequence of routes, each of them once, and the screens   *)
(* on it are those that are shown.                                         *)
LEMMA StackFacts ==
  ASSUME TypeOK, Coherent
  PROVE  /\ stack \in Seq({0} \union Screens) /\ Len(stack) \in Nat
         /\ DOMAIN stack = 1..Len(stack) /\ 0 \notin Screens
         /\ \A i \in 1..Len(stack) : stack[i] \in {0} \union Screens
         /\ \A i, j \in 1..Len(stack) : stack[i] = stack[j] => i = j
         /\ \A t \in Screens : life[t] = "shown" <=> \E i \in 1..Len(stack) : stack[i] = t
         /\ \A r : r \in ToSet(stack) <=> \E i \in 1..Len(stack) : stack[i] = r
         /\ stack # <<>> => Len(stack) > 0 /\ Last(stack) = stack[Len(stack)]
<1>1. stack \in Seq({0} \union Screens) /\ 0 \notin Screens
  BY RoutesAssumption, NavigatorAssumption DEF TypeOK, NavTypeOK
<1>2. DOMAIN stack = 1..Len(stack) /\ Len(stack) \in Nat
  BY <1>1
<1>3. stack # <<>> => Len(stack) > 0 /\ Last(stack) = stack[Len(stack)]
  BY <1>1 DEF Last
<1>4. QED
  BY <1>1, <1>2, <1>3 DEF Coherent, ToSet

(* A screen on top is shown, and no other route is on top. *)
LEMMA OnTopShows ==
  ASSUME TypeOK, Coherent, NEW r \in Screens, OnTop(r)
  PROVE  /\ stack # <<>> /\ Len(stack) > 0 /\ stack[Len(stack)] = r
         /\ life[r] = "shown" /\ Mounted(r)
         /\ \A t : OnTop(t) => t = r
<1>1. stack # <<>> /\ Last(stack) = r /\ Len(stack) > 0 /\ stack[Len(stack)] = r
  BY StackFacts DEF OnTop
<1>2. QED
  BY <1>1, StackFacts DEF OnTop, Mounted

(* The screen n has been opened, and at most some that were shown are left. *)
Opened(n) ==
  /\ life[n] = "unopened" /\ life'[n] = "shown"
  /\ \A t \in Screens \ {n} :
        life'[t] = life[t] \/ (life[t] = "shown" /\ life'[t] = "leaving")

LEMMA PushFacts ==
  ASSUME TypeOK, Coherent, NEW n \in Screens, Push(n)
  PROVE  /\ Opened(n)
         /\ \A t \in Screens \ {n} : life'[t] = life[t]
         /\ Len(stack') = Len(stack) + 1 /\ stack' # <<>>
         /\ \A i \in 1..Len(stack) : stack'[i] = stack[i]
         /\ stack'[Len(stack')] = n /\ Last(stack') = n
<1>1. stack' = Append(stack, n) /\ stack \in Seq({0} \union Screens \union {n})
  BY StackFacts DEF Push
<1>2. /\ Len(stack') = Len(stack) + 1 /\ stack' # <<>>
      /\ \A i \in 1..Len(stack) : stack'[i] = stack[i]
      /\ stack'[Len(stack')] = n
  BY <1>1
<1>3. Last(stack') = n
  BY <1>2 DEF Last
<1>4. \A t \in Screens : life'[t] = IF t = n THEN "shown" ELSE life[t]
  BY DEF Push, TypeOK, NavTypeOK
<1>5. QED
  BY <1>2, <1>3, <1>4 DEF Opened, Push

LEMMA PopFacts ==
  ASSUME TypeOK, Coherent, Pop
  PROVE  /\ Len(stack) > 0 /\ Len(stack') = Len(stack) - 1
         /\ \A i \in 1..(Len(stack) - 1) : stack'[i] = stack[i]
         /\ \A t \in Screens : life'[t] = IF OnTop(t) THEN "leaving" ELSE life[t]
         /\ \A t \in Screens : OnTop(t) => life[t] = "shown"
<1>1. stack # <<>> /\ stack' = Front(stack)
  BY DEF Pop
<1>2. /\ Len(stack) > 0 /\ Len(stack') = Len(stack) - 1
      /\ \A i \in 1..(Len(stack) - 1) : stack'[i] = stack[i]
  BY <1>1, StackFacts, FrontAndLast
<1>3. \A t \in Screens : life'[t] = IF OnTop(t) THEN "leaving" ELSE life[t]
  BY <1>1 DEF Pop, Without, OnTop
<1>4. QED
  BY <1>2, <1>3, OnTopShows

LEMMA ReplaceFacts ==
  ASSUME TypeOK, Coherent, NEW n \in Screens, PushReplacement(n)
  PROVE  /\ Opened(n)
         /\ \A t \in Screens \ {n} : life'[t] = IF OnTop(t) THEN "leaving" ELSE life[t]
         /\ stack # <<>> /\ Len(stack) > 0
         /\ Len(stack') = Len(stack) /\ stack' # <<>>
         /\ \A i \in 1..(Len(stack) - 1) : stack'[i] = stack[i]
         /\ stack'[Len(stack)] = n /\ Last(stack') = n
<1>1. stack # <<>> /\ stack' = Append(Front(stack), n)
  BY DEF PushReplacement
<1>2. /\ Len(stack) > 0 /\ Front(stack) \in Seq({0} \union Screens)
      /\ Len(Front(stack)) = Len(stack) - 1
      /\ \A i \in 1..(Len(stack) - 1) : Front(stack)[i] = stack[i]
  BY <1>1, StackFacts, FrontAndLast
<1> DEFINE q == Front(stack)
<1>3. stack' = Append(q, n) /\ q \in Seq({0} \union Screens \union {n})
  BY <1>1, <1>2
<1>4. Len(q) = Len(stack) - 1 /\ \A i \in 1..(Len(stack) - 1) : q[i] = stack[i]
  BY <1>2
<1> HIDE DEF q
<1>5. /\ Len(stack') = Len(stack) /\ stack' # <<>>
      /\ \A i \in 1..(Len(stack) - 1) : stack'[i] = stack[i]
      /\ stack'[Len(stack)] = n
  BY <1>3, <1>4
<1>6. Last(stack') = n
  BY <1>5 DEF Last
<1>7. \A t \in Screens :
        life'[t] = IF t = n THEN "shown" ELSE IF OnTop(t) THEN "leaving" ELSE life[t]
  BY <1>1 DEF PushReplacement, Without, OnTop
<1>8. \A t \in Screens : OnTop(t) => life[t] = "shown"
  BY OnTopShows
<1>9. life[n] = "unopened"
  BY DEF PushReplacement
<1>10. QED
  BY <1>1, <1>2, <1>5, <1>6, <1>7, <1>8, <1>9 DEF Opened

LEMMA OntoFacts ==
  ASSUME TypeOK, Coherent, NEW n \in Screens, PushOntoStart(n)
  PROVE  /\ Opened(n)
         /\ \A t \in Screens \ {n} : life'[t] # "shown"
         /\ stack' # <<>> /\ Last(stack') = n
         /\ stack' = <<0, n>> \/ stack' = <<n>>
         /\ stack # <<>> /\ Head(stack) = 0 => stack' = <<0, n>>
<1>1. /\ life[n] = "unopened"
      /\ stack' = IF 0 \in ToSet(stack) THEN <<0, n>> ELSE <<n>>
      /\ \A t \in Screens :
           life'[t] = IF t = n THEN "shown"
                      ELSE IF t \in ToSet(stack) THEN "leaving" ELSE life[t]
  <2>1. 0 \notin Screens
    BY StackFacts
  <2>2. QED
    BY <2>1 DEF PushOntoStart, PushOnto, Without
<1>2. \A t \in Screens : t \in ToSet(stack) <=> life[t] = "shown"
  BY StackFacts
<1>3. stack # <<>> /\ Head(stack) = 0 => 0 \in ToSet(stack)
  BY StackFacts
<1>4. stack' = <<0, n>> \/ stack' = <<n>>
  BY <1>1
<1>5. stack' # <<>> /\ Last(stack') = n
  BY <1>4 DEF Last
<1>6. QED
  BY <1>1, <1>2, <1>3, <1>4, <1>5 DEF Opened

(* Each step but a restart is a call of the Navigator, or none. *)
LEMMA NextNav == Next => [NavStep]_navVars \/ Restart
<1> SUFFICES ASSUME Next PROVE [NavStep]_navVars \/ Restart
  OBVIOUS
<1>1. CASE GoBack
  BY <1>1 DEF GoBack, NavStep
<1>2. ASSUME NEW r \in Screens,
             \/ OpenLogin(r) \/ OpenSendMail(r) \/ Unmount(r)
             \/ \E e, m \in Emails, q \in Screens : OpenSignUp(r, e, m, q)
             \/ \E q \in Screens : OpenRegister(r, q) \/ OpenCourses(r, q)
      PROVE  [NavStep]_navVars
  BY <1>2 DEF OpenLogin, OpenSendMail, Unmount, OpenSignUp, OpenRegister, OpenCourses,
              NavStep
<1>3. ASSUME NEW r \in Screens,
             \/ \E e \in Emails : TapSignIn(r, e) \/ Retype(r, e) \/ RetypeMatric(r, e)
             \/ TapSignUp(r) \/ TapSignUpInvalid(r) \/ TapVerify(r)
             \/ TapRefresh(r) \/ TapSignOut(r)
      PROVE  UNCHANGED navVars
  BY <1>3 DEF TapSignIn, Retype, RetypeMatric, TapSignUp, TapSignUpInvalid, TapVerify, TapRefresh,
              TapSignOut
<1>4. ASSUME NEW c \in pending, Initialized(c) \/ SignUpEnds(c) \/ SignedOut(c)
      PROVE  [NavStep]_navVars
  <2>1. 0 \in Base \union Screens
    BY RoutesAssumption
  <2>2. ASSUME NEW n \in Screens, PushOntoStart(n) PROVE NavStep
    BY <2>1, <2>2 DEF NavStep, PushOntoStart
  <2>3. ASSUME NEW n \in Screens, PushReplacement(n) PROVE NavStep
    BY <2>3 DEF NavStep
  <2>4. QED
    BY <1>4, <2>2, <2>3 DEF Initialized, SignUpEnds, SignedOut
<1>5. ASSUME NEW c \in pending,
             \/ SignInRefused(c) \/ ServiceCreates(c) \/ CreateFails(c)
             \/ CreateReturns(c) \/ Verified(c) \/ VerifyThrows(c)
             \/ Refreshed(c) \/ SignOutThrows(c)
      PROVE  UNCHANGED navVars
  BY <1>5 DEF SignInRefused, ServiceCreates, CreateFails, CreateReturns, Verified,
              VerifyThrows, Refreshed, SignOutThrows
<1>6. QED
  BY <1>1, <1>2, <1>3, <1>4, <1>5 DEF Next

(* So the Navigator stays typed, and its stack and lives the same. *)
LEMMA NavKept == TypeOK /\ Coherent /\ [Next]_vars => NavTypeOK' /\ Coherent'
<1> SUFFICES ASSUME TypeOK, Coherent, [Next]_vars PROVE NavTypeOK' /\ Coherent'
  OBVIOUS
<1>1. CASE Restart
  <2>1. 0 \notin Screens /\ 0 \in Base
    BY RoutesAssumption, NavigatorAssumption
  <2>2. /\ stack' = <<0>> /\ DOMAIN stack' = {1} /\ stack'[1] = 0
        /\ life' = [r \in Screens |-> "unopened"]
    BY <1>1 DEF Restart
  <2>3. NavTypeOK'
    BY <2>1, <2>2 DEF NavTypeOK
  <2>4. Coherent'
    BY <2>1, <2>2 DEF Coherent
  <2>5. QED
    BY <2>3, <2>4
<1>2. CASE [NavStep]_navVars
  BY <1>2, NavTyped, NavCoherent DEF TypeOK
<1>3. QED
  BY <1>1, <1>2, NextNav DEF vars, navVars

-----------------------------------------------------------------------------
(* The state is typed. *)

(* What a call is. *)
LEMMA CallFacts ==
  ASSUME TypeOK, NEW c \in pending
  PROVE  /\ c \in Calls /\ c.nth \in 1..MaxPending
         /\ c.screen \in Screens /\ c.op \in Ops
         /\ c.email \in Emails \union {"", Null}
         /\ \A op \in Ops : [c EXCEPT !.op = op] \in Calls
         /\ \A op \in Ops : LET d == [c EXCEPT !.op = op]
                            IN  d.screen = c.screen /\ d.email = c.email /\ d.op = op
BY DEF TypeOK, Calls

LEMMA NewCall ==
  ASSUME NEW n \in 1..MaxPending, NEW r \in Screens, NEW op \in Ops,
         NEW e \in Emails \union {Null}
  PROVE  /\ Call(n, r, op, e) \in Calls
         /\ Call(n, r, op, e).screen = r /\ Call(n, r, op, e).op = op
         /\ Call(n, r, op, e).email = e
BY DEF Call, Calls

LEMMA AskFacts ==
  ASSUME NEW r, NEW op, NEW e, Ask(r, op, e)
  PROVE  \E n \in 1..MaxPending : pending' = pending \union {Call(n, r, op, e)}
BY DEF Ask, Free

(* The two calls of a sign-in. *)
LEMMA SignInFacts ==
  ASSUME NEW r, NEW e, TapSignIn(r, e)
  PROVE  \E n, m \in 1..MaxPending :
            pending' = pending \union {SignInCall(n, r, e), Call(m, r, "initialize", Null)}
BY DEF TapSignIn, Free

(* Building r again changes the calls of its builds alone. *)
LEMMA SupersededFacts ==
  ASSUME TypeOK, NEW r
  PROVE  /\ \A c \in pending : c.op # "initialize" => c \in Superseded(r)
         /\ \A d \in Superseded(r) \ pending :
              /\ d \in Calls /\ d.screen = r /\ d.op = "superseded"
              /\ \E c \in pending : c.screen = r /\ c.op = "initialize"
<1>1. \A c \in pending : [c EXCEPT !.op = "superseded"] \in Calls
                       /\ [c EXCEPT !.op = "superseded"].screen = c.screen
                       /\ [c EXCEPT !.op = "superseded"].op = "superseded"
  <2>1. "superseded" \in Ops
    BY DEF Ops, Builds
  <2>2. QED
    BY <2>1, CallFacts
<1>2. ASSUME NEW c \in pending, c.op # "initialize" PROVE c \in Superseded(r)
  BY <1>2 DEF Superseded
<1>3. ASSUME NEW d \in Superseded(r), d \notin pending
      PROVE  \E c \in pending : /\ c.screen = r /\ c.op = "initialize"
                               /\ d = [c EXCEPT !.op = "superseded"]
  BY <1>3 DEF Superseded
<1>4. QED
  BY <1>1, <1>2, <1>3

(* What a refused sign-in leaves to be answered. *)
LEMMA RefusedFacts ==
  ASSUME TypeOK, NEW c \in pending, SignInRefused(c)
  PROVE  /\ \A d \in pending \ {c} : d.op # "initialize" => d \in pending'
         /\ \A d \in pending' \ pending :
              /\ d \in Calls /\ d.screen = c.screen /\ d.op \in Builds
<1>1. CASE pending' = pending \ {c}
  BY <1>1
<1>2. CASE pending' = (Superseded(c.screen) \ {c})
                        \union {Call(c.nth, c.screen, "initialize", Null)}
  <2> DEFINE new == Call(c.nth, c.screen, "initialize", Null)
  <2>1. new \in Calls /\ new.screen = c.screen /\ new.op = "initialize"
    <3>1. "initialize" \in Ops
      BY DEF Ops, Builds
    <3>2. c.nth \in 1..MaxPending /\ c.screen \in Screens
      BY CallFacts
    <3>3. QED
      BY <3>1, <3>2, NewCall
  <2>2. pending' = (Superseded(c.screen) \ {c}) \union {new}
    BY <1>2
  <2> HIDE DEF new
  <2>3. QED
    BY <2>1, <2>2, SupersededFacts DEF Builds
<1>3. QED
  BY <1>1, <1>2 DEF SignInRefused

(* The screens' state is typed after a new screen. *)
LEMMA NewScreenTyped ==
  ASSUME TypeOK, NEW n, NEW k \in Kinds,
         NEW u \in Emails \union {Null}, NEW m \in Emails \union {Null},
         NewScreen(n, k, u, m)
  PROVE  /\ kind' \in [Screens -> Kinds]
         /\ user' \in [Screens -> Emails \union {Null}]
         /\ matnumber' \in [Screens -> Emails \union {Null}]
BY DEF NewScreen, TypeOK

LEMMA NextTyped == IInv /\ [Next]_vars => TypeOK'
<1> SUFFICES ASSUME IInv, [Next]_vars PROVE TypeOK'
  OBVIOUS
<1>0. TypeOK /\ Coherent /\ CallsFit /\ NavTypeOK'
  BY NavKept DEF IInv
<1> DEFINE Typed(k, u, m) == /\ k \in [Screens -> Kinds]
                             /\ u \in [Screens -> Emails \union {Null}]
                             /\ m \in [Screens -> Emails \union {Null}]
<1> DEFINE WaitTyped(s, t) == s \subseteq Spinners /\ t \subseteq s
<1> DEFINE RestTyped == /\ currentUser' \in Emails \union {Null}
                        /\ accounts' \subseteq Emails
                        /\ late' \in BOOLEAN /\ astray' \in BOOLEAN
<1>1. Typed(kind, user, matnumber) /\ WaitTyped(spinning, stuck) /\ pending \subseteq Calls
      /\ currentUser \in Emails \union {Null} /\ accounts \subseteq Emails
      /\ late \in BOOLEAN /\ astray \in BOOLEAN
  BY <1>0 DEF TypeOK
<1>2. Typed(kind', user', matnumber') /\ WaitTyped(spinning', stuck')
      /\ pending' \subseteq Calls /\ RestTyped => TypeOK'
  BY <1>0 DEF TypeOK
<1>3. /\ \A op \in Builds \union SignUpCalls : op \in Ops
      /\ "signIn" \in Ops /\ "signOut" \in Ops /\ "verify" \in Ops /\ "refresh" \in Ops
  BY DEF Ops
<1>4. CASE GoBack
  <2>1. UNCHANGED <<screenVars, waitVars, pending, authVars, history>>
    BY <1>4 DEF GoBack
  <2>2. QED
    BY <1>1, <1>2, <2>1 DEF screenVars, waitVars, authVars, history
<1>5. CASE Restart
  <2>1. /\ kind' = [r \in Screens |-> "none"]
        /\ user' = [r \in Screens |-> Null]
        /\ matnumber' = [r \in Screens |-> Null]
        /\ spinning' = {} /\ stuck' = {} /\ pending' = {}
        /\ late' = FALSE /\ astray' = FALSE
        /\ UNCHANGED <<currentUser, accounts>>
    BY <1>5 DEF Restart, authVars
  <2>2. Typed(kind', user', matnumber')
    BY <2>1 DEF Kinds
  <2>3. RestTyped
    BY <1>1, <2>1
  <2>4. QED
    BY <1>2, <2>1, <2>2, <2>3
<1>6. ASSUME NEW r \in Screens, OpenLogin(r) PROVE TypeOK'
  <2>1. NewScreen(r, "login", Null, Null) /\ Ask(r, "initialize", Null)
        /\ UNCHANGED <<waitVars, authVars, history>>
    BY <1>6 DEF OpenLogin
  <2>2. Typed(kind', user', matnumber')
    BY <1>0, <2>1, NewScreenTyped DEF Kinds
  <2>3. pending' \subseteq Calls
    BY <1>1, <1>3, <2>1, AskFacts, NewCall DEF Builds
  <2>4. QED
    BY <1>1, <1>2, <2>1, <2>2, <2>3 DEF waitVars, authVars, history
<1>7. ASSUME NEW r \in Screens, Unmount(r) PROVE TypeOK'
  <2>1. /\ kind' = [kind EXCEPT ![r] = "none"]
        /\ user' = [user EXCEPT ![r] = Null]
        /\ matnumber' = [matnumber EXCEPT ![r] = Null]
        /\ spinning' = {x \in spinning : x[1] # r}
        /\ stuck' = {x \in stuck : x[1] # r}
        /\ UNCHANGED <<pending, authVars, history>>
    BY <1>7 DEF Unmount
  <2>2. Typed(kind', user', matnumber')
    BY <1>1, <2>1 DEF Kinds
  <2>3. WaitTyped(spinning', stuck')
    BY <1>1, <2>1
  <2>4. QED
    BY <1>1, <1>2, <2>1, <2>2, <2>3 DEF authVars, history
<1>8. ASSUME NEW c \in pending, Initialized(c) PROVE TypeOK'
  <2>1. pending' = pending \ {c} /\ UNCHANGED <<waitVars, authVars>>
    BY <1>8 DEF Initialized, Answer
  <2>2. CASE UNCHANGED <<navVars, screenVars, history>>
    BY <1>1, <1>2, <2>1, <2>2 DEF screenVars, waitVars, authVars, history
  <2>3. ASSUME NEW n \in Screens, NewScreen(n, "profile", currentUser, Null),
               ActsFor(c.screen), astray' = (astray \/ OverProfile)
        PROVE  TypeOK'
    <3>1. Typed(kind', user', matnumber')
      BY <1>0, <1>1, <2>3, NewScreenTyped DEF Kinds
    <3>2. RestTyped
      BY <1>1, <2>1, <2>3 DEF ActsFor, OverProfile, authVars
    <3>3. QED
      BY <1>1, <1>2, <2>1, <3>1, <3>2 DEF waitVars
  <2>4. QED
    BY <1>8, <2>2, <2>3 DEF Initialized
<1>9. ASSUME NEW r \in Screens, NEW e \in Emails, TapSignIn(r, e) PROVE TypeOK'
  <2>1. /\ spinning' = spinning \union {<<r, "signIn">>} /\ stuck' = stuck
        /\ UNCHANGED <<navVars, screenVars, authVars, history>>
    BY <1>9 DEF TapSignIn, Spin
  <2>2. PICK n, m \in 1..MaxPending :
          pending' = pending \union {SignInCall(n, r, e), Call(m, r, "initialize", Null)}
    BY <1>9, SignInFacts
  <2>3. SignInCall(n, r, e) \in Calls
    BY <1>3 DEF Calls, SignInCall
  <2>4. Call(m, r, "initialize", Null) \in Calls
    BY <1>3, NewCall DEF Builds
  <2>5. WaitTyped(spinning', stuck')
    <3>1. <<r, "signIn">> \in Spinners
      BY DEF Spinners
    <3>2. QED
      BY <1>1, <2>1, <3>1
  <2>6. pending' \subseteq Calls
    BY <1>1, <2>2, <2>3, <2>4
  <2>7. QED
    BY <1>1, <1>2, <2>1, <2>5, <2>6 DEF screenVars, authVars, history
<1>10. ASSUME NEW r \in Screens, NEW e \in Emails, Retype(r, e) \/ RetypeMatric(r, e)
       PROVE  TypeOK'
  <2>1. /\ \/ user' = [user EXCEPT ![r] = e] /\ matnumber' = matnumber
           \/ matnumber' = [matnumber EXCEPT ![r] = e] /\ user' = user
        /\ UNCHANGED <<navVars, kind, waitVars, pending, authVars, history>>
    BY <1>10 DEF Retype, RetypeMatric
  <2>2. QED
    BY <1>1, <1>2, <2>1 DEF waitVars, authVars, history
<1>11. ASSUME NEW r \in Screens, NEW e \in Emails, NEW m \in Emails, NEW q \in Screens,
              OpenSignUp(r, e, m, q)
       PROVE  TypeOK'
  <2>1. NewScreen(q, "signUp", e, m) /\ UNCHANGED <<waitVars, pending, authVars, history>>
    BY <1>11 DEF OpenSignUp
  <2>2. Typed(kind', user', matnumber')
    BY <1>0, <2>1, NewScreenTyped DEF Kinds
  <2>3. QED
    BY <1>1, <1>2, <2>1, <2>2 DEF waitVars, authVars, history
<1>26. ASSUME NEW r \in Screens, OpenSendMail(r) PROVE TypeOK'
  <2>1. NewScreen(r, "sendMail", Null, Null)
        /\ UNCHANGED <<waitVars, pending, authVars, history>>
    BY <1>26 DEF OpenSendMail
  <2>2. Typed(kind', user', matnumber')
    BY <1>0, <2>1, NewScreenTyped DEF Kinds
  <2>3. QED
    BY <1>1, <1>2, <2>1, <2>2 DEF waitVars, authVars, history
<1>12. ASSUME NEW r \in Screens, TapSignUp(r) PROVE TypeOK'
  <2>1. /\ Ask(r, "create", user[r])
        /\ spinning' = spinning \union {<<r, "create">>} /\ stuck' = stuck
        /\ UNCHANGED <<navVars, screenVars, authVars, history>>
    BY <1>12 DEF TapSignUp, Spin
  <2>2. \A n \in 1..MaxPending : Call(n, r, "create", user[r]) \in Calls
    BY <1>1, <1>3, NewCall DEF SignUpCalls
  <2>3. WaitTyped(spinning', stuck') /\ pending' \subseteq Calls
    BY <1>1, <2>1, <2>2, AskFacts DEF Spinners
  <2>4. QED
    BY <1>1, <1>2, <2>1, <2>2, <2>3 DEF screenVars, authVars, history
<1>13. ASSUME NEW r \in Screens, TapSignUpInvalid(r) PROVE TypeOK'
  <2>1. /\ spinning' = spinning \union {<<r, "create">>}
        /\ stuck' = stuck \union {<<r, "create">>}
        /\ UNCHANGED <<navVars, screenVars, pending, authVars, history>>
    BY <1>13 DEF TapSignUpInvalid
  <2>2. WaitTyped(spinning', stuck')
    BY <1>1, <2>1 DEF Spinners
  <2>3. QED
    BY <1>1, <1>2, <2>1, <2>2 DEF screenVars, authVars, history
<1>14. ASSUME NEW r \in Screens, NEW q \in Screens, OpenRegister(r, q) \/ OpenCourses(r, q)
       PROVE  TypeOK'
  <2>1. /\ \/ NewScreen(q, "register", Null, matnumber[r])
           \/ NewScreen(q, "courses", Null, Null)
        /\ UNCHANGED <<waitVars, pending, authVars, history>>
    BY <1>14 DEF OpenRegister, OpenCourses
  <2>2. Typed(kind', user', matnumber')
    BY <1>0, <1>1, <2>1, NewScreenTyped DEF Kinds
  <2>3. QED
    BY <1>1, <1>2, <2>1, <2>2 DEF waitVars, authVars, history
<1>15. ASSUME NEW r \in Screens, TapVerify(r) \/ TapSignOut(r) PROVE TypeOK'
  <2>1. /\ \E op \in {"verify", "signOut"}, e \in Emails \union {Null} :
             /\ Ask(r, op, e)
             /\ spinning' = spinning \union {<<r, op>>} /\ stuck' = stuck
        /\ UNCHANGED <<navVars, screenVars, authVars, history>>
    BY <1>1, <1>15 DEF TapVerify, TapSignOut, Spin
  <2>2. \A n \in 1..MaxPending, op \in {"verify", "signOut"}, e \in Emails \union {Null} :
           Call(n, r, op, e) \in Calls
    BY <1>3, NewCall
  <2>3. WaitTyped(spinning', stuck') /\ pending' \subseteq Calls
    BY <1>1, <2>1, <2>2, AskFacts DEF Spinners
  <2>4. QED
    BY <1>1, <1>2, <2>1, <2>2, <2>3 DEF screenVars, authVars, history
<1>16. ASSUME NEW r \in Screens, TapRefresh(r) PROVE TypeOK'
  <2>1. /\ Ask(r, "refresh", user[r])
        /\ UNCHANGED <<navVars, screenVars, waitVars, authVars, history>>
    BY <1>16 DEF TapRefresh
  <2>2. \A n \in 1..MaxPending : Call(n, r, "refresh", user[r]) \in Calls
    BY <1>1, <1>3, NewCall
  <2>3. pending' \subseteq Calls
    BY <1>1, <2>1, <2>2, AskFacts
  <2>4. QED
    BY <1>1, <1>2, <2>1, <2>3 DEF screenVars, waitVars, authVars, history
<1>17. ASSUME NEW c \in pending, NEW r \in Screens, NEW op, WaitTyped(spinning, stuck),
              Stop(r, op) \/ LeaveSpinning(r, op) \/ UNCHANGED waitVars
       PROVE  WaitTyped(spinning', stuck')
  BY <1>17 DEF Stop, LeaveSpinning, waitVars
<1>18. ASSUME NEW c \in pending, SignInRefused(c) PROVE TypeOK'
  <2>1. /\ c.screen \in Screens
        /\ Stop(c.screen, "signIn") \/ LeaveSpinning(c.screen, "signIn")
        /\ UNCHANGED <<navVars, screenVars, authVars, history>>
    BY <1>0, <1>18, CallFacts DEF SignInRefused
  <2>2. pending' \subseteq Calls
    BY <1>0, <1>1, <1>18, RefusedFacts
  <2>3. WaitTyped(spinning', stuck')
    BY <1>1, <1>17, <2>1
  <2>4. QED
    BY <1>1, <1>2, <2>1, <2>2, <2>3 DEF screenVars, authVars, history
<1>19. ASSUME NEW c \in pending, ServiceCreates(c) \/ CreateReturns(c) PROVE TypeOK'
  <2>1. /\ c.op \in SignUpCalls
        /\ \/ UNCHANGED <<currentUser, history>> /\ accounts' = accounts \union {c.email}
           \/ /\ currentUser' = c.email /\ UNCHANGED <<accounts, late>>
              /\ SignsFor(c.screen, c.email)
        /\ \E op \in SignUpCalls :
              pending' = (pending \ {c}) \union {[c EXCEPT !.op = op]}
        /\ UNCHANGED <<screenVars, waitVars>>
    BY <1>19 DEF ServiceCreates, CreateReturns, SignUpCalls
  <2>2. c.email \in Emails
    BY <1>0, <2>1 DEF CallsFit
  <2>3. pending' \subseteq Calls
    <3>1. PICK op \in SignUpCalls : pending' = (pending \ {c}) \union {[c EXCEPT !.op = op]}
      BY <2>1
    <3>2. [c EXCEPT !.op = op] \in Calls
      BY <1>0, <1>3, CallFacts
    <3>3. QED
      BY <1>1, <3>1, <3>2
  <2>4. RestTyped
    BY <1>1, <2>1, <2>2 DEF SignsFor, Awaited, OnTop, history
  <2>5. QED
    BY <1>1, <1>2, <2>1, <2>3, <2>4 DEF screenVars, waitVars
<1>20. ASSUME NEW c \in pending,
              \/ CreateFails(c) \/ Verified(c) \/ VerifyThrows(c) \/ SignOutThrows(c)
       PROVE  TypeOK'
  <2>1. /\ c.screen \in Screens /\ pending' = pending \ {c}
        /\ \/ Stop(c.screen, "create") \/ Stop(c.screen, "verify")
           \/ LeaveSpinning(c.screen, "verify") \/ LeaveSpinning(c.screen, "signOut")
           \/ UNCHANGED waitVars
        /\ UNCHANGED <<navVars, screenVars, authVars, history>>
    BY <1>0, <1>20, CallFacts
    DEF CreateFails, StopSigningUp, Verified, VerifyThrows, SignOutThrows, Answer
  <2>2. WaitTyped(spinning', stuck')
    BY <1>1, <1>17, <2>1
  <2>3. QED
    BY <1>1, <1>2, <2>1, <2>2 DEF screenVars, authVars, history
<1>21. ASSUME NEW c \in pending, SignUpEnds(c) PROVE TypeOK'
  <2>1. PICK u \in {currentUser, c.email} :
          /\ c.op = "update" /\ pending' = pending \ {c}
          /\ Stop(c.screen, "create") \/ UNCHANGED waitVars
          /\ \/ /\ \E n \in Screens : NewScreen(n, "profile", u, matnumber[c.screen])
                /\ ActsFor(c.screen)
             \/ UNCHANGED <<screenVars, late>>
          /\ UNCHANGED <<authVars, astray>>
    BY <1>21 DEF SignUpEnds, Answer, StopSigningUp
  <2>2. c.screen \in Screens /\ u \in Emails \union {Null}
    BY <1>0, <1>1, <2>1, CallFacts DEF CallsFit, SignUpCalls
  <2>3. WaitTyped(spinning', stuck')
    BY <1>1, <1>17, <2>1, <2>2
  <2>4. Typed(kind', user', matnumber')
    BY <1>0, <1>1, <2>1, <2>2, NewScreenTyped DEF Kinds, screenVars
  <2>5. RestTyped
    BY <1>1, <2>1 DEF ActsFor, authVars
  <2>6. QED
    BY <1>1, <1>2, <2>1, <2>3, <2>4, <2>5
<1>22. ASSUME NEW c \in pending, Refreshed(c) PROVE TypeOK'
  <2>1. /\ pending' = pending \ {c}
        /\ user' = [user EXCEPT ![c.screen] = currentUser] \/ UNCHANGED user
        /\ UNCHANGED <<navVars, kind, matnumber, waitVars, authVars, history>>
    BY <1>22 DEF Refreshed, Answer
  <2>2. user' \in [Screens -> Emails \union {Null}]
    BY <1>1, <2>1
  <2>3. QED
    BY <1>1, <1>2, <2>1, <2>2 DEF waitVars, authVars, history
<1>23. ASSUME NEW c \in pending, SignedOut(c) PROVE TypeOK'
  <2>1. /\ c.screen \in Screens /\ currentUser' = Null /\ SignsFor(c.screen, Null)
        /\ \/ /\ Stop(c.screen, "signOut") /\ ActsFor(c.screen)
              /\ \E n \in Screens :
                    /\ NewScreen(n, "login", Null, Null)
                    /\ pending' = (pending \ {c}) \union {Call(c.nth, n, "initialize", Null)}
           \/ pending' = pending \ {c} /\ UNCHANGED <<screenVars, waitVars, late>>
        /\ UNCHANGED accounts
    BY <1>0, <1>23, CallFacts DEF SignedOut
  <2>2. pending' \subseteq Calls
    <3>1. \A n \in Screens : Call(c.nth, n, "initialize", Null) \in Calls
      BY <1>0, <1>3, CallFacts, NewCall DEF Builds
    <3>2. QED
      BY <1>1, <2>1, <3>1
  <2>3. WaitTyped(spinning', stuck')
    BY <1>1, <1>17, <2>1
  <2>4. Typed(kind', user', matnumber')
    BY <1>0, <1>1, <2>1, NewScreenTyped DEF Kinds, screenVars
  <2>5. RestTyped
    BY <1>1, <2>1 DEF ActsFor, SignsFor, Awaited, OnTop
  <2>6. QED
    BY <1>2, <2>2, <2>3, <2>4, <2>5
<1>24. CASE UNCHANGED vars
  BY <1>1, <1>2, <1>24 DEF vars, screenVars, waitVars, authVars, history
<1>25. QED
  BY <1>4, <1>5, <1>6, <1>7, <1>8, <1>9, <1>10, <1>11, <1>12, <1>13, <1>14, <1>15,
     <1>16, <1>18, <1>19, <1>20, <1>21, <1>22, <1>23, <1>24, <1>26 DEF Next

-----------------------------------------------------------------------------
(* Screens and what they are. *)

(* No screen opens twice in a run of the app, and none that was left is    *)
(* shown again.                                                            *)
LEMMA LivesGoOn ==
  ASSUME TypeOK, Coherent, [Next]_vars, ~Restart
  PROVE  \A t \in Screens : life[t] # "unopened" =>
            /\ life'[t] # "unopened"
            /\ Mounted(t)' => Mounted(t)
            /\ life'[t] = "shown" => life[t] = "shown"
<1>1. [NavStep]_navVars
  BY NextNav DEF vars, navVars
<1>2. ASSUME NEW t \in Screens, life[t] # "unopened"
      PROVE  \/ life'[t] = life[t]
             \/ life[t] = "shown" /\ life'[t] = "leaving"
             \/ life[t] = "leaving" /\ life'[t] = "gone"
  BY <1>1, <1>2, LivesGoForward DEF TypeOK
<1>3. QED
  BY <1>2 DEF Mounted

(* What NewScreen does to the screens. *)
LEMMA NewScreenFacts ==
  ASSUME TypeOK, NEW n \in Screens, NEW k, NEW u, NEW m, NewScreen(n, k, u, m)
  PROVE  /\ kind'[n] = k /\ user'[n] = u /\ matnumber'[n] = m
         /\ \A t \in Screens \ {n} :
              kind'[t] = kind[t] /\ user'[t] = user[t] /\ matnumber'[t] = matnumber[t]
BY DEF NewScreen, TypeOK

(* The steps that open a screen, and those that neither open nor unmount one. *)
Opens ==
  \E n \in Screens, k \in Kinds, u \in Emails \union {Null}, m \in Emails \union {Null} :
    Opened(n) /\ NewScreen(n, k, u, m)

Keeps == UNCHANGED kind /\ (Pop \/ UNCHANGED navVars)

LEMMA KindSteps ==
  ASSUME IInv, [Next]_vars
  PROVE  Restart \/ Opens \/ (\E r \in Screens : Unmount(r)) \/ Keeps
<1>0. TypeOK /\ Coherent /\ CallsFit
  BY DEF IInv
<1>1. /\ user \in [Screens -> Emails \union {Null}]
      /\ matnumber \in [Screens -> Emails \union {Null}]
      /\ currentUser \in Emails \union {Null}
  BY <1>0 DEF TypeOK
<1>2. ASSUME NEW r \in Screens, OpenLogin(r) \/ OpenSendMail(r) PROVE Opens
  <2>1. /\ Opened(r)
        /\ NewScreen(r, "login", Null, Null) \/ NewScreen(r, "sendMail", Null, Null)
    BY <1>0, <1>2, PushFacts DEF OpenLogin, OpenSendMail
  <2>2. QED
    BY <2>1 DEF Opens, Kinds
<1>3. ASSUME NEW c \in pending, Initialized(c) PROVE Opens \/ Keeps
  <2>1. ASSUME NEW n \in Screens, PushReplacement(n), NewScreen(n, "profile", currentUser, Null)
        PROVE  Opens
    <3>1. Opened(n)
      BY <1>0, <2>1, ReplaceFacts
    <3>2. QED
      BY <1>1, <2>1, <3>1 DEF Opens, Kinds
  <2>2. QED
    BY <1>3, <2>1 DEF Initialized, screenVars, Keeps
<1>4. ASSUME NEW r \in Screens, NEW e \in Emails, NEW m \in Emails, NEW q \in Screens,
             OpenSignUp(r, e, m, q)
      PROVE  Opens
  <2>1. Opened(q) /\ NewScreen(q, "signUp", e, m)
    BY <1>0, <1>4, PushFacts DEF OpenSignUp
  <2>2. QED
    BY <2>1 DEF Opens, Kinds
<1>5. ASSUME NEW r \in Screens, NEW q \in Screens, OpenRegister(r, q) \/ OpenCourses(r, q)
      PROVE  Opens
  <2>1. /\ Opened(q)
        /\ \/ NewScreen(q, "register", Null, matnumber[r])
           \/ NewScreen(q, "courses", Null, Null)
    BY <1>0, <1>5, PushFacts DEF OpenRegister, OpenCourses
  <2>2. matnumber[r] \in Emails \union {Null}
    BY <1>1
  <2>3. QED
    BY <2>1, <2>2 DEF Opens, Kinds
<1>6. ASSUME NEW c \in pending, SignUpEnds(c) PROVE Opens \/ Keeps
  <2>1. c.op = "update" => c.screen \in Screens /\ c.email \in Emails
    BY <1>0, CallFacts DEF CallsFit, SignUpCalls
  <2>2. ASSUME NEW u \in {currentUser, c.email}, NEW n \in Screens, c.op = "update",
               PushOntoStart(n), NewScreen(n, "profile", u, matnumber[c.screen])
        PROVE  Opens
    <3>1. Opened(n)
      BY <1>0, <2>2, OntoFacts
    <3>2. u \in Emails \union {Null} /\ matnumber[c.screen] \in Emails \union {Null}
      BY <1>1, <2>1, <2>2
    <3>3. QED
      BY <2>2, <3>1, <3>2 DEF Opens, Kinds
  <2>3. QED
    BY <1>6, <2>2 DEF SignUpEnds, screenVars, Keeps
<1>7. ASSUME NEW c \in pending, SignedOut(c) PROVE Opens \/ Keeps
  <2>1. ASSUME NEW n \in Screens, PushReplacement(n), NewScreen(n, "login", Null, Null)
        PROVE  Opens
    <3>1. Opened(n)
      BY <1>0, <2>1, ReplaceFacts
    <3>2. QED
      BY <2>1, <3>1 DEF Opens, Kinds
  <2>2. QED
    BY <1>7, <2>1 DEF SignedOut, screenVars, Keeps
<1>8. ASSUME NEW r \in Screens,
             \/ \E e \in Emails : TapSignIn(r, e) \/ Retype(r, e) \/ RetypeMatric(r, e)
             \/ TapSignUp(r) \/ TapSignUpInvalid(r) \/ TapVerify(r)
             \/ TapRefresh(r) \/ TapSignOut(r)
      PROVE  Keeps
  BY <1>8 DEF TapSignIn, Retype, RetypeMatric, TapSignUp, TapSignUpInvalid, TapVerify, TapRefresh,
              TapSignOut, screenVars, Keeps
<1>9. ASSUME NEW c \in pending,
             \/ SignInRefused(c) \/ ServiceCreates(c) \/ CreateFails(c)
             \/ CreateReturns(c) \/ Verified(c) \/ VerifyThrows(c)
             \/ Refreshed(c) \/ SignOutThrows(c)
      PROVE  Keeps
  BY <1>9 DEF SignInRefused, ServiceCreates, CreateFails, CreateReturns, Verified,
              VerifyThrows, Refreshed, SignOutThrows, screenVars, Keeps
<1>10. CASE GoBack
  BY <1>10 DEF GoBack, screenVars, Keeps
<1>11. QED
  BY <1>2, <1>3, <1>4, <1>5, <1>6, <1>7, <1>8, <1>9, <1>10 DEF Next, vars, screenVars, Keeps

(* A screen stays of its kind as long as it is mounted. *)
LEMMA KindsStay ==
  ASSUME IInv, [Next]_vars, ~Restart
  PROVE  \A t \in Screens : life[t] # "unopened" /\ Mounted(t)' => kind'[t] = kind[t]
<1>0. TypeOK /\ Coherent
  BY DEF IInv
<1> SUFFICES ASSUME NEW t \in Screens, life[t] # "unopened", Mounted(t)'
             PROVE  kind'[t] = kind[t]
  OBVIOUS
<1>1. CASE Opens
  <2>1. PICK n \in Screens, k \in Kinds, u \in Emails \union {Null}, m \in Emails \union {Null} :
          Opened(n) /\ NewScreen(n, k, u, m)
    BY <1>1 DEF Opens
  <2>2. t # n
    BY <2>1 DEF Opened
  <2>3. QED
    BY <1>0, <2>1, <2>2, NewScreenFacts
<1>2. ASSUME NEW r \in Screens, Unmount(r) PROVE kind'[t] = kind[t]
  <2>1. life'[r] = "gone" /\ kind' = [kind EXCEPT ![r] = "none"]
    BY <1>0, <1>2 DEF Unmount, Dispose, TypeOK, NavTypeOK
  <2>2. t # r
    BY <2>1 DEF Mounted
  <2>3. QED
    BY <1>0, <2>1, <2>2 DEF TypeOK
<1>3. QED
  BY <1>1, <1>2, KindSteps DEF Keeps

(* A form names a student. *)
LEMMA FormsKept ==
  ASSUME IInv, [Next]_vars
  PROVE  \A t \in Screens : kind'[t] = "signUp" => user'[t] \in Emails
<1>0. TypeOK /\ Coherent /\ CallsFit
  BY DEF IInv
<1> SUFFICES ASSUME NEW t \in Screens, kind'[t] = "signUp" PROVE user'[t] \in Emails
  OBVIOUS
<1>1. kind[t] = "signUp" => user[t] \in Emails
  BY <1>0 DEF CallsFit
<1>2. ASSUME NEW n \in Screens, NEW k, NEW u, NEW m, NewScreen(n, k, u, m),
             k = "signUp" => u \in Emails
      PROVE  user'[t] \in Emails
  BY <1>0, <1>1, <1>2, NewScreenFacts
<1>3. ASSUME UNCHANGED screenVars PROVE user'[t] \in Emails
  BY <1>1, <1>3 DEF screenVars
<1>4. ASSUME NEW r \in Screens,
             \/ OpenLogin(r) \/ OpenSendMail(r)
             \/ \E e, m \in Emails, q \in Screens : OpenSignUp(r, e, m, q)
             \/ \E q \in Screens : OpenRegister(r, q) \/ OpenCourses(r, q)
      PROVE  user'[t] \in Emails
  <2>1. \/ \E n \in Screens, k \in {"login", "sendMail", "register", "courses"} : \E u, m :
              NewScreen(n, k, u, m)
        \/ \E n \in Screens, e, m \in Emails : NewScreen(n, "signUp", e, m)
    BY <1>4 DEF OpenLogin, OpenSendMail, OpenSignUp, OpenRegister, OpenCourses
  <2>2. QED
    BY <1>2, <1>3, <2>1
<1>5. ASSUME NEW c \in pending, Initialized(c) \/ SignUpEnds(c) \/ SignedOut(c)
      PROVE  user'[t] \in Emails
  <2>1. \/ UNCHANGED screenVars
        \/ \E n \in Screens, k \in {"login", "profile"} : \E u, m : NewScreen(n, k, u, m)
    BY <1>5 DEF Initialized, SignUpEnds, SignedOut
  <2>2. QED
    BY <1>2, <1>3, <2>1
<1>6. ASSUME NEW r \in Screens, Unmount(r) PROVE user'[t] \in Emails
  BY <1>0, <1>1, <1>6 DEF Unmount, TypeOK
<1>7. ASSUME NEW r \in Screens, NEW e \in Emails, Retype(r, e) \/ RetypeMatric(r, e)
      PROVE  user'[t] \in Emails
  BY <1>0, <1>1, <1>7 DEF Retype, RetypeMatric, TypeOK
<1>8. ASSUME NEW c \in pending, Refreshed(c) PROVE user'[t] \in Emails
  <2>1. /\ UNCHANGED kind /\ c.op = "refresh" /\ c.screen \in Screens
        /\ \/ UNCHANGED user
           \/ Mounted(c.screen) /\ user' = [user EXCEPT ![c.screen] = currentUser]
    BY <1>0, <1>8, CallFacts DEF Refreshed
  <2>2. Mounted(c.screen) => kind[c.screen] = "profile"
    BY <1>0, <2>1 DEF CallsFit, Caller, Builds, SignUpCalls
  <2>3. QED
    BY <1>0, <1>1, <2>1, <2>2 DEF TypeOK
<1>9. CASE Restart
  BY <1>9 DEF Restart
<1>10. ASSUME NEW r \in Screens,
             \/ \E e \in Emails : TapSignIn(r, e)
             \/ TapSignUp(r) \/ TapSignUpInvalid(r) \/ TapVerify(r)
             \/ TapRefresh(r) \/ TapSignOut(r)
      PROVE  UNCHANGED screenVars
  BY <1>10 DEF TapSignIn, TapSignUp, TapSignUpInvalid, TapVerify, TapRefresh, TapSignOut
<1>11. ASSUME NEW c \in pending,
             \/ SignInRefused(c) \/ ServiceCreates(c) \/ CreateFails(c)
             \/ CreateReturns(c) \/ Verified(c) \/ VerifyThrows(c) \/ SignOutThrows(c)
      PROVE  UNCHANGED screenVars
  BY <1>11 DEF SignInRefused, ServiceCreates, CreateFails, CreateReturns, Verified,
               VerifyThrows, SignOutThrows
<1>12. GoBack \/ UNCHANGED vars => UNCHANGED screenVars
  BY DEF GoBack, vars
<1>13. QED
  BY <1>3, <1>4, <1>5, <1>6, <1>7, <1>8, <1>9, <1>10, <1>11, <1>12 DEF Next

-----------------------------------------------------------------------------
(* Calls and their accounts. *)

(* A screen goes on being what its calls took it for. *)
LEMMA StillFits ==
  ASSUME IInv, [Next]_vars, ~Restart, NEW c \in pending
  PROVE  /\ c.screen \in Screens
         /\ life'[c.screen] # "unopened"
         /\ Mounted(c.screen)' => kind'[c.screen] = Caller(c.op)
<1>1. TypeOK /\ Coherent /\ CallsFit
  BY DEF IInv
<1>2. PICK r \in Screens : r = c.screen
  BY <1>1, CallFacts
<1>3. life[r] # "unopened" /\ (Mounted(r) => kind[r] = Caller(c.op))
  BY <1>1, <1>2 DEF CallsFit
<1>4. life'[r] # "unopened" /\ (Mounted(r)' => Mounted(r))
  BY <1>1, <1>3, LivesGoOn
<1>5. Mounted(r)' => kind'[r] = kind[r]
  BY <1>3, KindsStay
<1>6. QED
  BY <1>2, <1>3, <1>4, <1>5 DEF Mounted

(* What is asked for in a step: by a screen of the kind that asks, which   *)
(* was or has been opened; sign-ups are for the student of the form, or go *)
(* on from one that was under way.                                         *)
LEMMA NewCalls ==
  ASSUME IInv, [Next]_vars
  PROVE  \A d \in pending' \ pending :
            /\ life'[d.screen] # "unopened"
            /\ Mounted(d.screen)' => kind'[d.screen] = Caller(d.op)
            /\ d.op \in SignUpCalls => d.email \in Emails
            /\ d.op \in {"created", "update"} => d.email \in accounts'
<1>0. TypeOK /\ Coherent /\ CallsFit /\ Accounts
  BY DEF IInv
<1>1. ASSUME ~Restart, NEW r \in Screens, OnTop(r)
      PROVE  /\ life'[r] # "unopened"
             /\ Mounted(r)' => kind'[r] = kind[r]
  <2>1. life[r] # "unopened"
    BY <1>0, <1>1, OnTopShows
  <2>2. QED
    BY <1>0, <1>1, <2>1, LivesGoOn, KindsStay
<1>2. ASSUME ~Restart, NEW c \in pending
      PROVE  /\ c.screen \in Screens /\ life'[c.screen] # "unopened"
             /\ Mounted(c.screen)' => kind'[c.screen] = Caller(c.op)
  BY <1>2, StillFits
<1>3. ASSUME NEW n \in Screens, Opened(n), kind'[n] = "login",
             NEW i, NEW d, d = Call(i, n, "initialize", Null)
      PROVE  /\ life'[d.screen] # "unopened" /\ kind'[d.screen] = Caller(d.op)
             /\ d.op \notin SignUpCalls /\ d.op \notin {"created", "update"}
  BY <1>3 DEF Call, Opened, Caller, Builds, SignUpCalls
<1> SUFFICES ASSUME NEW d \in pending' \ pending
             PROVE  /\ life'[d.screen] # "unopened"
                    /\ Mounted(d.screen)' => kind'[d.screen] = Caller(d.op)
                    /\ d.op \in SignUpCalls => d.email \in Emails
                    /\ d.op \in {"created", "update"} => d.email \in accounts'
  OBVIOUS
<1> DEFINE Fits ==  /\ life'[d.screen] # "unopened"
                    /\ Mounted(d.screen)' => kind'[d.screen] = Caller(d.op)
                    /\ d.op \in SignUpCalls => d.email \in Emails
                    /\ d.op \in {"created", "update"} => d.email \in accounts'
<1>4. Restart => pending' = {}
  BY DEF Restart
<1>5. ~Restart
  BY <1>4
<1>6. ASSUME NEW r \in Screens, OpenLogin(r) PROVE Fits
  <2>1. NewScreen(r, "login", Null, Null) /\ Push(r)
        /\ Ask(r, "initialize", Null)
    BY <1>6 DEF OpenLogin
  <2>2. PICK i \in 1..MaxPending : d = Call(i, r, "initialize", Null)
    BY <2>1, AskFacts
  <2>3. Opened(r) /\ kind'[r] = "login"
    BY <1>0, <2>1, PushFacts, NewScreenFacts
  <2>4. QED
    BY <1>3, <2>2, <2>3
<1>7. ASSUME NEW r \in Screens, NEW e \in Emails, TapSignIn(r, e) PROVE Fits
  <2>1. d.screen = r /\ d.op \in {"signIn", "initialize"}
    <3>1. PICK n, m \in 1..MaxPending :
            d = SignInCall(n, r, e) \/ d = Call(m, r, "initialize", Null)
      BY <1>7, SignInFacts
    <3>2. SignInCall(n, r, e).screen = r /\ SignInCall(n, r, e).op = "signIn"
      BY DEF SignInCall
    <3>3. /\ Call(m, r, "initialize", Null).screen = r
          /\ Call(m, r, "initialize", Null).op = "initialize"
      BY DEF Call
    <3>4. QED
      BY <3>1, <3>2, <3>3
  <2>2. OnTop(r) /\ kind[r] = "login"
    BY <1>7 DEF TapSignIn, Ready, Shows
  <2>3. Caller(d.op) = "login" /\ d.op \notin SignUpCalls /\ d.op \notin {"created", "update"}
    BY <2>1 DEF Caller, Builds, SignUpCalls
  <2>4. QED
    BY <1>1, <1>5, <2>1, <2>2, <2>3
<1>8. ASSUME NEW r \in Screens, TapSignUp(r) PROVE Fits
  <2>1. PICK n \in 1..MaxPending : d = Call(n, r, "create", user[r])
    BY <1>8, AskFacts DEF TapSignUp
  <2>2. d.screen = r /\ d.op = "create" /\ d.email = user[r]
    BY <2>1 DEF Call
  <2>3. OnTop(r) /\ kind[r] = "signUp" /\ user[r] \in Emails
    BY <1>0, <1>8 DEF TapSignUp, Shows, CallsFit
  <2>4. Caller(d.op) = "signUp"
    BY <2>2 DEF Caller, Builds, SignUpCalls
  <2>5. QED
    BY <1>1, <1>5, <2>2, <2>3, <2>4
<1>9. ASSUME NEW r \in Screens, TapVerify(r) \/ TapRefresh(r) \/ TapSignOut(r) PROVE Fits
  <2>1. d.screen = r /\ d.op \in {"verify", "refresh", "signOut"}
    BY <1>9, AskFacts DEF TapVerify, TapRefresh, TapSignOut, Call
  <2>2. OnTop(r) /\ kind[r] = "profile"
    BY <1>9 DEF TapVerify, TapRefresh, TapSignOut, Shows
  <2>3. Caller(d.op) = "profile" /\ d.op \notin SignUpCalls
        /\ d.op \notin {"created", "update"}
    BY <2>1 DEF Caller, Builds, SignUpCalls
  <2>4. QED
    BY <1>1, <1>5, <2>1, <2>2, <2>3
<1>10. ASSUME NEW c \in pending, SignInRefused(c) PROVE Fits
  <2>1. c.op = "signIn"
    BY <1>10 DEF SignInRefused
  <2>2. d.screen = c.screen /\ d.op \in Builds
    BY <1>0, <1>10, RefusedFacts
  <2>3. Caller(d.op) = Caller(c.op) /\ d.op \notin SignUpCalls
        /\ d.op \notin {"created", "update"}
    BY <2>1, <2>2 DEF Caller, Builds, SignUpCalls
  <2>4. QED
    BY <1>2, <1>5, <2>2, <2>3
<1>11. ASSUME NEW c \in pending, ServiceCreates(c) \/ CreateReturns(c) PROVE Fits
  <2>1. PICK op \in {"created", "update"} : d = [c EXCEPT !.op = op]
    BY <1>11 DEF ServiceCreates, CreateReturns
  <2>2. d.screen = c.screen /\ d.email = c.email /\ d.op = op
    BY <1>0, <2>1, CallFacts DEF Ops, SignUpCalls
  <2>3. c.op \in {"create", "created"} /\ c.email \in Emails /\ c.email \in accounts'
    BY <1>0, <1>11 DEF ServiceCreates, CreateReturns, CallsFit, SignUpCalls, Accounts
  <2>4. Caller(d.op) = Caller(c.op)
    BY <2>2, <2>3 DEF Caller, Builds, SignUpCalls
  <2>5. QED
    BY <1>2, <1>5, <2>2, <2>3, <2>4
<1>12. ASSUME NEW c \in pending, SignedOut(c) PROVE Fits
  <2>1. PICK n \in Screens : /\ PushReplacement(n) /\ NewScreen(n, "login", Null, Null)
                             /\ d = Call(c.nth, n, "initialize", Null)
    BY <1>12 DEF SignedOut
  <2>2. Opened(n) /\ kind'[n] = "login"
    BY <1>0, <2>1, ReplaceFacts, NewScreenFacts
  <2>3. QED
    BY <1>3, <2>1, <2>2
<1>13. ASSUME NEW c \in pending,
             \/ Initialized(c) \/ CreateFails(c) \/ SignUpEnds(c) \/ Verified(c)
             \/ VerifyThrows(c) \/ Refreshed(c) \/ SignOutThrows(c)
       PROVE  pending' \subseteq pending
  BY <1>13 DEF Initialized, CreateFails, SignUpEnds, Verified, VerifyThrows, Refreshed, SignOutThrows,
               Answer
<1>14. ASSUME NEW r \in Screens,
              \/ OpenSendMail(r) \/ Unmount(r)
              \/ \E e \in Emails : Retype(r, e) \/ RetypeMatric(r, e)
              \/ \E e, m \in Emails, q \in Screens : OpenSignUp(r, e, m, q)
              \/ TapSignUpInvalid(r)
              \/ \E q \in Screens : OpenRegister(r, q) \/ OpenCourses(r, q)
       PROVE  pending' \subseteq pending
  BY <1>14 DEF OpenSendMail, Unmount, Retype, RetypeMatric, OpenSignUp, TapSignUpInvalid,
               OpenRegister, OpenCourses
<1>15. GoBack \/ UNCHANGED vars => pending' = pending
  BY DEF GoBack, vars
<1>16. QED
  BY <1>5, <1>6, <1>7, <1>8, <1>9, <1>10, <1>11, <1>12, <1>13, <1>14, <1>15 DEF Next

LEMMA CallsKept == IInv /\ [Next]_vars => CallsFit'
<1> SUFFICES ASSUME IInv, [Next]_vars PROVE CallsFit'
  OBVIOUS
<1>0. TypeOK /\ Coherent /\ CallsFit
  BY DEF IInv
<1>1. \A t \in Screens : kind'[t] = "signUp" => user'[t] \in Emails
  BY FormsKept
<1>2. CASE Restart
  BY <1>1, <1>2 DEF Restart, CallsFit
<1>3. CASE ~Restart
  <2>1. ASSUME NEW c \in pending
        PROVE  /\ life'[c.screen] # "unopened"
               /\ Mounted(c.screen)' => kind'[c.screen] = Caller(c.op)
               /\ c.op \in SignUpCalls => c.email \in Emails
    <3>1. c.op \in SignUpCalls => c.email \in Emails
      BY <1>0 DEF CallsFit
    <3>2. QED
      BY <1>3, <3>1, StillFits DEF Mounted
  <2>2. ASSUME NEW c \in pending' \ pending
        PROVE  /\ life'[c.screen] # "unopened"
               /\ Mounted(c.screen)' => kind'[c.screen] = Caller(c.op)
               /\ c.op \in SignUpCalls => c.email \in Emails
    BY NewCalls
  <2>3. QED
    BY <1>1, <2>1, <2>2 DEF CallsFit
<1>4. QED
  BY <1>2, <1>3

(* Accounts are never closed. *)
LEMMA AccountsStay == [Next]_vars => accounts \subseteq accounts'
BY DEF Next, vars, GoBack, Restart, OpenLogin, OpenSendMail, Unmount, Initialized,
       TapSignIn, Retype, RetypeMatric, OpenSignUp, TapSignUp, TapSignUpInvalid,
       OpenRegister, OpenCourses, TapVerify,
       TapRefresh, TapSignOut, SignInRefused, ServiceCreates, CreateFails, CreateReturns,
       SignUpEnds, Verified, VerifyThrows, Refreshed, SignedOut, SignOutThrows, authVars

(* A step in which the service makes no account and no sign-up returns     *)
(* signs in nobody, and brings no reply to a sign-up.                      *)
LEMMA OtherSteps ==
  ASSUME TypeOK, [Next]_vars,
         \A c \in pending : ~ServiceCreates(c) /\ ~CreateReturns(c)
  PROVE  /\ UNCHANGED accounts
         /\ \A d \in pending' : d.op = "created" => d \in pending
         /\ \/ UNCHANGED currentUser
            \/ /\ currentUser' = Null
               /\ \A d \in pending : d.op = "created" => d \in pending'
<1> DEFINE NoReplies == \A d \in pending' : d.op = "created" => d \in pending
           Quietly   == UNCHANGED <<accounts, currentUser>> /\ NoReplies
<1>1. ASSUME NEW r \in Screens, NEW op \in Ops, NEW e, Ask(r, op, e),
             op # "created", UNCHANGED authVars
      PROVE  Quietly
  <2>1. PICK n \in 1..MaxPending : pending' = pending \union {Call(n, r, op, e)}
    BY <1>1, AskFacts
  <2>2. Call(n, r, op, e).op = op
    BY DEF Call
  <2>3. QED
    BY <1>1, <2>1, <2>2 DEF authVars
<1>2. ASSUME NEW r \in Screens,
             \/ OpenLogin(r) \/ TapSignUp(r) \/ TapVerify(r) \/ TapRefresh(r)
             \/ TapSignOut(r)
      PROVE  Quietly
  BY <1>1, <1>2 DEF OpenLogin, TapSignUp, TapVerify, TapRefresh, TapSignOut, Ops, Builds,
                    SignUpCalls
<1>7. ASSUME NEW r \in Screens,
             \/ OpenSendMail(r) \/ Unmount(r) \/ TapSignUpInvalid(r)
             \/ \E e \in Emails : Retype(r, e) \/ RetypeMatric(r, e)
             \/ \E e, m \in Emails, q \in Screens : OpenSignUp(r, e, m, q)
             \/ \E q \in Screens : OpenRegister(r, q) \/ OpenCourses(r, q)
      PROVE  Quietly
  BY <1>7 DEF OpenSendMail, Unmount, TapSignUpInvalid, Retype, RetypeMatric, OpenSignUp,
              OpenRegister, OpenCourses, authVars
<1>8. ASSUME NEW r \in Screens, NEW e \in Emails, TapSignIn(r, e) PROVE Quietly
  <2>1. UNCHANGED <<currentUser, accounts>>
    BY <1>8 DEF TapSignIn, authVars
  <2>2. PICK n, m \in 1..MaxPending :
          pending' = pending \union {SignInCall(n, r, e), Call(m, r, "initialize", Null)}
    BY <1>8, SignInFacts
  <2>3. /\ SignInCall(n, r, e).op = "signIn"
        /\ Call(m, r, "initialize", Null).op = "initialize"
    BY DEF SignInCall, Call
  <2>4. QED
    BY <2>1, <2>2, <2>3
<1>9. ASSUME NEW c \in pending, SignInRefused(c) PROVE Quietly
  <2>1. UNCHANGED <<currentUser, accounts>>
    BY <1>9 DEF SignInRefused, authVars
  <2>2. NoReplies
    BY <1>9, RefusedFacts DEF Builds
  <2>3. QED
    BY <2>1, <2>2
<1>3. ASSUME NEW c \in pending,
             \/ Initialized(c) \/ CreateFails(c) \/ SignUpEnds(c) \/ Verified(c)
             \/ VerifyThrows(c) \/ Refreshed(c) \/ SignOutThrows(c)
      PROVE  Quietly
  BY <1>3 DEF Initialized, CreateFails, SignUpEnds, Verified, VerifyThrows, Refreshed,
              SignOutThrows, Answer, authVars
<1>4. ASSUME NEW c \in pending, SignedOut(c)
      PROVE  /\ UNCHANGED accounts /\ NoReplies /\ currentUser' = Null
             /\ \A d \in pending : d.op = "created" => d \in pending'
  BY <1>4 DEF SignedOut, Call
<1>5. GoBack \/ Restart \/ UNCHANGED vars => Quietly
  BY DEF GoBack, Restart, vars, authVars
<1>6. QED
  BY <1>2, <1>3, <1>4, <1>5, <1>7, <1>8, <1>9 DEF Next

(* The service makes one account for each student. *)
LEMMA OneReplyKept == IInv /\ [Next]_vars => OneReply'
<1> SUFFICES ASSUME IInv, [Next]_vars PROVE OneReply'
  OBVIOUS
<1>1. TypeOK /\ OneReply
      /\ \A d \in pending : d.op = "created" => d.email \in accounts
  BY DEF IInv, Accounts
<1>2. ASSUME NEW c \in pending, ServiceCreates(c) PROVE OneReply'
  <2>1. /\ c.email \notin accounts
        /\ pending' = (pending \ {c}) \union {[c EXCEPT !.op = "created"]}
    BY <1>2 DEF ServiceCreates
  <2>2. [c EXCEPT !.op = "created"].email = c.email
    BY <1>1, CallFacts DEF Ops, SignUpCalls
  <2>3. QED
    BY <1>1, <2>1, <2>2 DEF OneReply
<1>3. ASSUME NEW c \in pending, CreateReturns(c) PROVE OneReply'
  <2>1. pending' = (pending \ {c}) \union {[c EXCEPT !.op = "update"]}
    BY <1>3 DEF CreateReturns
  <2>2. [c EXCEPT !.op = "update"].op = "update"
    BY <1>1, CallFacts DEF Ops, SignUpCalls
  <2>3. QED
    BY <1>1, <2>1, <2>2 DEF OneReply
<1>4. CASE \A c \in pending : ~ServiceCreates(c) /\ ~CreateReturns(c)
  BY <1>1, <1>4, OtherSteps DEF OneReply
<1>5. QED
  BY <1>2, <1>3, <1>4

LEMMA AccountsKept == IInv /\ [Next]_vars => Accounts'
<1> SUFFICES ASSUME IInv, [Next]_vars PROVE Accounts'
  OBVIOUS
<1>0. TypeOK /\ Coherent /\ CallsFit /\ Accounts /\ UserHasAccount
  BY DEF IInv, Accounts
<1>1. accounts \subseteq accounts'
  BY AccountsStay
<1>2. \A c \in pending' : c.op \in {"created", "update"} => c.email \in accounts'
  BY <1>0, <1>1, NewCalls DEF Accounts
<1>3. currentUser' # Null => currentUser' \in accounts'
  <2>1. \/ currentUser' \in {currentUser, Null}
        \/ \E c \in pending : c.op = "created" /\ currentUser' = c.email
    BY DEF Next, vars, GoBack, Restart, OpenLogin, OpenSendMail, Unmount, Initialized,
           TapSignIn, Retype, RetypeMatric, OpenSignUp, TapSignUp, TapSignUpInvalid, OpenRegister, OpenCourses,
           TapVerify, TapRefresh, TapSignOut, SignInRefused, ServiceCreates, CreateFails,
           CreateReturns, SignUpEnds, Verified, VerifyThrows, Refreshed, SignedOut,
           SignOutThrows, authVars
  <2>2. QED
    BY <1>0, <1>1, <2>1 DEF Accounts, UserHasAccount
<1>4. ASSUME NEW t \in Screens, kind'[t] = "profile" PROVE user'[t] \in accounts
  <2>1. /\ kind[t] = "profile" => user[t] \in accounts
        /\ currentUser # Null => currentUser \in accounts
    BY <1>0 DEF UserHasAccount
  <2>2. ASSUME NEW n \in Screens, NEW k, NEW u, NEW m, NewScreen(n, k, u, m),
               k = "profile" => u \in accounts
        PROVE  user'[t] \in accounts
    BY <1>0, <1>4, <2>1, <2>2, NewScreenFacts
  <2>3. ASSUME UNCHANGED screenVars PROVE user'[t] \in accounts
    BY <1>4, <2>1, <2>3 DEF screenVars
  <2>4. ASSUME NEW r \in Screens,
               \/ OpenLogin(r) \/ OpenSendMail(r)
               \/ \E e, m \in Emails, q \in Screens : OpenSignUp(r, e, m, q)
               \/ \E q \in Screens : OpenRegister(r, q) \/ OpenCourses(r, q)
        PROVE  user'[t] \in accounts
    <3>1. \E n \in Screens, k \in {"login", "sendMail", "signUp", "register", "courses"} :
             \E u, m : NewScreen(n, k, u, m)
      BY <2>4 DEF OpenLogin, OpenSendMail, OpenSignUp, OpenRegister, OpenCourses
    <3>2. QED
      BY <2>2, <3>1
  <2>15. ASSUME NEW c \in pending, Initialized(c) PROVE user'[t] \in accounts
    <3>1. \/ UNCHANGED screenVars
          \/ /\ currentUser # Null
             /\ \E n \in Screens : NewScreen(n, "profile", currentUser, Null)
      BY <2>15 DEF Initialized
    <3>2. QED
      BY <2>1, <2>2, <2>3, <3>1
  <2>5. ASSUME NEW c \in pending, SignUpEnds(c) PROVE user'[t] \in accounts
    <3>1. \/ UNCHANGED screenVars
          \/ \E n \in Screens, u \in {currentUser, c.email} : \E m :
                c.op = "update" /\ u # Null /\ NewScreen(n, "profile", u, m)
      BY <2>5 DEF SignUpEnds
    <3>2. c.op = "update" => c.email \in accounts
      BY <1>0 DEF Accounts
    <3>3. QED
      BY <2>1, <2>2, <2>3, <3>1, <3>2
  <2>6. ASSUME NEW c \in pending, SignedOut(c) PROVE user'[t] \in accounts
    <3>1. \/ UNCHANGED screenVars
          \/ \E n \in Screens : NewScreen(n, "login", Null, Null)
      BY <2>6 DEF SignedOut
    <3>2. QED
      BY <2>2, <2>3, <3>1
  <2>7. ASSUME NEW r \in Screens, Unmount(r) PROVE user'[t] \in accounts
    BY <1>0, <1>4, <2>1, <2>7 DEF Unmount, TypeOK
  <2>8. ASSUME NEW r \in Screens, NEW e \in Emails, Retype(r, e) \/ RetypeMatric(r, e)
        PROVE  user'[t] \in accounts
    <3>1. /\ kind[r] = "signUp" /\ kind' = kind
          /\ user' = [user EXCEPT ![r] = e] \/ user' = user
      BY <2>8 DEF Retype, RetypeMatric, Shows
    <3>2. QED
      BY <1>0, <1>4, <2>1, <3>1 DEF TypeOK
  <2>9. ASSUME NEW c \in pending, Refreshed(c) PROVE user'[t] \in accounts
    <3>1. /\ UNCHANGED kind
          /\ \/ UNCHANGED user
             \/ currentUser # Null /\ user' = [user EXCEPT ![c.screen] = currentUser]
      BY <2>9 DEF Refreshed
    <3>2. QED
      BY <1>0, <1>4, <2>1, <3>1 DEF TypeOK
  <2>10. CASE Restart
    BY <1>4, <2>10 DEF Restart
  <2>11. ASSUME NEW r \in Screens,
               \/ \E e \in Emails : TapSignIn(r, e)
               \/ TapSignUp(r) \/ TapSignUpInvalid(r) \/ TapVerify(r)
               \/ TapRefresh(r) \/ TapSignOut(r)
        PROVE  UNCHANGED screenVars
    BY <2>11 DEF TapSignIn, TapSignUp, TapSignUpInvalid, TapVerify, TapRefresh, TapSignOut
  <2>12. ASSUME NEW c \in pending,
               \/ SignInRefused(c) \/ ServiceCreates(c) \/ CreateFails(c)
               \/ CreateReturns(c) \/ Verified(c) \/ VerifyThrows(c) \/ SignOutThrows(c)
        PROVE  UNCHANGED screenVars
    BY <2>12 DEF SignInRefused, ServiceCreates, CreateFails, CreateReturns, Verified,
                 VerifyThrows, SignOutThrows
  <2>13. GoBack \/ UNCHANGED vars => UNCHANGED screenVars
    BY DEF GoBack, vars
  <2>14. QED
    BY <2>3, <2>4, <2>5, <2>6, <2>7, <2>8, <2>9, <2>10, <2>11, <2>12, <2>13,
       <2>15 DEF Next
<1>5. OneReply'
  BY OneReplyKept
<1>6. QED
  BY <1>1, <1>2, <1>3, <1>4, <1>5 DEF Accounts, UserHasAccount

-----------------------------------------------------------------------------
(* Spinners. *)

(* The spinner x turns until the call c is answered. *)
Waits(x, c) == /\ c.screen = x[1]
               /\ IF x[2] = "create" THEN c.op \in SignUpCalls ELSE c.op = x[2]

(* A call has one spinner at most. *)
LEMMA OneSpinner ==
  ASSUME NEW x \in Spinners, NEW c \in Calls, Waits(x, c)
  PROVE  x = <<c.screen, IF c.op \in SignUpCalls THEN "create" ELSE c.op>>
<1>1. x = <<x[1], x[2]>> /\ x[2] \in {"signIn", "create", "verify", "signOut"}
  BY DEF Spinners
<1>2. x[2] # "create" => c.op \notin SignUpCalls /\ c.op = x[2]
  BY <1>1 DEF Waits, SignUpCalls
<1>3. QED
  BY <1>1, <1>2 DEF Waits

(* A mounted screen stays so until it is unmounted or the run ends. *)
LEMMA MountedStay ==
  ASSUME IInv, [Next]_vars, NEW t \in Screens, Mounted(t)
  PROVE  Mounted(t)' \/ Restart \/ \E r \in Screens : Unmount(r) /\ t = r
<1>0. TypeOK /\ Coherent /\ life \in [Screens -> {"unopened", "shown", "leaving", "gone"}]
  BY DEF IInv, TypeOK, NavTypeOK
<1>1. CASE Opens
  <2>1. PICK n \in Screens : Opened(n)
    BY <1>1 DEF Opens
  <2>2. t # n
    BY <2>1 DEF Opened, Mounted
  <2>3. QED
    BY <2>1, <2>2 DEF Opened, Mounted
<1>2. ASSUME NEW r \in Screens, Unmount(r), t # r PROVE Mounted(t)'
  BY <1>0, <1>2 DEF Unmount, Dispose, Mounted
<1>3. CASE Pop
  BY <1>0, <1>3, PopFacts DEF Mounted
<1>4. CASE UNCHANGED navVars
  BY <1>4 DEF navVars, Mounted
<1>5. QED
  BY <1>1, <1>2, <1>3, <1>4, KindSteps DEF Keeps

(* The answered call c leaves no spinner of its own turning. *)
LEMMA AnswerStops ==
  ASSUME IInv, NEW c \in pending, NEW op,
         op = IF c.op \in SignUpCalls THEN "create" ELSE c.op,
         \A d \in pending \ {c} : d.op # "initialize" => d \in pending',
         \/ Stop(c.screen, op) \/ LeaveSpinning(c.screen, op)
         \/ UNCHANGED waitVars /\ ~Mounted(c.screen)
  PROVE  /\ \A x \in spinning' \ stuck' : \E d \in pending' : Waits(x, d)
         /\ spinning' \subseteq spinning
<1>0. /\ \A x \in spinning \ stuck : \E d \in pending : Waits(x, d)
      /\ \A x \in spinning : Mounted(x[1])
      /\ spinning \subseteq Spinners /\ pending \subseteq Calls
  BY DEF IInv, Spinning, SpinnersStop, Waits, TypeOK
<1>1. spinning' \subseteq spinning
  BY DEF Stop, LeaveSpinning, waitVars
<1>2. spinning' \ stuck' \subseteq spinning \ stuck
  BY DEF Stop, LeaveSpinning, waitVars
<1>3. ASSUME NEW x \in spinning' \ stuck' PROVE \E d \in pending' : Waits(x, d)
  <2>1. PICK d \in pending : Waits(x, d)
    BY <1>0, <1>2
  <2>2. d # c
    <3>1. SUFFICES ASSUME d = c PROVE FALSE
      OBVIOUS
    <3>2. x = <<c.screen, op>> /\ x[1] = c.screen
      BY <1>0, <1>1, <2>1, <3>1, OneSpinner DEF Waits
    <3>3. ~Stop(c.screen, op)
      BY <3>2 DEF Stop
    <3>4. ~LeaveSpinning(c.screen, op)
      BY <3>2 DEF LeaveSpinning
    <3>5. Mounted(c.screen)
      BY <1>0, <1>1, <3>2 DEF Mounted
    <3>6. QED
      BY <3>3, <3>4, <3>5
  <2>3. d.op # "initialize"
    BY <1>0, <1>1, <2>1 DEF Waits, SignUpCalls, Spinners
  <2>4. QED
    BY <2>1, <2>2, <2>3
<1>4. QED
  BY <1>1, <1>3

(* A call goes on with the next of the handler's, or a new one starts.     *)
LEMMA OthersTurn ==
  ASSUME IInv, NEW r \in Screens, NEW op,
         \A x \in Spinners : \A c \in pending :
            Waits(x, c) => \E d \in pending' : Waits(x, d),
         \/ UNCHANGED waitVars
         \/ /\ spinning' = spinning \union {<<r, op>>}
            /\ \/ UNCHANGED stuck /\ \E d \in pending' : Waits(<<r, op>>, d)
               \/ stuck' = stuck \union {<<r, op>>}
  PROVE  \A x \in spinning' \ stuck' : \E d \in pending' : Waits(x, d)
<1>0. /\ \A x \in spinning \ stuck : \E d \in pending : Waits(x, d)
      /\ spinning \subseteq Spinners
  BY DEF IInv, Spinning, SpinnersStop, Waits, TypeOK
<1>1. \A x \in spinning \ stuck : \E d \in pending' : Waits(x, d)
  BY <1>0
<1>2. \A x \in spinning' \ stuck' :
         x \in spinning \ stuck \/ (x = <<r, op>> /\ UNCHANGED stuck)
  BY DEF waitVars
<1>3. QED
  BY <1>1, <1>2 DEF waitVars

LEMMA SpinningKept == IInv /\ [Next]_vars => Spinning'
<1> SUFFICES ASSUME IInv, [Next]_vars PROVE Spinning'
  OBVIOUS
<1>0. /\ TypeOK /\ Coherent /\ CallsFit /\ Spinning /\ spinning \subseteq Spinners
      /\ pending \subseteq Calls
  BY DEF IInv, TypeOK
<1> DEFINE StopsRight == \A x \in spinning' \ stuck' : \E d \in pending' : Waits(x, d)
<1> DEFINE Goes == /\ StopsRight
                   /\ \A x \in spinning' : x \in spinning \/ (OnTop(x[1]) /\ x[1] \in Screens)
<1>1. ASSUME Goes, ~Restart, \A r \in Screens : ~Unmount(r) PROVE Spinning'
  <2>1. ASSUME NEW x \in spinning' PROVE Mounted(x[1])'
    <3>1. PICK r \in Screens : r = x[1] /\ Mounted(r)
      BY <1>0, <1>1, OnTopShows DEF Spinning, Spinners, Mounted
    <3>2. Mounted(r)'
      BY <1>1, <3>1, MountedStay
    <3>3. QED
      BY <3>1, <3>2 DEF Mounted
  <2>2. SpinnersStop'
    BY <1>1 DEF SpinnersStop, Waits
  <2>3. QED
    BY <2>1, <2>2 DEF Spinning
<1>2. CASE Restart
  BY <1>2 DEF Restart, Spinning, SpinnersStop
<1>3. ASSUME NEW r \in Screens, Unmount(r) PROVE Spinning'
  <2>1. /\ spinning' = {x \in spinning : x[1] # r} /\ stuck' = {x \in stuck : x[1] # r}
        /\ pending' = pending
    BY <1>3 DEF Unmount
  <2>2. SpinnersStop'
    BY <1>0, <2>1 DEF Spinning, SpinnersStop
  <2>3. ASSUME NEW x \in spinning' PROVE Mounted(x[1])'
    <3>1. PICK t \in Screens : t = x[1] /\ Mounted(t) /\ t # r
      BY <1>0, <2>1 DEF Spinning, Spinners, Mounted
    <3>2. Mounted(t)'
      BY <1>0, <1>3, <3>1 DEF Unmount, Dispose, Mounted, TypeOK, NavTypeOK
    <3>3. QED
      BY <3>1, <3>2 DEF Mounted
  <2>4. QED
    BY <2>2, <2>3 DEF Spinning
<1>4. ASSUME NEW c \in pending,
             \/ SignInRefused(c) \/ CreateFails(c) \/ SignUpEnds(c) \/ Verified(c)
             \/ VerifyThrows(c) \/ SignedOut(c) \/ SignOutThrows(c)
      PROVE  Goes
  <2> DEFINE op == IF c.op \in SignUpCalls THEN "create" ELSE c.op
  <2>1. \A d \in pending \ {c} : d.op # "initialize" => d \in pending'
    <3>1. CASE SignInRefused(c)
      BY <1>0, <3>1, RefusedFacts
    <3>2. QED
      BY <1>4, <3>1 DEF CreateFails, SignUpEnds, Verified, VerifyThrows, SignedOut,
                SignOutThrows, Answer
  <2>2. \/ Stop(c.screen, op) \/ LeaveSpinning(c.screen, op)
        \/ UNCHANGED waitVars /\ ~Mounted(c.screen)
    BY <1>4 DEF SignInRefused, CreateFails, SignUpEnds, Verified, VerifyThrows, SignedOut,
                SignOutThrows, StopSigningUp, SignUpCalls
  <2> HIDE DEF op
  <2>3. StopsRight /\ spinning' \subseteq spinning
    BY <2>1, <2>2, AnswerStops DEF op
  <2>4. QED
    BY <2>3 DEF OnTop
<1>6. ASSUME NEW c \in pending, Initialized(c) \/ Refreshed(c) PROVE Goes
  <2>1. /\ pending' = pending \ {c} /\ UNCHANGED waitVars
        /\ c.op \in Builds \union {"refresh"} /\ c.screen \in Screens
    BY <1>0, <1>6, CallFacts DEF Initialized, Refreshed, Answer
  <2>2. \A x \in Spinners : ~Waits(x, c)
    BY <2>1 DEF Waits, Builds, SignUpCalls, Spinners
  <2>3. StopsRight
    BY <2>1, <2>2, OthersTurn
  <2>4. QED
    BY <2>1, <2>3 DEF waitVars, OnTop
<1>7. ASSUME NEW c \in pending, ServiceCreates(c) \/ CreateReturns(c) PROVE Goes
  <2>1. PICK op \in {"created", "update"} :
          pending' = (pending \ {c}) \union {[c EXCEPT !.op = op]}
    BY <1>7 DEF ServiceCreates, CreateReturns
  <2>2. UNCHANGED waitVars /\ c.op \in {"create", "created"} /\ c.screen \in Screens
    BY <1>0, <1>7, CallFacts DEF ServiceCreates, CreateReturns
  <2> DEFINE d == [c EXCEPT !.op = op]
  <2>3. d.screen = c.screen /\ d.op = op /\ d \in pending'
    BY <1>0, <2>1, CallFacts DEF Ops, SignUpCalls
  <2> HIDE DEF d
  <2>4. \A x \in Spinners : Waits(x, c) => Waits(x, d)
    BY <2>2, <2>3 DEF Waits, SignUpCalls, Spinners
  <2>5. \A x \in Spinners : \A e \in pending : Waits(x, e) => \E f \in pending' : Waits(x, f)
    BY <2>1, <2>3, <2>4
  <2>6. StopsRight
    BY <2>2, <2>5, OthersTurn
  <2>7. QED
    BY <2>2, <2>6 DEF waitVars, OnTop
<1>8. ASSUME NEW r \in Screens, NEW op \in {"signIn", "create", "verify", "signOut"}, OnTop(r),
             pending \subseteq pending', spinning' = spinning \union {<<r, op>>},
             \/ UNCHANGED stuck /\ \E d \in pending' :
                   d.screen = r /\ d.op = op
             \/ stuck' = stuck \union {<<r, op>>}
      PROVE  Goes
  <2>1. \A d : d.screen = r /\ d.op = op => Waits(<<r, op>>, d)
    BY DEF Waits, SignUpCalls
  <2>2. StopsRight
    BY <1>8, <2>1, OthersTurn
  <2>3. QED
    BY <1>8, <2>2 DEF OnTop
<1>9. ASSUME NEW r \in Screens, NEW e \in Emails, TapSignIn(r, e) PROVE Goes
  <2>1. /\ OnTop(r) /\ spinning' = spinning \union {<<r, "signIn">>} /\ UNCHANGED stuck
    BY <1>9 DEF TapSignIn, Spin, Ready, Shows
  <2>2. PICK n \in 1..MaxPending :
          pending \subseteq pending' /\ SignInCall(n, r, e) \in pending'
    BY <1>9, SignInFacts
  <2>3. SignInCall(n, r, e).screen = r /\ SignInCall(n, r, e).op = "signIn"
    BY DEF SignInCall
  <2>4. QED
    BY <1>8, <2>1, <2>2, <2>3
<1>10. ASSUME NEW r \in Screens, TapSignUp(r) \/ TapVerify(r) \/ TapSignOut(r) PROVE Goes
  <2>1. PICK op \in {"create", "verify", "signOut"}, e \in {user[r], Null} :
          /\ OnTop(r) /\ Ask(r, op, e)
          /\ spinning' = spinning \union {<<r, op>>} /\ UNCHANGED stuck
    BY <1>10 DEF TapSignUp, TapVerify, TapSignOut, Spin, Shows
  <2>2. PICK n \in 1..MaxPending : pending' = pending \union {Call(n, r, op, e)}
    BY <2>1, AskFacts
  <2>3. Call(n, r, op, e).screen = r /\ Call(n, r, op, e).op = op
    BY DEF Call
  <2>4. QED
    BY <1>8, <2>1, <2>2, <2>3
<1>11. ASSUME NEW r \in Screens, TapSignUpInvalid(r) PROVE Goes
  <2>1. /\ OnTop(r) /\ pending' = pending
        /\ spinning' = spinning \union {<<r, "create">>}
        /\ stuck' = stuck \union {<<r, "create">>}
    BY <1>11 DEF TapSignUpInvalid, Shows
  <2>2. QED
    BY <1>8, <2>1
<1>12. ASSUME UNCHANGED waitVars, pending \subseteq pending' PROVE Goes
  BY <1>0, <1>12 DEF waitVars, Spinning, SpinnersStop, Waits, OnTop
<1>13. ASSUME NEW r \in Screens,
              \/ OpenLogin(r) \/ OpenSendMail(r) \/ TapRefresh(r)
              \/ \E e \in Emails : Retype(r, e) \/ RetypeMatric(r, e)
              \/ \E e, m \in Emails, q \in Screens : OpenSignUp(r, e, m, q)
              \/ \E q \in Screens : OpenRegister(r, q) \/ OpenCourses(r, q)
       PROVE  Goes
  <2>1. UNCHANGED waitVars /\ pending \subseteq pending'
    BY <1>13 DEF OpenLogin, OpenSendMail, TapRefresh, Retype, RetypeMatric, OpenSignUp,
                 OpenRegister, OpenCourses, Ask
  <2>2. QED
    BY <1>12, <2>1
<1>14. GoBack \/ UNCHANGED vars => Goes
  <2>1. GoBack \/ UNCHANGED vars => UNCHANGED waitVars /\ pending' = pending
    BY DEF GoBack, vars
  <2>2. QED
    BY <1>12, <2>1
<1>15. QED
  BY <1>1, <1>2, <1>3, <1>4, <1>6, <1>7, <1>9, <1>10, <1>11, <1>13, <1>14 DEF Next

-----------------------------------------------------------------------------
(* What the steps do to the stack. *)

(* The profile n, of whoever is signed in, takes the place of the route on *)
(* top, for the login screen r; after a sign-up that was answered, that of *)
(* its student alone stands on the start screen; the login screen n takes  *)
(* the place of the route on top.                                          *)
Restores(r, n) ==
  /\ Mounted(r) /\ currentUser # Null
  /\ PushReplacement(n) /\ NewScreen(n, "profile", currentUser, Null)
  /\ ActsFor(r) /\ astray' = (astray \/ OverProfile)
  /\ pending' \subseteq pending /\ UNCHANGED currentUser

EndsSignUp(c, u, n) ==
  /\ c.op = "update" /\ Mounted(c.screen) /\ u # Null
  /\ PushOntoStart(n) /\ NewScreen(n, "profile", u, matnumber[c.screen])
  /\ ActsFor(c.screen)
  /\ pending' \subseteq pending /\ UNCHANGED <<currentUser, astray>>

SignsOut(c, n) ==
  /\ c.op = "signOut" /\ Mounted(c.screen)
  /\ PushReplacement(n) /\ NewScreen(n, "login", Null, Null)
  /\ ActsFor(c.screen) /\ SignsFor(c.screen, Null)
  /\ currentUser' = Null
  /\ pending' = (pending \ {c}) \union {Call(c.nth, n, "initialize", Null)}

Quiet == UNCHANGED <<navVars, kind, late>>

LEMMA StackSteps ==
  ASSUME TypeOK, [Next]_vars
  PROVE  \/ GoBack \/ Restart \/ Quiet
         \/ \E r \in Screens : OpenLogin(r) \/ OpenSendMail(r) \/ Unmount(r)
         \/ \E r, q \in Screens : \/ \E e, m \in Emails : OpenSignUp(r, e, m, q)
                                  \/ OpenRegister(r, q) \/ OpenCourses(r, q)
                                  \/ Restores(r, q)
         \/ \E c \in pending, n \in Screens :
               SignsOut(c, n) \/ \E u \in {currentUser, c.email} : EndsSignUp(c, u, n)
<1>1. ASSUME TypeOK, NEW c \in pending, Initialized(c)
      PROVE  Quiet \/ \E r, n \in Screens : Restores(r, n)
  <2>1. c.screen \in Screens
    BY <1>1, CallFacts
  <2>2. Quiet \/ \E n \in Screens : Restores(c.screen, n)
    BY <1>1 DEF Initialized, Restores, Quiet, Answer, authVars, screenVars, history
  <2>3. QED
    BY <2>1, <2>2
<1>2. ASSUME NEW c \in pending, SignUpEnds(c)
      PROVE  Quiet \/ \E n \in Screens, u \in {currentUser, c.email} : EndsSignUp(c, u, n)
  <2>1. PICK u \in {currentUser, c.email} :
          /\ c.op = "update" /\ Answer(c)
          /\ \/ /\ Mounted(c.screen) /\ u # Null
                /\ \E n \in Screens : /\ PushOntoStart(n)
                                      /\ NewScreen(n, "profile", u, matnumber[c.screen])
                /\ ActsFor(c.screen)
             \/ UNCHANGED <<navVars, screenVars, late>>
          /\ UNCHANGED <<authVars, astray>>
    BY <1>2 DEF SignUpEnds
  <2>2. QED
    BY <2>1 DEF EndsSignUp, Quiet, Answer, authVars, screenVars
<1>3. ASSUME NEW c \in pending, SignedOut(c)
      PROVE  Quiet \/ \E n \in Screens : SignsOut(c, n)
  BY <1>3 DEF SignedOut, SignsOut, Quiet, screenVars
<1>4. ASSUME NEW r \in Screens,
             \/ \E e \in Emails : TapSignIn(r, e) \/ Retype(r, e) \/ RetypeMatric(r, e)
             \/ TapSignUp(r) \/ TapSignUpInvalid(r) \/ TapVerify(r)
             \/ TapRefresh(r) \/ TapSignOut(r)
      PROVE  Quiet
  BY <1>4 DEF TapSignIn, Retype, RetypeMatric, TapSignUp, TapSignUpInvalid, TapVerify, TapRefresh,
              TapSignOut, screenVars, history, Quiet
<1>5. ASSUME NEW c \in pending,
             \/ SignInRefused(c) \/ ServiceCreates(c) \/ CreateFails(c)
             \/ CreateReturns(c) \/ Verified(c) \/ VerifyThrows(c)
             \/ Refreshed(c) \/ SignOutThrows(c)
      PROVE  Quiet
  BY <1>5 DEF SignInRefused, ServiceCreates, CreateFails, CreateReturns, Verified,
              VerifyThrows, Refreshed, SignOutThrows, screenVars, history, Quiet
<1>6. UNCHANGED vars => Quiet
  BY DEF vars, screenVars, history, Quiet
<1>7. QED
  BY <1>1, <1>2, <1>3, <1>4, <1>5, <1>6 DEF Next

(* What slipped is not forgotten in a run of the app. *)
LEMMA SlipsStay ==
  ASSUME TypeOK, [Next]_vars, NoSlips', ~Restart
  PROVE  NoSlips
<1>1. late \in BOOLEAN /\ astray \in BOOLEAN
  BY DEF TypeOK
<1>3. GoBack \/ UNCHANGED vars => NoSlips
  BY <1>1 DEF GoBack, vars, history, NoSlips
<1>4. ASSUME NEW r \in Screens,
             \/ OpenLogin(r) \/ OpenSendMail(r) \/ Unmount(r)
             \/ \E e \in Emails : TapSignIn(r, e) \/ Retype(r, e) \/ RetypeMatric(r, e)
             \/ \E e, m \in Emails, q \in Screens : OpenSignUp(r, e, m, q)
             \/ TapSignUp(r) \/ TapSignUpInvalid(r)
             \/ \E q \in Screens : OpenRegister(r, q) \/ OpenCourses(r, q)
             \/ TapVerify(r) \/ TapRefresh(r) \/ TapSignOut(r)
      PROVE  NoSlips
  BY <1>1, <1>4 DEF OpenLogin, OpenSendMail, Unmount, TapSignIn, Retype, RetypeMatric,
              OpenSignUp, TapSignUp, TapSignUpInvalid, OpenRegister, OpenCourses, TapVerify,
              TapRefresh, TapSignOut, history, NoSlips
<1>5. ASSUME NEW c \in pending,
             \/ Initialized(c) \/ SignInRefused(c) \/ ServiceCreates(c) \/ CreateFails(c)
             \/ CreateReturns(c) \/ SignUpEnds(c) \/ Verified(c) \/ VerifyThrows(c)
             \/ Refreshed(c) \/ SignedOut(c) \/ SignOutThrows(c)
      PROVE  NoSlips
  BY <1>1, <1>5 DEF Initialized, SignInRefused, ServiceCreates, CreateFails, CreateReturns, SignUpEnds,
              Verified, VerifyThrows, Refreshed, SignedOut, SignOutThrows, ActsFor,
              SignsFor, history, NoSlips
<1>6. QED
  BY <1>3, <1>4, <1>5 DEF Next

(* A screen that acts without being late is shown. *)
LEMMA ActsInTime ==
  ASSUME NEW r \in Screens, Mounted(r), ActsFor(r), ~late'
  PROVE  life[r] = "shown" /\ ~late
BY DEF Mounted, ActsFor

LEMMA StartStays == IInv /\ [Next]_vars => StartKept'
<1> SUFFICES ASSUME IInv, [Next]_vars PROVE StartKept'
  OBVIOUS
<1>0. /\ TypeOK /\ Coherent /\ CallsFit /\ stack # <<>>
      /\ ~late => Head(stack) = 0
      /\ Len(stack) \in Nat /\ Len(stack) > 0 /\ stack' \in Seq(Base \union Screens)
      /\ ~late => stack[1] = 0
  BY NavKept, StackFacts DEF IInv, StartKept, NavTypeOK
<1>1. ASSUME NEW n \in Screens, Push(n), UNCHANGED history PROVE StartKept'
  <2>1. stack' # <<>> /\ stack'[1] = stack[1]
    BY <1>0, <1>1, PushFacts
  <2>2. QED
    BY <1>0, <1>1, <2>1 DEF StartKept, history
<1>2. ASSUME NEW r \in Screens, Mounted(r), NEW n \in Screens, PushReplacement(n), ActsFor(r)
      PROVE  StartKept'
  <2>1. stack' # <<>> /\ \A i \in 1..(Len(stack) - 1) : stack'[i] = stack[i]
    BY <1>0, <1>2, ReplaceFacts
  <2>2. CASE ~late'
    <3>1. life[r] = "shown" /\ stack[1] = 0
      BY <1>0, <1>2, <2>2, ActsInTime
    <3>2. PICK i \in 1..Len(stack) : stack[i] = r
      BY <1>0, <3>1, StackFacts
    <3>3. i # 1
      BY <1>0, <3>1, <3>2, StackFacts
    <3>4. 1 \in 1..(Len(stack) - 1)
      BY <1>0, <3>2, <3>3
    <3>5. QED
      BY <1>0, <2>1, <3>1, <3>4 DEF StartKept
  <2>3. QED
    BY <2>1, <2>2 DEF StartKept
<1>3. ASSUME NEW c \in pending, NEW u, NEW n \in Screens, EndsSignUp(c, u, n)
      PROVE  StartKept'
  <2>1. /\ stack' # <<>>
        /\ ~late => Head(stack') = 0
        /\ c.screen \in Screens
    <3>1. c.screen \in Screens
      BY <1>0, CallFacts
    <3>2. stack' # <<>> /\ (~late => stack' = <<0, n>>)
      BY <1>0, <1>3, OntoFacts DEF EndsSignUp
    <3>3. QED
      BY <3>1, <3>2
  <2>2. ~late' => ~late
    BY <1>3, <2>1, ActsInTime DEF EndsSignUp
  <2>3. QED
    BY <2>1, <2>2 DEF StartKept
<1>4. CASE GoBack
  <2>1. Len(stack) > 1 /\ Pop /\ late' = late
    BY <1>4 DEF GoBack, history
  <2>2. Len(stack') = Len(stack) - 1 /\ stack'[1] = stack[1]
    BY <1>0, <2>1, PopFacts
  <2>3. QED
    BY <1>0, <2>1, <2>2 DEF StartKept
<1>5. CASE Restart
  BY <1>5 DEF Restart, StartKept
<1>6. CASE Quiet
  BY <1>0, <1>6 DEF Quiet, navVars, StartKept
<1>7. ASSUME NEW r \in Screens, OpenLogin(r) \/ OpenSendMail(r) \/ Unmount(r)
      PROVE  StartKept'
  <2>1. CASE Unmount(r)
    BY <1>0, <2>1 DEF Unmount, Dispose, StartKept, history
  <2>2. QED
    BY <1>1, <1>7, <2>1 DEF OpenLogin, OpenSendMail
<1>8. ASSUME NEW r \in Screens, NEW q \in Screens,
             \/ \E e, m \in Emails : OpenSignUp(r, e, m, q)
             \/ OpenRegister(r, q) \/ OpenCourses(r, q)
      PROVE  StartKept'
  BY <1>1, <1>8 DEF OpenSignUp, OpenRegister, OpenCourses
<1>9. ASSUME NEW r \in Screens, NEW n \in Screens, Restores(r, n) PROVE StartKept'
  BY <1>2, <1>9 DEF Restores
<1>10. ASSUME NEW c \in pending, NEW n \in Screens, SignsOut(c, n) PROVE StartKept'
  <2>1. c.screen \in Screens
    BY <1>0, CallFacts
  <2>2. QED
    BY <1>2, <1>10, <2>1 DEF SignsOut
<1>11. QED
  BY <1>0, <1>3, <1>4, <1>5, <1>6, <1>7, <1>8, <1>9, <1>10, StackSteps

LEMMA TopOnlyKept == IInv /\ [Next]_vars => TopOnly'
<1> DEFINE Single == {"signUp", "register", "courses", "sendMail"}
<1> SUFFICES ASSUME IInv, [Next]_vars, NEW t \in Screens,
                    life'[t] = "shown", kind'[t] \in Single
             PROVE  OnTop(t)'
  BY DEF TopOnly
<1>0. /\ TypeOK /\ Coherent /\ 0 \notin Screens
      /\ life[t] = "shown" /\ kind[t] \in Single => OnTop(t)
  BY StackFacts DEF IInv, TopOnly
<1>1. ASSUME NEW n \in Screens, Push(n), NEW k, NEW u, NEW m, NewScreen(n, k, u, m),
             ~OnTop(t) \/ kind[t] \notin Single
      PROVE  OnTop(t)'
  <2>1. t = n
    BY <1>0, <1>1, PushFacts, NewScreenFacts
  <2>2. QED
    BY <1>0, <1>1, <2>1, PushFacts DEF OnTop
<1>2. ASSUME NEW n \in Screens, PushReplacement(n), NEW k, NEW u, NEW m, NewScreen(n, k, u, m)
      PROVE  OnTop(t)'
  <2>1. t # n => life[t] = "shown" /\ kind[t] \in Single /\ ~OnTop(t)
    <3>1. t # n => life'[t] = IF OnTop(t) THEN "leaving" ELSE life[t]
      BY <1>0, <1>2, ReplaceFacts
    <3>2. t # n => kind'[t] = kind[t]
      BY <1>0, <1>2, NewScreenFacts
    <3>3. QED
      BY <3>1, <3>2
  <2>2. QED
    BY <1>0, <1>2, <2>1, ReplaceFacts DEF OnTop
<1>3. ASSUME NEW c \in pending, NEW u, NEW n \in Screens, EndsSignUp(c, u, n)
      PROVE  OnTop(t)'
  BY <1>0, <1>3, OntoFacts DEF EndsSignUp, OnTop
<1>4. CASE GoBack
  <2>1. Pop /\ kind' = kind
    BY <1>4 DEF GoBack, screenVars
  <2>2. life[t] = "shown" /\ ~OnTop(t)
    BY <1>0, <2>1, PopFacts
  <2>3. QED
    BY <1>0, <2>1, <2>2
<1>5. CASE Restart
  BY <1>5 DEF Restart
<1>6. CASE Quiet
  BY <1>0, <1>6 DEF Quiet, navVars, OnTop
<1>7. ASSUME NEW r \in Screens, OpenLogin(r) \/ OpenSendMail(r) PROVE OnTop(t)'
  <2>1. ~OnTop(t)
    BY <1>0, <1>7 DEF OpenLogin, OpenSendMail, OnTop
  <2>2. QED
    BY <1>1, <1>7, <2>1 DEF OpenLogin, OpenSendMail
<1>8. ASSUME NEW r \in Screens, Unmount(r) PROVE OnTop(t)'
  <2>1. /\ stack' = stack /\ kind' = [kind EXCEPT ![r] = "none"]
        /\ life' = [life EXCEPT ![r] = "gone"]
    BY <1>8 DEF Unmount, Dispose
  <2>2. t # r /\ life'[t] = life[t] /\ kind'[t] = kind[t]
    BY <1>0, <2>1 DEF TypeOK, NavTypeOK
  <2>3. QED
    BY <1>0, <2>1, <2>2 DEF OnTop
<1>9. ASSUME NEW r \in Screens, NEW q \in Screens,
             \/ \E e, m \in Emails : OpenSignUp(r, e, m, q)
             \/ OpenRegister(r, q) \/ OpenCourses(r, q)
      PROVE  OnTop(t)'
  <2>1. /\ Push(q) /\ OnTop(r) /\ kind[r] \notin Single
        /\ \E k, u, m : NewScreen(q, k, u, m)
    BY <1>9 DEF OpenSignUp, OpenRegister, OpenCourses, Ready, Shows
  <2>2. ~OnTop(t) \/ kind[t] \notin Single
    BY <1>0, <2>1, OnTopShows DEF OnTop
  <2>3. QED
    BY <1>1, <2>1, <2>2
<1>10. ASSUME NEW r \in Screens, NEW n \in Screens, Restores(r, n) PROVE OnTop(t)'
  BY <1>2, <1>10 DEF Restores
<1>11. ASSUME NEW c \in pending, NEW n \in Screens, SignsOut(c, n) PROVE OnTop(t)'
  BY <1>2, <1>11 DEF SignsOut
<1>12. QED
  BY <1>0, <1>3, <1>4, <1>5, <1>6, <1>7, <1>8, <1>9, <1>10, <1>11, StackSteps

LEMMA NearTopKept == IInv /\ [Next]_vars => ProfileNearTop'
<1> DEFINE Over == {"register", "courses"}
<1> SUFFICES ASSUME IInv, [Next]_vars, NoSlips', NEW i \in 1..Len(stack'),
                    stack'[i] \in Screens, kind'[stack'[i]] = "profile", i # Len(stack')
             PROVE  /\ i = Len(stack') - 1 /\ Last(stack') \in Screens
                    /\ kind'[Last(stack')] \in Over
  BY DEF ProfileNearTop
<1> DEFINE Near == /\ i = Len(stack') - 1 /\ Last(stack') \in Screens
                   /\ kind'[Last(stack')] \in Over
<1>0. /\ TypeOK /\ Coherent /\ CallsFit /\ TopOnly /\ 0 \notin Screens
      /\ Len(stack) \in Nat /\ stack' \in Seq(Base \union Screens) /\ Len(stack') \in Nat
      /\ stack # <<>> /\ Len(stack) > 0 /\ Last(stack) = stack[Len(stack)]
  BY NavKept, StackFacts DEF IInv, NavTypeOK, StartKept
<1>1. CASE Restart
  BY <1>1 DEF Restart
<1> DEFINE t == stack'[i]
<1>2. ASSUME ~Restart, i \in 1..Len(stack), t = stack[i], kind[t] = "profile"
      PROVE  \/ i = Len(stack)
             \/ /\ i = Len(stack) - 1 /\ Last(stack) \in Screens
                /\ kind[Last(stack)] \in Over
  <2>1. NoSlips
    BY <1>0, <1>2, SlipsStay
  <2>2. QED
    BY <1>2, <2>1 DEF IInv, ProfileNearTop
<1>3. ASSUME NEW n \in Screens, life[n] = "unopened", NEW k, NEW u, NEW m,
             NewScreen(n, k, u, m), i \in 1..Len(stack), t = stack[i]
      PROVE  kind[t] = "profile" /\ life[t] = "shown"
  <2>1. life[t] = "shown" /\ t \in Screens
    BY <1>0, <1>3, StackFacts
  <2>2. t # n
    BY <1>3, <2>1
  <2>3. QED
    BY <1>0, <1>3, <2>1, <2>2, NewScreenFacts
<1>4. ASSUME ~Restart, NEW n \in Screens, Push(n), NEW k, NEW u, NEW m, NewScreen(n, k, u, m),
             Last(stack) \in Screens => kind[Last(stack)] \notin Over,
             \/ Last(stack) \in Screens => kind[Last(stack)] # "profile"
             \/ k \in Over
      PROVE  Near
  <2>1. /\ Len(stack') = Len(stack) + 1 /\ Last(stack') = n /\ kind'[n] = k
        /\ \A j \in 1..Len(stack) : stack'[j] = stack[j]
    BY <1>0, <1>4, PushFacts, NewScreenFacts
  <2>2. i \in 1..Len(stack) /\ t = stack[i]
    BY <1>0, <2>1
  <2>3. kind[t] = "profile"
    BY <1>3, <1>4, <2>2 DEF Push
  <2>4. i = Len(stack) /\ t = Last(stack)
    BY <1>0, <1>2, <1>4, <2>2, <2>3
  <2>5. QED
    BY <1>0, <1>4, <2>1, <2>3, <2>4
<1>5. ASSUME ~Restart, NEW n \in Screens, PushReplacement(n), NEW k, NEW u, NEW m,
             NewScreen(n, k, u, m)
      PROVE  /\ i \in 1..Len(stack) /\ i # Len(stack) /\ t = stack[i]
             /\ kind[t] = "profile" /\ life[t] = "shown" /\ ~OnTop(t)
             /\ Last(stack) \in Screens /\ kind[Last(stack)] \in Over
  <2>1. /\ Len(stack') = Len(stack)
        /\ \A j \in 1..(Len(stack) - 1) : stack'[j] = stack[j]
    BY <1>0, <1>5, ReplaceFacts
  <2>2. i \in 1..Len(stack) /\ i # Len(stack) /\ t = stack[i]
    BY <1>0, <2>1
  <2>3. kind[t] = "profile" /\ life[t] = "shown"
    BY <1>3, <1>5, <2>2 DEF PushReplacement
  <2>4. ~OnTop(t)
    <3>0. Len(stack) \in 1..Len(stack) /\ i \in 1..Len(stack) /\ i # Len(stack)
      BY <1>0, <2>2
    <3>1. stack[i] # stack[Len(stack)]
      <4>1. \A a, b \in 1..Len(stack) : stack[a] = stack[b] => a = b
        BY <1>0, StackFacts
      <4>2. QED
        BY <3>0, <4>1
    <3>2. QED
      BY <1>0, <2>2, <3>1 DEF OnTop
  <2>5. QED
    BY <1>2, <1>5, <2>2, <2>3, <2>4
<1>6. ASSUME ~Restart, NEW r \in Screens, NEW n \in Screens, Restores(r, n) PROVE FALSE
  <2>1. life[t] = "shown" /\ kind[t] = "profile" /\ ~OnTop(t)
    BY <1>5, <1>6 DEF Restores
  <2>2. ~OverProfile
    BY <1>6 DEF Restores, NoSlips
  <2>3. QED
    BY <2>1, <2>2 DEF OverProfile
<1>7. ASSUME ~Restart, NEW c \in pending, NEW n \in Screens, SignsOut(c, n) PROVE FALSE
  <2>1. Last(stack) \in Screens /\ kind[Last(stack)] \in Over
    BY <1>5, <1>7 DEF SignsOut
  <2>2. OnTop(c.screen)
    BY <1>7 DEF SignsOut, SignsFor, NoSlips
  <2>3. kind[c.screen] = "profile"
    BY <1>0, <1>7 DEF SignsOut, CallsFit, Caller, Builds, SignUpCalls
  <2>4. QED
    BY <2>1, <2>2, <2>3 DEF OnTop
<1>8. ASSUME NEW c \in pending, NEW u, NEW n \in Screens, EndsSignUp(c, u, n) PROVE FALSE
  <2>1. stack' = <<0, n>> \/ stack' = <<n>>
    BY <1>0, <1>8, OntoFacts DEF EndsSignUp
  <2>2. \A j \in 1..Len(stack') : j = Len(stack') \/ stack'[j] = 0
    <3>1. CASE stack' = <<0, n>>
      <4>1. Len(stack') = 2 /\ stack'[1] = 0
        BY <3>1
      <4>2. QED
        BY <4>1
    <3>2. CASE stack' = <<n>>
      <4>1. Len(stack') = 1
        BY <3>2
      <4>2. QED
        BY <4>1
    <3>3. QED
      BY <2>1, <3>1, <3>2
  <2>3. QED
    BY <1>0, <2>2
<1>9. ASSUME ~Restart, GoBack PROVE FALSE
  <2>1. Pop /\ kind' = kind
    BY <1>9 DEF GoBack, screenVars
  <2>2. /\ Len(stack') = Len(stack) - 1
        /\ \A j \in 1..(Len(stack) - 1) : stack'[j] = stack[j]
    BY <1>0, <2>1, PopFacts
  <2>3. i \in 1..Len(stack) /\ t = stack[i] /\ kind[t] = "profile"
    BY <1>0, <2>1, <2>2
  <2>4. QED
    BY <1>0, <1>2, <1>9, <2>2, <2>3
<1>10. ASSUME ~Restart, Quiet PROVE Near
  <2>1. stack' = stack /\ kind' = kind
    BY <1>10 DEF Quiet, navVars
  <2>2. QED
    BY <1>2, <1>10, <2>1
<1>11. ASSUME ~Restart, NEW r \in Screens, Unmount(r) PROVE Near
  <2>1. stack' = stack /\ kind' = [kind EXCEPT ![r] = "none"] /\ life[r] = "leaving"
    BY <1>11 DEF Unmount, Dispose
  <2>2. t \in Screens /\ t # r /\ kind[t] = "profile"
    BY <1>0, <2>1 DEF TypeOK
  <2>3. i = Len(stack) - 1 /\ Last(stack) \in Screens /\ kind[Last(stack)] \in Over
    BY <1>2, <1>11, <2>1, <2>2
  <2>4. Last(stack) # r
    BY <1>0, <2>1, <2>3, StackFacts
  <2>5. QED
    BY <1>0, <2>1, <2>3, <2>4 DEF TypeOK
<1>12. ASSUME ~Restart, NEW r \in Screens, OpenLogin(r) \/ OpenSendMail(r) PROVE Near
  <2>1. Last(stack) \notin Screens
    BY <1>0, <1>12 DEF OpenLogin, OpenSendMail, OnTop
  <2>2. QED
    BY <1>4, <1>12, <2>1 DEF OpenLogin, OpenSendMail
<1>13. ASSUME ~Restart, NEW r \in Screens, NEW q \in Screens,
              \/ \E e, m \in Emails : OpenSignUp(r, e, m, q)
              \/ OpenRegister(r, q) \/ OpenCourses(r, q)
       PROVE  Near
  <2>1. /\ Push(q) /\ Last(stack) = r
        /\ \/ /\ kind[r] = "login"
              /\ \E e, m \in Emails : NewScreen(q, "signUp", e, m)
           \/ /\ kind[r] = "profile"
              /\ \E k \in Over : \E m : NewScreen(q, k, Null, m)
    BY <1>13 DEF OpenSignUp, OpenRegister, OpenCourses, Ready, Shows, OnTop
  <2>2. QED
    BY <1>4, <1>13, <2>1
<1>14. QED
  BY <1>0, <1>1, <1>6, <1>7, <1>8, <1>9, <1>10, <1>11, <1>12, <1>13, StackSteps

-----------------------------------------------------------------------------
(* Whose profile it is. *)

(* Who is signed in changes by a sign-up and a sign-out. *)
LEMMA SessionsChange ==
  ASSUME [Next]_vars
  PROVE  UNCHANGED currentUser \/ \E c \in pending : CreateReturns(c) \/ SignedOut(c)
BY DEF Next, vars, GoBack, Restart, OpenLogin, OpenSendMail, Unmount, Initialized,
       TapSignIn, Retype, RetypeMatric, OpenSignUp, TapSignUp, TapSignUpInvalid,
       OpenRegister, OpenCourses, TapVerify,
       TapRefresh, TapSignOut, SignInRefused, ServiceCreates, CreateFails, SignUpEnds,
       Verified, VerifyThrows, Refreshed, SignOutThrows, authVars

(* What a screen that stays shown says changes by typing and refreshing. *)
LEMMA ShownScreens ==
  ASSUME IInv, [Next]_vars, ~Restart, NEW t \in Screens, life[t] = "shown", life'[t] = "shown"
  PROVE  /\ kind'[t] = kind[t]
         /\ \/ user'[t] = user[t]
            \/ kind[t] = "signUp"
            \/ /\ kind[t] = "profile" /\ user'[t] = currentUser /\ currentUser # Null
               /\ UNCHANGED currentUser
<1> DEFINE Same == kind'[t] = kind[t] /\ user'[t] = user[t]
<1>0. TypeOK /\ Coherent /\ CallsFit
  BY DEF IInv
<1>1. ASSUME NEW n \in Screens, Push(n) \/ PushReplacement(n) \/ PushOntoStart(n),
             NEW k, NEW u, NEW m, NewScreen(n, k, u, m)
      PROVE  Same
  <2>1. t # n
    BY <1>1 DEF Push, PushReplacement, PushOntoStart, PushOnto
  <2>2. QED
    BY <1>0, <1>1, <2>1, NewScreenFacts
<1>2. UNCHANGED screenVars => Same
  BY DEF screenVars
<1>3. ASSUME NEW r \in Screens,
             \/ OpenLogin(r) \/ OpenSendMail(r)
             \/ \E e, m \in Emails, q \in Screens : OpenSignUp(r, e, m, q)
             \/ \E q \in Screens : OpenRegister(r, q) \/ OpenCourses(r, q)
      PROVE  Same
  <2>1. \E n \in Screens : \E k, u, m : Push(n) /\ NewScreen(n, k, u, m)
    BY <1>3 DEF OpenLogin, OpenSendMail, OpenSignUp, OpenRegister, OpenCourses
  <2>2. QED
    BY <1>1, <1>2, <2>1
<1>4. ASSUME NEW c \in pending, Initialized(c) \/ SignUpEnds(c) \/ SignedOut(c)
      PROVE  Same
  <2>1. \/ UNCHANGED screenVars
        \/ \E n \in Screens : \E k, u, m :
              (PushReplacement(n) \/ PushOntoStart(n)) /\ NewScreen(n, k, u, m)
    BY <1>4 DEF Initialized, SignUpEnds, SignedOut
  <2>2. QED
    BY <1>1, <1>2, <2>1
<1>5. ASSUME NEW r \in Screens, Unmount(r) PROVE Same
  <2>1. t # r
    BY <1>5 DEF Unmount, Dispose
  <2>2. QED
    BY <1>0, <1>5, <2>1 DEF Unmount, TypeOK
<1>6. ASSUME NEW r \in Screens, NEW e \in Emails, Retype(r, e) \/ RetypeMatric(r, e)
      PROVE  kind'[t] = kind[t] /\ (user'[t] = user[t] \/ kind[t] = "signUp")
  BY <1>0, <1>6 DEF Retype, RetypeMatric, Shows, TypeOK
<1>7. ASSUME NEW c \in pending, Refreshed(c)
      PROVE  /\ kind'[t] = kind[t]
             /\ \/ user'[t] = user[t]
                \/ /\ kind[t] = "profile" /\ user'[t] = currentUser /\ currentUser # Null
                   /\ UNCHANGED currentUser
  <2>1. /\ kind' = kind /\ UNCHANGED currentUser /\ c.op = "refresh"
        /\ \/ user' = user
           \/ currentUser # Null /\ user' = [user EXCEPT ![c.screen] = currentUser]
    BY <1>7 DEF Refreshed, authVars
  <2>2. Mounted(t) /\ t = c.screen => kind[t] = "profile"
    BY <1>0, <2>1 DEF CallsFit, Caller, Builds, SignUpCalls
  <2>3. QED
    BY <1>0, <2>1, <2>2 DEF TypeOK, Mounted
<1>8. ASSUME NEW r \in Screens,
             \/ \E e \in Emails : TapSignIn(r, e)
             \/ TapSignUp(r) \/ TapSignUpInvalid(r) \/ TapVerify(r)
             \/ TapRefresh(r) \/ TapSignOut(r)
      PROVE  UNCHANGED screenVars
  BY <1>8 DEF TapSignIn, TapSignUp, TapSignUpInvalid, TapVerify, TapRefresh, TapSignOut
<1>9. ASSUME NEW c \in pending,
             \/ SignInRefused(c) \/ ServiceCreates(c) \/ CreateFails(c)
             \/ CreateReturns(c) \/ Verified(c) \/ VerifyThrows(c) \/ SignOutThrows(c)
      PROVE  UNCHANGED screenVars
  BY <1>9 DEF SignInRefused, ServiceCreates, CreateFails, CreateReturns, Verified,
              VerifyThrows, SignOutThrows
<1>10. GoBack \/ UNCHANGED vars => UNCHANGED screenVars
  BY DEF GoBack, vars
<1>11. QED
  BY <1>2, <1>3, <1>4, <1>5, <1>6, <1>7, <1>8, <1>9, <1>10 DEF Next

(* Without a slip, no form and no profile is shown under another.          *)
LEMMA OnTopAlone ==
  ASSUME IInv, NoSlips, NEW r \in Screens, OnTop(r),
         NEW t \in Screens, life[t] = "shown", kind[t] \in {"profile", "signUp"},
         kind[r] \in {"signUp", "profile"}
  PROVE  t = r
<1>0. TypeOK /\ Coherent /\ TopOnly /\ Len(stack) \in Nat
  BY StackFacts DEF IInv
<1>1. CASE kind[t] # "profile"
  BY <1>0, <1>1, OnTopShows DEF TopOnly
<1>2. CASE kind[t] = "profile"
  <2>1. PICK i \in 1..Len(stack) : stack[i] = t
    BY <1>0, StackFacts
  <2>2. Last(stack) = r /\ stack[Len(stack)] = r
    BY <1>0, OnTopShows DEF OnTop
  <2>3. i = Len(stack) \/ kind[Last(stack)] \in {"register", "courses"}
    BY <1>2, <2>1 DEF IInv, ProfileNearTop
  <2>4. QED
    BY <2>1, <2>2, <2>3
<1>3. QED
  BY <1>1, <1>2

(* Without a slip, the screen that signs someone in or out is on top. *)
LEMMA SignsOnTop ==
  ASSUME IInv, NoSlips', NEW c \in pending, CreateReturns(c) \/ SignedOut(c)
  PROVE  /\ c.screen \in Screens /\ OnTop(c.screen) /\ Mounted(c.screen)
         /\ CreateReturns(c) => kind[c.screen] = "signUp" /\ c.op = "created"
         /\ SignedOut(c) => kind[c.screen] = "profile" /\ c.op = "signOut"
<1>0. TypeOK /\ Coherent /\ CallsFit /\ c.screen \in Screens
  BY CallFacts DEF IInv
<1>1. OnTop(c.screen)
  BY DEF CreateReturns, SignedOut, SignsFor, NoSlips
<1>2. Mounted(c.screen)
  BY <1>0, <1>1, OnTopShows
<1>3. CreateReturns(c) => Caller(c.op) = "signUp" /\ c.op = "created"
  BY DEF CreateReturns, Caller, Builds, SignUpCalls
<1>4. SignedOut(c) => Caller(c.op) = "profile" /\ c.op = "signOut"
  BY DEF SignedOut, Caller, Builds, SignUpCalls
<1>5. kind[c.screen] = Caller(c.op)
  BY <1>0, <1>2 DEF CallsFit
<1>6. QED
  BY <1>0, <1>1, <1>2, <1>3, <1>4, <1>5

(* Only a sign-up that was answered goes on to the profile. *)
LEMMA UpdatesChange ==
  ASSUME TypeOK, [Next]_vars, NEW d \in pending' \ pending, d.op = "update"
  PROVE  \E c \in pending : CreateReturns(c) /\ d = [c EXCEPT !.op = "update"]
<1>1. ASSUME NEW c \in pending, CreateReturns(c) PROVE d = [c EXCEPT !.op = "update"]
  BY <1>1 DEF CreateReturns
<1>2. ASSUME NEW c \in pending, ServiceCreates(c) PROVE FALSE
  <2>1. [c EXCEPT !.op = "created"].op = "created"
    BY CallFacts DEF Ops, SignUpCalls
  <2>2. QED
    BY <1>2, <2>1 DEF ServiceCreates
<1>3. ASSUME NEW r, NEW op, NEW e, Ask(r, op, e) PROVE op = "update"
  <2>1. PICK n \in 1..MaxPending : d = Call(n, r, op, e)
    BY <1>3, AskFacts
  <2>2. QED
    BY <2>1 DEF Call
<1>4. ASSUME NEW r \in Screens,
             \/ OpenLogin(r) \/ TapSignUp(r) \/ TapVerify(r) \/ TapRefresh(r)
             \/ TapSignOut(r)
      PROVE  FALSE
  BY <1>3, <1>4 DEF OpenLogin, TapSignUp, TapVerify, TapRefresh, TapSignOut
<1>5. ASSUME NEW r \in Screens, NEW e \in Emails, TapSignIn(r, e) PROVE FALSE
  <2>1. PICK n, m \in 1..MaxPending :
          d = SignInCall(n, r, e) \/ d = Call(m, r, "initialize", Null)
    BY <1>5, SignInFacts
  <2>2. SignInCall(n, r, e).op = "signIn" /\ Call(m, r, "initialize", Null).op = "initialize"
    BY DEF SignInCall, Call
  <2>3. QED
    BY <2>1, <2>2
<1>6. ASSUME NEW c \in pending, SignInRefused(c) PROVE FALSE
  BY <1>6, RefusedFacts DEF Builds
<1>7. ASSUME NEW c \in pending, SignedOut(c) PROVE FALSE
  <2>1. \A n : Call(c.nth, n, "initialize", Null).op = "initialize"
    BY DEF Call
  <2>2. QED
    BY <1>7, <2>1 DEF SignedOut
<1>8. ASSUME NEW c \in pending,
             \/ Initialized(c) \/ CreateFails(c) \/ SignUpEnds(c) \/ Verified(c)
             \/ VerifyThrows(c) \/ Refreshed(c) \/ SignOutThrows(c)
      PROVE  FALSE
  BY <1>8 DEF Initialized, CreateFails, SignUpEnds, Verified, VerifyThrows, Refreshed,
              SignOutThrows, Answer
<1>9. ASSUME NEW r \in Screens,
             \/ OpenSendMail(r) \/ Unmount(r)
             \/ \E e \in Emails : Retype(r, e) \/ RetypeMatric(r, e)
             \/ \E e, m \in Emails, q \in Screens : OpenSignUp(r, e, m, q)
             \/ TapSignUpInvalid(r)
             \/ \E q \in Screens : OpenRegister(r, q) \/ OpenCourses(r, q)
      PROVE  FALSE
  BY <1>9 DEF OpenSendMail, Unmount, Retype, RetypeMatric, OpenSignUp, TapSignUpInvalid,
              OpenRegister, OpenCourses
<1>10. GoBack \/ Restart \/ UNCHANGED vars => FALSE
  BY DEF GoBack, Restart, vars
<1>11. QED
  BY <1>1, <1>2, <1>4, <1>5, <1>6, <1>7, <1>8, <1>9, <1>10 DEF Next

(* Without a slip no other session begins, and none ends, as long as a     *)
(* sign-up that was answered waits for its profile.                        *)
LEMMA SignUpsKept == IInv /\ [Next]_vars => SignUpsFit'
<1> SUFFICES ASSUME IInv, [Next]_vars, NoSlips', NEW d \in pending', d.op = "update",
                    Mounted(d.screen)'
             PROVE  currentUser' = d.email
  BY DEF SignUpsFit, Mounted
<1>0. TypeOK /\ Coherent /\ CallsFit
  BY DEF IInv
<1>1. ~Restart
  BY DEF Restart
<1>2. NoSlips
  BY <1>0, <1>1, SlipsStay
<1>3. CASE d \notin pending
  <2>1. PICK c \in pending : CreateReturns(c) /\ d = [c EXCEPT !.op = "update"]
    BY <1>0, <1>3, UpdatesChange
  <2>2. d.email = c.email
    BY <1>0, <2>1, CallFacts DEF Ops, SignUpCalls
  <2>3. QED
    BY <2>1, <2>2 DEF CreateReturns
<1>4. CASE d \in pending
  <2>1. d.screen \in Screens /\ life[d.screen] # "unopened" /\ d.email \in Emails
    BY <1>0, <1>4, CallFacts DEF CallsFit, SignUpCalls
  <2>2. PICK r \in Screens : r = d.screen
    BY <2>1
  <2>3. Mounted(r)
    BY <1>0, <1>1, <2>1, <2>2, LivesGoOn DEF Mounted
  <2>4. currentUser = d.email
    BY <1>2, <1>4, <2>2, <2>3 DEF IInv, SignUpsFit
  <2>5. ASSUME NEW c \in pending, CreateReturns(c) PROVE currentUser' = d.email
    <3>1. ~Awaited(c.email) /\ currentUser' = c.email
      BY <2>5 DEF CreateReturns, SignsFor, NoSlips
    <3>2. QED
      BY <1>4, <3>1 DEF Awaited
  <2>6. ASSUME NEW c \in pending, SignedOut(c) PROVE FALSE
    <3>1. ~Awaited(Null)
      BY <2>6 DEF SignedOut, SignsFor, NoSlips
    <3>2. d.email = Null
      BY <1>4, <3>1 DEF Awaited
    <3>3. QED
      BY <2>1, <3>2, EmailsAssumption
  <2>7. QED
    BY <2>4, <2>5, <2>6, SessionsChange
<1>5. QED
  BY <1>3, <1>4

LEMMA OwnKept == IInv /\ [Next]_vars => ProfileIsOwn'
<1> SUFFICES ASSUME IInv, [Next]_vars, NoSlips', NEW t \in Screens, life'[t] = "shown",
                    kind'[t] = "profile"
             PROVE  user'[t] = currentUser' /\ user'[t] # Null
  BY DEF ProfileIsOwn, NoSlips
<1> DEFINE Own == user'[t] = currentUser' /\ user'[t] # Null
<1>0. TypeOK /\ Coherent /\ CallsFit /\ TopOnly
  BY DEF IInv
<1>1. ~Restart
  BY DEF Restart
<1>2. NoSlips
  BY <1>0, <1>1, SlipsStay
<1>3. \A s \in Screens :
        life[s] = "shown" /\ kind[s] = "profile" => user[s] = currentUser /\ user[s] # Null
  BY <1>2 DEF IInv, ProfileIsOwn, NoSlips
<1>4. CASE life[t] = "shown"
  <2>1. /\ kind'[t] = kind[t] /\ kind[t] = "profile"
        /\ \/ user'[t] = user[t]
           \/ /\ kind[t] = "profile" /\ user'[t] = currentUser /\ currentUser # Null
              /\ UNCHANGED currentUser
    BY <1>1, <1>4, ShownScreens
  <2>2. CASE UNCHANGED currentUser
    BY <1>3, <1>4, <2>1, <2>2
  <2>3. ASSUME NEW c \in pending, CreateReturns(c) PROVE FALSE
    <3>1. c.screen \in Screens /\ OnTop(c.screen) /\ kind[c.screen] = "signUp"
      BY <2>3, SignsOnTop
    <3>2. t = c.screen
      BY <1>2, <1>4, <2>1, <3>1, OnTopAlone
    <3>3. QED
      BY <2>1, <3>1, <3>2
  <2>4. ASSUME NEW c \in pending, SignedOut(c) PROVE FALSE
    <3>1. c.screen \in Screens /\ OnTop(c.screen) /\ Mounted(c.screen)
          /\ kind[c.screen] = "profile"
      BY <2>4, SignsOnTop
    <3>2. t = c.screen
      BY <1>2, <1>4, <2>1, <3>1, OnTopAlone
    <3>3. PICK n \in Screens : PushReplacement(n)
      BY <2>4, <3>1 DEF SignedOut
    <3>4. t # n
      BY <1>4, <3>3 DEF PushReplacement
    <3>5. life'[t] = "leaving"
      BY <1>0, <3>1, <3>2, <3>3, <3>4, ReplaceFacts
    <3>6. QED
      BY <3>5
  <2>5. QED
    BY <2>1, <2>2, <2>3, <2>4, SessionsChange
<1>5. CASE life[t] # "shown"
  <2>1. life[t] = "unopened"
    BY <1>0, <1>1, <1>5, LivesGoOn
  <2>2. ASSUME NEW n \in Screens, Opened(n) PROVE t = n
    BY <1>5, <2>2 DEF Opened
  <2>3. ASSUME NEW r \in Screens, NEW n \in Screens,
               \/ OpenLogin(n) \/ OpenSendMail(n)
               \/ \E e, m \in Emails : OpenSignUp(r, e, m, n)
               \/ OpenRegister(r, n) \/ OpenCourses(r, n)
        PROVE  FALSE
    <3>1. PICK k \in {"login", "sendMail", "signUp", "register", "courses"} :
            Push(n) /\ \E u, m : NewScreen(n, k, u, m)
      BY <2>3 DEF OpenLogin, OpenSendMail, OpenSignUp, OpenRegister, OpenCourses
    <3>2. t = n
      BY <1>0, <2>2, <3>1, PushFacts
    <3>3. kind'[t] = k
      BY <1>0, <3>1, <3>2, NewScreenFacts
    <3>4. QED
      BY <3>1, <3>3
  <2>6. ASSUME NEW r \in Screens, NEW n \in Screens, Restores(r, n) PROVE Own
    <3>1. t = n
      BY <1>0, <2>2, <2>6, ReplaceFacts DEF Restores
    <3>2. user'[t] = currentUser
      BY <1>0, <2>6, <3>1, NewScreenFacts DEF Restores
    <3>3. QED
      BY <2>6, <3>2 DEF Restores
  <2>7. ASSUME NEW c \in pending, NEW n \in Screens, SignsOut(c, n) PROVE Own
    <3>1. t = n
      BY <1>0, <2>2, <2>7, ReplaceFacts DEF SignsOut
    <3>2. kind'[t] = "login"
      BY <1>0, <2>7, <3>1, NewScreenFacts DEF SignsOut
    <3>3. QED
      BY <3>2
  <2>8. ASSUME NEW c \in pending, NEW u \in {currentUser, c.email}, NEW n \in Screens,
               EndsSignUp(c, u, n)
        PROVE  Own
    <3>1. t = n
      BY <1>0, <2>2, <2>8, OntoFacts DEF EndsSignUp
    <3>2. user'[t] = u
      BY <1>0, <2>8, <3>1, NewScreenFacts DEF EndsSignUp
    <3>4. currentUser = c.email
      BY <1>2, <2>8 DEF IInv, SignUpsFit, EndsSignUp
    <3>5. currentUser' = currentUser /\ u # Null
      BY <2>8 DEF EndsSignUp
    <3>6. QED
      BY <2>8, <3>2, <3>4, <3>5
  <2>9. GoBack \/ Quiet => FALSE
    BY <1>0, <1>5, <2>1, PopFacts DEF GoBack, Quiet, navVars
  <2>10. ASSUME NEW r \in Screens, Unmount(r) PROVE FALSE
    BY <1>0, <1>5, <2>10 DEF Unmount, Dispose, TypeOK, NavTypeOK
  <2>11. QED
    BY <1>0, <1>1, <2>3, <2>6, <2>7, <2>8, <2>9, <2>10, StackSteps
<1>6. QED
  BY <1>4, <1>5

-----------------------------------------------------------------------------
LEMMA InitIInv == Init => IInv
<1> SUFFICES ASSUME Init PROVE IInv
  OBVIOUS
<1>1. 0 \in Base /\ 0 \notin Screens
  BY RoutesAssumption, NavigatorAssumption
<1>2. /\ stack = <<0>> /\ DOMAIN stack = {1} /\ stack[1] = 0 /\ Len(stack) = 1
      /\ life = [r \in Screens |-> "unopened"]
  BY DEF Init
<1>3. NavTypeOK
  BY <1>1, <1>2 DEF NavTypeOK
<1>4. TypeOK
  BY <1>3 DEF Init, TypeOK, Kinds
<1>5. Coherent /\ StartKept
  BY <1>1, <1>2 DEF Coherent, StartKept
<1>6. CallsFit /\ Accounts /\ Spinning
  BY DEF Init, CallsFit, Accounts, OneReply, UserHasAccount, Spinning, SpinnersStop
<1>7. TopOnly /\ ProfileNearTop /\ SignUpsFit /\ ProfileIsOwn
  BY <1>1, <1>2 DEF Init, TopOnly, ProfileNearTop, SignUpsFit, ProfileIsOwn
<1>8. QED
  BY <1>4, <1>5, <1>6, <1>7 DEF IInv

LEMMA NextIInv == IInv /\ [Next]_vars => IInv'
<1> SUFFICES ASSUME IInv, [Next]_vars PROVE IInv'
  OBVIOUS
<1>1. TypeOK' /\ Coherent'
  BY NextTyped, NavKept DEF IInv
<1>2. CallsFit' /\ Accounts' /\ Spinning' /\ StartKept'
  BY CallsKept, AccountsKept, SpinningKept, StartStays
<1>3. TopOnly' /\ ProfileNearTop' /\ SignUpsFit' /\ ProfileIsOwn'
  BY TopOnlyKept, NearTopKept, SignUpsKept, OwnKept
<1>4. QED
  BY <1>1, <1>2, <1>3 DEF IInv

(* The invariant holds however the handlers of the screens overlap. *)
THEOREM Invariance == Spec => []IInv
<1>1. QED
  BY InitIInv, NextIInv, PTL DEF Spec

(* Every screen, call, spinner and session is one of those there are. *)
THEOREM TypeCorrect == Spec => []TypeOK
<1>1. IInv => TypeOK
  BY DEF IInv
<1>2. QED
  BY <1>1, Invariance, PTL

(* The start screen is lost to none but a screen that is being left        *)
(* (_initializeFirebase, Sign up, Sign out).                               *)
THEOREM StartStaysBelow == Spec => []StartKept
<1>1. IInv => StartKept
  BY DEF IInv
<1>2. QED
  BY <1>1, Invariance, PTL

(* But for the slips named, every profile shown is that of the student     *)
(* signed in (_initializeFirebase, Sign up, refreshUser, Sign out).        *)
THEOREM ProfilesAreOwn == Spec => []ProfileIsOwn
<1>1. IInv => ProfileIsOwn
  BY DEF IInv
<1>2. QED
  BY <1>1, Invariance, PTL

(* Whoever is signed in or has a profile has an account, whatever await    *)
(* the app dies in (registerUsingEmailPassword).                           *)
THEOREM UsersHaveAccounts == Spec => []UserHasAccount
<1>1. IInv => UserHasAccount
  BY DEF IInv, Accounts
<1>2. QED
  BY <1>1, Invariance, PTL

(* No spinner turns for a call that was answered, but those an invalid     *)
(* form or an exception has left on (setState in the four handlers).       *)
THEOREM SpinnersDoStop == Spec => []SpinnersStop
<1>1. IInv => SpinnersStop
  BY DEF IInv, Spinning
<1>2. QED
  BY <1>1, Invariance, PTL

-----------------------------------------------------------------------------
(* The refinement of StudentAccounts. *)

LEMMA StepsSeen == IInv /\ [Next]_vars => [Students!Next]_Students!vars
<1> SUFFICES ASSUME IInv, [Next]_vars PROVE [Students!Next]_Students!vars
  OBVIOUS
<1>1. /\ TypeOK /\ CallsFit /\ OneReply
      /\ \A d \in pending : d.op = "created" => d.email \in accounts
  BY DEF IInv, Accounts
<1>2. ASSUME NEW c \in pending, ServiceCreates(c) PROVE Students!Next
  <2> DEFINE reply == [c EXCEPT !.op = "created"]
  <2>1. /\ c.op = "create" /\ c.email \notin accounts
        /\ accounts' = accounts \union {c.email} /\ currentUser' = currentUser
        /\ pending' = (pending \ {c}) \union {reply}
    BY <1>2 DEF ServiceCreates
  <2>2. reply.op = "created" /\ reply.email = c.email /\ c.email \in Emails
    BY <1>1, <2>1, CallFacts DEF CallsFit, Ops, SignUpCalls
  <2> HIDE DEF reply
  <2>3. Replying' = Replying \union {c.email}
    BY <2>1, <2>2 DEF Replying
  <2>4. Students!Register(c.email)
    BY <2>1, <2>3 DEF Students!Register
  <2>5. QED
    BY <2>2, <2>4 DEF Students!Next
<1>3. ASSUME NEW c \in pending, CreateReturns(c) PROVE Students!Next
  <2> DEFINE rest == [c EXCEPT !.op = "update"]
  <2>1. /\ c.op = "created" /\ currentUser' = c.email /\ accounts' = accounts
        /\ pending' = (pending \ {c}) \union {rest}
    BY <1>3 DEF CreateReturns
  <2>2. rest.op = "update" /\ c.email \in Emails
    BY <1>1, <2>1, CallFacts DEF CallsFit, Ops, SignUpCalls
  <2> HIDE DEF rest
  <2>3. c.email \in Replying
    BY <2>1 DEF Replying
  <2>4. Replying' = Replying \ {c.email}
    <3>1. \A d \in pending \ {c} : d.op = "created" => d.email # c.email
      BY <1>1, <2>1 DEF OneReply
    <3>2. QED
      BY <2>1, <2>2, <3>1 DEF Replying
  <2>5. Students!Begin(c.email)
    BY <2>1, <2>3, <2>4 DEF Students!Begin
  <2>6. QED
    BY <2>2, <2>5 DEF Students!Next
<1>4. CASE \A c \in pending : ~ServiceCreates(c) /\ ~CreateReturns(c)
  <2>1. /\ accounts' = accounts
        /\ \A d \in pending' : d.op = "created" => d \in pending
        /\ \/ currentUser' = currentUser
           \/ /\ currentUser' = Null
              /\ \A d \in pending : d.op = "created" => d \in pending'
    BY <1>1, <1>4, OtherSteps
  <2>2. Replying' \subseteq Replying
    BY <2>1 DEF Replying
  <2>3. CASE currentUser' = currentUser
    BY <2>1, <2>2, <2>3 DEF Students!Lose, Students!Next
  <2>4. ASSUME currentUser' = Null, \A d \in pending : d.op = "created" => d \in pending'
        PROVE  Students!Next
    <3>1. Replying' = Replying
      BY <2>2, <2>4 DEF Replying
    <3>2. QED
      BY <2>1, <2>4, <3>1 DEF Students!End, Students!Next
  <2>5. QED
    BY <2>1, <2>3, <2>4
<1>5. QED
  BY <1>2, <1>3, <1>4

(* A student's session begins once, with the reply to the sign-up that     *)
(* made the account, and never again after it has ended or that reply was  *)
(* lost, over restarts and however sign-ups, restored sessions and         *)
(* sign-outs overlap (createUserWithEmailAndPassword, signOut).            *)
THEOREM Refinement == Spec => ImplementsAccounts
<1>1. Init => Students!Init
  BY DEF Init, Students!Init, Replying
<1>2. QED
  BY <1>1, StepsSeen, Invariance, PTL DEF Spec, ImplementsAccounts, Students!Spec
=============================================================================
