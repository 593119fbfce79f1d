------------------------------ MODULE Session ------------------------------
(***************************************************************************)
(* Who is signed in and which screens show: the start screen               *)
(* (lib/getting_started_sreen.dart), LoginScreen, SignUp and ProfilePage   *)
(* (lib/Register/), FireAuth (lib/utils/firebase_auth.dart), and the       *)
(* screen for lecturers, SendMail (lib/to_csv.dart), which keeps no state  *)
(* and whose button does nothing.                                          *)
(*                                                                         *)
(* Every handler here awaits Firebase and then acts on the Navigator, on   *)
(* the route that is on top by then, or on its screen's state.  Screens    *)
(* are numbered in the order they are pushed; 0 is the start screen.       *)
(* Firebase keeps the signed-in user over restarts of the app; the routes  *)
(* are gone.  A student is named by the email.  The matric number of the   *)
(* form is another field, and may be the number of any student.            *)
(***************************************************************************)
EXTENDS Navigator

CONSTANTS MaxRoutes,   \* bound: routes pushed over the life of the app
          MaxPending,  \* bound: calls unanswered at a time
          Emails,      \* the students
          Null

ASSUME RoutesAssumption == /\ MaxRoutes \in Nat /\ MaxPending \in Nat
                           /\ Screens = 1..MaxRoutes
                           /\ Base = {0}
ASSUME EmailsAssumption == Null \notin Emails /\ "" \notin Emails

VARIABLES
  kind,         \* what each screen is
  user,         \* _currentUser of a profile, the email typed into a SignUp
  matnumber,    \* whose matric number is typed into a SignUp, or was given to
                \*   a profile or a camera to register with
  spinning,     \* the spinners that turn: a screen and what it waits for
  stuck,        \* history: those left on by an invalid form or an exception
  pending,      \* the calls that have not been answered
  currentUser,  \* FirebaseAuth.instance.currentUser
  accounts,     \* the accounts the Firebase service has
  late,         \* history: a screen being left has acted on the Navigator
  astray        \* history: a session began or ended under another screen or
                \*   while someone else's sign-up waited for the profile, or
                \*   was restored over a profile

screenVars == <<kind, user, matnumber>>
waitVars   == <<spinning, stuck>>
authVars   == <<currentUser, accounts>>
history    == <<late, astray>>
vars == <<navVars, screenVars, waitVars, pending, authVars, history>>

Kinds == {"none", "login", "signUp", "profile", "register", "courses", "sendMail"}

(* The builds of a LoginScreen call initializeApp: the last build did      *)
(* "initialize", those before it are "superseded".                         *)
Builds == {"initialize", "superseded"}
SignUpCalls == {"create", "created", "update"}
Ops == Builds \union SignUpCalls \union {"signIn", "signOut", "verify", "refresh"}

(* What a call is about, and the email in the form when it was made.  The  *)
(* numbers tell apart the calls that are pending.                          *)
Calls == [nth: 1..MaxPending, screen: Screens, op: Ops,
          email: Emails \union {"", Null}, typed: Emails \union {Null}]
Call(n, r, op, e) == [nth |-> n, screen |-> r, op |-> op, email |-> e, typed |-> e]

Spinners == Screens \X {"signIn", "create", "verify", "signOut"}

TypeOK ==
  /\ NavTypeOK
  /\ kind \in [Screens -> Kinds]
  /\ user \in [Screens -> Emails \union {Null}]
  /\ matnumber \in [Screens -> Emails \union {Null}]
  /\ spinning \subseteq Spinners
  /\ stuck \subseteq spinning
  /\ pending \subseteq Calls
  /\ currentUser \in Emails \union {Null}
  /\ accounts \subseteq Emails
  /\ late \in BOOLEAN /\ astray \in BOOLEAN

Init ==
  /\ stack = <<0>>
  /\ life = [r \in Screens |-> "unopened"]
  /\ kind = [r \in Screens |-> "none"]
  /\ user = [r \in Screens |-> Null]
  /\ matnumber = [r \in Screens |-> Null]
  /\ spinning = {}
  /\ stuck = {}
  /\ pending = {}
  /\ currentUser = Null
  /\ accounts = {}
  /\ late = FALSE /\ astray = FALSE

-----------------------------------------------------------------------------
(* The new screen r is of kind k, for the user u and the matric number m. *)
NewScreen(r, k, u, m) ==
  /\ \A q \in Screens : q < r => life[q] # "unopened"
  /\ kind' = [kind EXCEPT ![r] = k]
  /\ user' = [user EXCEPT ![r] = u]
  /\ matnumber' = [matnumber EXCEPT ![r] = m]

Shows(r, k) == r \in Screens /\ OnTop(r) /\ kind[r] = k

ActsFor(r) == late' = (late \/ life[r] = "leaving")

(* The session of u begins for the screen r, or it ends and u is nobody. *)
Awaited(u)     == \E c \in pending : c.op = "update" /\ c.email # u
SignsFor(r, u) == astray' = (astray \/ ~OnTop(r) \/ Awaited(u))
OverProfile    == \E p \in Screens : life[p] = "shown" /\ kind[p] = "profile" /\ ~OnTop(p)

(* A call is made, whatever other calls are pending; and it is answered.   *)
Free == {n \in 1..MaxPending : \A c \in pending : c.nth # n}
Ask(r, op, e) == \E n \in Free : /\ \A m \in Free : n <= m
                                 /\ pending' = pending \union {Call(n, r, op, e)}
Answer(c) == c \in pending /\ pending' = pending \ {c}

Spin(r, op) == spinning' = spinning \union {<<r, op>>} /\ UNCHANGED stuck
Stop(r, op) == spinning' = spinning \ {<<r, op>>} /\ stuck' = stuck \ {<<r, op>>}

(* An exception, or return, past the setState that stops the spinner. *)
LeaveSpinning(r, op) ==
  /\ stuck' = stuck \union ({<<r, op>>} \intersect spinning)
  /\ UNCHANGED spinning

-----------------------------------------------------------------------------
(* The start screen, Back, and the end of a run of the app. *)

OpenLogin(r) ==
  /\ OnTop(0)
  /\ Push(r) /\ NewScreen(r, "login", Null, Null)
  /\ Ask(r, "initialize", Null)
  /\ UNCHANGED <<waitVars, authVars, history>>

OpenSendMail(r) ==
  /\ OnTop(0)
  /\ Push(r) /\ NewScreen(r, "sendMail", Null, Null)
  /\ UNCHANGED <<waitVars, pending, authVars, history>>

GoBack ==
  /\ Len(stack) > 1
  /\ Pop
  /\ UNCHANGED <<screenVars, waitVars, pending, authVars, history>>

(* The screen's state goes with it. *)
Unmount(r) ==
  /\ Dispose(r)
  /\ kind' = [kind EXCEPT ![r] = "none"]
  /\ user' = [user EXCEPT ![r] = Null]
  /\ matnumber' = [matnumber EXCEPT ![r] = Null]
  /\ spinning' = {x \in spinning : x[1] # r}
  /\ stuck' = {x \in stuck : x[1] # r}
  /\ UNCHANGED <<pending, authVars, history>>

(* The app is left or killed and started again: replies are lost. *)
Restart ==
  /\ stack # <<0>>
  /\ stack' = <<0>>
  /\ life' = [r \in Screens |-> "unopened"]
  /\ kind' = [r \in Screens |-> "none"]
  /\ user' = [r \in Screens |-> Null]
  /\ matnumber' = [r \in Screens |-> Null]
  /\ spinning' = {}
  /\ stuck' = {}
  /\ pending' = {}
  /\ late' = FALSE /\ astray' = FALSE
  /\ UNCHANGED authVars

-----------------------------------------------------------------------------
(* LoginScreen.  Every build calls _initializeFirebase anew; the form is   *)
(* there when the call of the last build has been answered.                *)

Ready(r) == /\ Shows(r, "login")
            /\ \A c \in pending : c.screen = r => c.op # "initialize"

(* The calls, now that r is built again. *)
Superseded(r) ==
  {IF c.screen = r /\ c.op = "initialize" THEN [c EXCEPT !.op = "superseded"] ELSE c :
     c \in pending}

(* Firebase is there.  Whoever is signed in gets a profile without matric  *)
(* number in place of the route on top.  Nothing happens if nobody is, if  *)
(* initializeApp fails, or if the screen is unmounted and context throws.  *)
Initialized(c) ==
  LET r == c.screen IN
  /\ c.op \in Builds
  /\ Answer(c)
  /\ \/ /\ Mounted(r) /\ currentUser # Null
        /\ \E n \in Screens : /\ PushReplacement(n)
                              /\ NewScreen(n, "profile", currentUser, Null)
        /\ ActsFor(r)
        /\ astray' = (astray \/ OverProfile)
     \/ UNCHANGED <<navVars, screenVars, history>>
  /\ UNCHANGED <<waitVars, authVars>>

(* What is sent are the texts of two controllers that no field of the form *)
(* has, so they are empty.                                                 *)
SignInCall(n, r, e) ==
  [nth |-> n, screen |-> r, op |-> "signIn", email |-> "", typed |-> e]

(* The form is valid.  setState builds anew. *)
TapSignIn(r, e) ==
  /\ Ready(r)
  /\ \E n, m \in Free :
        /\ n < m
        /\ pending' = pending \union {SignInCall(n, r, e), Call(m, r, "initialize", Null)}
  /\ Spin(r, "signIn")
  /\ UNCHANGED <<navVars, screenVars, authVars, history>>

(* No account has an empty email: the service refuses, the exception is    *)
(* printed, and nobody is signed in.  The screen is built again.  setState *)
(* throws if unmounted, and an exception of another kind ends the handler  *)
(* before it.                                                              *)
SignInRefused(c) ==
  LET r == c.screen IN
  /\ c \in pending /\ c.op = "signIn"
  /\ \/ /\ Mounted(r)
        /\ pending' = (Superseded(r) \ {c}) \union {Call(c.nth, r, "initialize", Null)}
        /\ Stop(r, "signIn")
     \/ /\ pending' = pending \ {c}
        /\ LeaveSpinning(r, "signIn")
  /\ UNCHANGED <<navVars, screenVars, authVars, history>>

OpenSignUp(r, e, m, q) ==
  /\ Ready(r)
  /\ Push(q) /\ NewScreen(q, "signUp", e, m)
  /\ UNCHANGED <<waitVars, pending, authVars, history>>

-----------------------------------------------------------------------------
(* SignUp and registerUsingEmailPassword. *)

(* The fields can be changed at any time, also while a sign-up waits. *)
Retype(r, e) ==
  /\ Shows(r, "signUp")
  /\ user[r] # e
  /\ user' = [user EXCEPT ![r] = e]
  /\ UNCHANGED <<navVars, kind, matnumber, waitVars, pending, authVars, history>>

RetypeMatric(r, m) ==
  /\ Shows(r, "signUp")
  /\ matnumber[r] # m
  /\ matnumber' = [matnumber EXCEPT ![r] = m]
  /\ UNCHANGED <<navVars, kind, user, waitVars, pending, authVars, history>>

TapSignUp(r) ==
  /\ Shows(r, "signUp")
  /\ Ask(r, "create", user[r])
  /\ Spin(r, "create")
  /\ UNCHANGED <<navVars, screenVars, authVars, history>>

(* The spinner starts before the form is validated. *)
TapSignUpInvalid(r) ==
  /\ Shows(r, "signUp")
  /\ spinning' = spinning \union {<<r, "create">>}
  /\ stuck' = stuck \union {<<r, "create">>}
  /\ UNCHANGED <<navVars, screenVars, pending, authVars, history>>

(* Mutant: the service makes an account again for one who has it. *)
ServiceCreatesAgain(c) ==
  LET reply == [c EXCEPT !.op = "created"] IN
  /\ c \in pending /\ c.op = "create"
  /\ accounts' = accounts \union {c.email}
  /\ pending' = (pending \ {c}) \union {reply}
  /\ UNCHANGED <<navVars, screenVars, waitVars, currentUser, history>>

(* The service makes the account; the reply is on its way. *)
ServiceCreates(c) ==
  LET reply == [c EXCEPT !.op = "created"] IN
  /\ c \in pending /\ c.op = "create"
  /\ c.email \notin accounts
  /\ accounts' = accounts \union {c.email}
  /\ pending' = (pending \ {c}) \union {reply}
  /\ UNCHANGED <<navVars, screenVars, waitVars, currentUser, history>>

(* The setState after registerUsingEmailPassword; it throws if unmounted. *)
StopSigningUp(r) ==
  IF Mounted(r) THEN Stop(r, "create") ELSE UNCHANGED waitVars

(* Mutant: the spinner is stopped only for a new user. *)
CreateFailsSpinning(c) ==
  /\ c.op \in {"create", "created"}
  /\ Answer(c)
  /\ UNCHANGED <<navVars, screenVars, waitVars, authVars, history>>

(* The end of the handler without a user: the email is in use, or the      *)
(* request or its reply is lost, which is caught and printed.              *)
CreateFails(c) ==
  /\ c.op \in {"create", "created"}
  /\ Answer(c)
  /\ StopSigningUp(c.screen)
  /\ UNCHANGED <<navVars, screenVars, authVars, history>>

(* Mutant: the user is signed in before the service has made the account. *)
CreateReturnsEarly(c) ==
  /\ c \in pending /\ c.op = "create"
  /\ currentUser' = c.email
  /\ pending' = (pending \ {c}) \union {[c EXCEPT !.op = "update"]}
  /\ SignsFor(c.screen, c.email)
  /\ UNCHANGED <<navVars, screenVars, waitVars, accounts, late>>

(* The reply signs the new user in, before the profile is updated. *)
CreateReturns(c) ==
  /\ c \in pending /\ c.op = "created"
  /\ currentUser' = c.email
  /\ pending' = (pending \ {c}) \union {[c EXCEPT !.op = "update"]}
  /\ SignsFor(c.screen, c.email)
  /\ UNCHANGED <<navVars, screenVars, waitVars, accounts, late>>

(* Mutant: pushAndRemoveUntil with a predicate that keeps no route. *)
PushOntoNothing(n) == PushOnto(n, n)

(* pushAndRemoveUntil ModalRoute.withName('/'). *)
PushOntoStart(n) == PushOnto(0, n)

(* updateProfile and reload return, and then the user is the current one,  *)
(* or fail, and then it is still the one created.  The profile, with the   *)
(* matric number that is in its field by now, replaces all routes over the *)
(* start screen, unless there is no user any more or the screen is         *)
(* unmounted.                                                              *)
SignUpEnds(c) ==
  LET r == c.screen IN
  \E u \in {currentUser, c.email} :
    /\ c.op = "update"
    /\ Answer(c)
    /\ StopSigningUp(r)
    /\ \/ /\ Mounted(r) /\ u # Null
          /\ \E n \in Screens : PushOntoStart(n) /\ NewScreen(n, "profile", u, matnumber[r])
          /\ ActsFor(r)
       \/ /\ ~Mounted(r) \/ u = Null
          /\ UNCHANGED <<navVars, screenVars, late>>
    /\ UNCHANGED <<authVars, astray>>

-----------------------------------------------------------------------------
(* ProfilePage. *)

OpenRegister(r, q) ==
  /\ Shows(r, "profile")
  /\ Push(q) /\ NewScreen(q, "register", Null, matnumber[r])
  /\ UNCHANGED <<waitVars, pending, authVars, history>>

OpenCourses(r, q) ==
  /\ Shows(r, "profile")
  /\ Push(q) /\ NewScreen(q, "courses", Null, Null)
  /\ UNCHANGED <<waitVars, pending, authVars, history>>

(* The spinner takes the place of Verify email and refresh, if it turns. *)
TapVerify(r) ==
  /\ Shows(r, "profile")
  /\ <<r, "verify">> \notin spinning
  /\ Ask(r, "verify", user[r])
  /\ Spin(r, "verify")
  /\ UNCHANGED <<navVars, screenVars, authVars, history>>

(* sendEmailVerification returns, or throws and leaves the spinner. *)
Verified(c) ==
  /\ c.op = "verify"
  /\ Answer(c)
  /\ IF Mounted(c.screen) THEN Stop(c.screen, "verify") ELSE UNCHANGED waitVars
  /\ UNCHANGED <<navVars, screenVars, authVars, history>>

VerifyThrows(c) ==
  /\ c.op = "verify"
  /\ Answer(c)
  /\ LeaveSpinning(c.screen, "verify")
  /\ UNCHANGED <<navVars, screenVars, authVars, history>>

TapRefresh(r) ==
  /\ Shows(r, "profile")
  /\ <<r, "verify">> \notin spinning
  /\ Ask(r, "refresh", user[r])
  /\ UNCHANGED <<navVars, screenVars, waitVars, authVars, history>>

(* refreshUser: the profile becomes that of whoever is signed in by now.   *)
(* Nothing happens if nobody is, if reload or setState throws.             *)
Refreshed(c) ==
  LET r == c.screen IN
  /\ c.op = "refresh"
  /\ Answer(c)
  /\ \/ /\ Mounted(r) /\ currentUser # Null
        /\ user' = [user EXCEPT ![r] = currentUser]
     \/ UNCHANGED user
  /\ UNCHANGED <<navVars, kind, matnumber, waitVars, authVars, history>>

(* The button stays while the spinner shows: it can be tapped again. *)
TapSignOut(r) ==
  /\ Shows(r, "profile")
  /\ Ask(r, "signOut", Null)
  /\ Spin(r, "signOut")
  /\ UNCHANGED <<navVars, screenVars, authVars, history>>

SignOutThrows(c) ==
  /\ c.op = "signOut"
  /\ Answer(c)
  /\ LeaveSpinning(c.screen, "signOut")
  /\ UNCHANGED <<navVars, screenVars, authVars, history>>

(* Mutant: the profile stays on the stack under the login screen. *)
SignedOutPushing(c) ==
  LET r == c.screen IN
  /\ c \in pending /\ c.op = "signOut"
  /\ Mounted(r)
  /\ currentUser' = Null
  /\ Stop(r, "signOut")
  /\ \E n \in Screens :
        /\ Push(n) /\ NewScreen(n, "login", Null, Null)
        /\ pending' = (pending \ {c}) \union {Call(c.nth, n, "initialize", Null)}
  /\ ActsFor(r)
  /\ UNCHANGED <<accounts, astray>>

(* Mutant: the user that is signed out is left as an empty one. *)
SignedOutToEmpty(c) ==
  /\ c.op = "signOut"
  /\ Answer(c)
  /\ currentUser' = ""
  /\ UNCHANGED <<navVars, screenVars, waitVars, accounts, history>>

(* Nobody is signed in any more, and the login screen takes the place of   *)
(* the route on top; an unmounted profile throws in setState before that.  *)
SignedOut(c) ==
  LET r == c.screen IN
  /\ c \in pending /\ c.op = "signOut"
  /\ currentUser' = Null
  /\ SignsFor(r, Null)
  /\ \/ /\ Mounted(r)
        /\ Stop(r, "signOut")
        /\ \E n \in Screens :
              /\ PushReplacement(n) /\ NewScreen(n, "login", Null, Null)
              /\ pending' = (pending \ {c}) \union {Call(c.nth, n, "initialize", Null)}
        /\ ActsFor(r)
     \/ /\ ~Mounted(r)
        /\ pending' = pending \ {c}
        /\ UNCHANGED <<navVars, screenVars, waitVars, late>>
  /\ UNCHANGED accounts

-----------------------------------------------------------------------------

Next ==
  \/ GoBack
  \/ Restart
  \/ \E r \in Screens :
        \/ OpenLogin(r)
        \/ Unmount(r)
        \/ OpenSendMail(r)
        \/ \E e \in Emails :
              \/ TapSignIn(r, e)
              \/ Retype(r, e)
              \/ RetypeMatric(r, e)
              \/ \E m \in Emails, q \in Screens : OpenSignUp(r, e, m, q)
        \/ TapSignUp(r)
        \/ TapSignUpInvalid(r)
        \/ \E q \in Screens : OpenRegister(r, q) \/ OpenCourses(r, q)
        \/ TapVerify(r)
        \/ TapRefresh(r)
        \/ TapSignOut(r)
  \/ \E c \in pending :
        \/ Initialized(c)
        \/ SignInRefused(c)
        \/ ServiceCreates(c)
        \/ CreateFails(c)
        \/ CreateReturns(c)
        \/ SignUpEnds(c)
        \/ Verified(c)
        \/ VerifyThrows(c)
        \/ Refreshed(c)
        \/ SignedOut(c)
        \/ SignOutThrows(c)

Spec == Init /\ [][Next]_vars

-----------------------------------------------------------------------------

(* The start screen is lost only to handlers that act for a screen being   *)
(* left: everything else that pops or replaces a route leaves it at the    *)
(* bottom (_initializeFirebase, Sign up, Sign out).                        *)
StartKept ==
  /\ stack # <<>>
  /\ ~late => Head(stack) = 0

(* Every profile shown is that of the student signed in, however sign-ups, *)
(* restored sessions, refreshes and sign-outs overlap, and although each   *)
(* of them reads the user after an await and puts the profile on whatever  *)
(* is on top by then, for a screen that may be on its way out.  It fails   *)
(* in no case but those named: someone was signed in or out by a screen    *)
(* that was not on top, or while someone else's sign-up waited for the     *)
(* profile, or a session was restored over a profile (Sign out,            *)
(* _initializeFirebase, Sign up, refreshUser).                             *)
ProfileIsOwn ==
  ~astray =>
    \A r \in Screens :
      life[r] = "shown" /\ kind[r] = "profile" => user[r] = currentUser /\ user[r] # Null

(* Whoever is signed in has an account, although the account, the session  *)
(* and the profile screen come from different awaits of one handler, and   *)
(* the app may die between them (registerUsingEmailPassword).              *)
UserHasAccount ==
  /\ currentUser # Null => currentUser \in accounts
  /\ \A r \in Screens : kind[r] = "profile" => user[r] \in accounts

(* A spinner turns only as long as a call of its screen is under way,      *)
(* however calls overlap, except those an invalid form or an exception has *)
(* left on (setState in Sign In, Sign up, Verify email and Sign out).      *)
SpinnersStop ==
  \A x \in spinning \ stuck :
    \E c \in pending : /\ c.screen = x[1]
                       /\ IF x[2] = "create" THEN c.op \in SignUpCalls ELSE c.op = x[2]

(* The students whose account was made by a call still to be answered. *)
Replying == {c.email : c \in {c \in pending : c.op = "created"}}

Students == INSTANCE StudentAccounts WITH Students <- Emails, unclaimed <- Replying

(* A student's session begins once, with the reply to the one sign-up that *)
(* made the account.  If the reply is lost, by the network or because the  *)
(* app dies, or once someone has signed out or up after that, the student  *)
(* is never signed in again: whatever handlers overlap, nothing else       *)
(* begins a session (createUserWithEmailAndPassword, signInUsingEmailPassword, *)
(* signOut).                                                               *)
ImplementsAccounts == Students!Spec

(* "Enter your student email and password below to continue to the FRAMA   *)
(* app": a sign-in request is for the email that was entered.              *)
SignsInWithWhatWasEntered ==
  \A c \in pending : c.op = "signIn" => c.email = c.typed

(* 'Matric Number can't be empty': the camera that registers a student's   *)
(* face is given one.                                                      *)
RegistersUnderAMatricNumber ==
  \A r \in Screens : kind[r] = "register" => matnumber[r] # Null
=============================================================================
