\* What a text on the screen says and the code does not do.
SPECIFICATION Spec
CONSTANTS
  ada = ada
  ben = ben
  MaxRoutes = 3
  MaxPending = 2
  Screens <- MCScreens
  Base <- MCBase
  Emails <- MCEmails
  Null = Null
INVARIANTS
  SignsInWithWhatWasEntered
\* Routes are bounded.
CHECK_DEADLOCK FALSE
