\* What the form to sign up asks for and a restored session does not have.
SPECIFICATION Spec
CONSTANTS
  ada = ada
  ben = ben
  MaxRoutes = 3
  MaxPending = 2
  Screens <- MCScreens
  Base <- MCBase
  Emails <- MCEmails
  Null = Null
INVARIANTS
  RegistersUnderAMatricNumber
\* Routes are bounded.
CHECK_DEADLOCK FALSE
