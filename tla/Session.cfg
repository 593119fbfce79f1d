\* Two students and three screens.
SPECIFICATION Spec
CONSTANTS
  ada = ada
  ben = ben
  MaxRoutes = 3
  MaxPending = 2
  Screens <- MCScreens
  Base <- MCBase
  Emails <- MCEmails
  Null = Null
SYMMETRY MCSymmetry
INVARIANTS
  TypeOK
  StartKept
  ProfileIsOwn
  UserHasAccount
  SpinnersStop
PROPERTIES
  ImplementsAccounts
\* Routes are bounded.
CHECK_DEADLOCK FALSE
