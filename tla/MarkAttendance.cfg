\* Safety, refinement and an action property: two pictures, two taps.
SPECIFICATION Spec
CONSTANTS
  s1 = s1
  s2 = s2
  c1 = c1
  c2 = c2
  ada = ada
  ben = ben
  Screens <- MCScreens
  Base = {}
  Sends <- MCSends
  Students <- MCStudents
  Confidences <- MCConfidences
  Signed = ada
  YetToBeTaken = YetToBeTaken
  Null = Null
INVARIANTS
  TypeOK
  RowsRecognised
  OneRowPerSend
  ToldTheTruth
  ScreenShowsOneAnswer
PROPERTIES
  ImplementsLedger
  RunsOnlyAdvance
\* The user may stop tapping, and taps are bounded.
CHECK_DEADLOCK FALSE
