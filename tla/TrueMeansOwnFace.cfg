\* What a comment in the code says and the code does not do.
SPECIFICATION Spec
CONSTANTS
  s1 = s1
  s2 = s2
  c1 = c1
  c2 = c2
  ada = ada
  ben = ben
  Screens <- MCOneScreen
  Base = {}
  Sends <- MCSends
  Students <- MCStudents
  Confidences <- MCConfidences
  Signed = ada
  YetToBeTaken = YetToBeTaken
  Null = Null
INVARIANTS
  TrueMeansOwnFace
\* The user may stop tapping, and taps are bounded.
CHECK_DEADLOCK FALSE
