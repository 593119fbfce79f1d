\* Four runs of _initCameraController and two pictures.
SPECIFICATION Spec
CONSTANTS
  i1 = i1
  i2 = i2
  i3 = i3
  i4 = i4
  p1 = p1
  p2 = p2
  NumCameras = 2
  Inits <- MCInits
  Captures <- MCCaptures
  Null = Null
SYMMETRY MCSymmetry
INVARIANTS
  TypeOK
  SwitchesInTurnAreSafe
  LeaksCountRaces
PROPERTIES
  TakenBySelectedCamera
\* The user may stop tapping, and runs are bounded.
CHECK_DEADLOCK FALSE
