\* Two taps on a course, two pictures, one tap on Send.
SPECIFICATION Spec
CONSTANTS
  t1 = t1
  t2 = t2
  p1 = p1
  p2 = p2
  c1 = c1
  ada = ada
  Taps <- MCTaps
  Shots <- MCShots
  Screens <- MCScreens
  Base <- MCBase
  Distances <- MCDistances
  Courses = Courses
  Sends <- MCSends
  Students <- MCStudents
  Confidences <- MCConfidences
  Signed = ada
  YetToBeTaken = YetToBeTaken
  Null = Null
SYMMETRY MCSymmetry
INVARIANTS
  TypeOK
  RowsFromConfirmedTaps
  CoursesStays
  DialogsAreClosed
  ScreensInOrder
PROPERTIES
  ImplementsAttendance
  ImplementsGate
  DialogsLeftOnStay
\* The taps run out, and a dialog may stay.
CHECK_DEADLOCK FALSE
