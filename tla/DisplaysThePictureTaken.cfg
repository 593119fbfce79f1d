\* What a comment in the code says and the code does not do.
SPECIFICATION Spec
CONSTANTS
  v1 = v1
  v2 = v2
  p1 = p1
  p2 = p2
  u1 = u1
  u2 = u2
  u3 = u3
  Screens <- MCScreens
  Base <- MCBase
  Visits <- MCVisits
  Shots <- MCShots
  Uploads <- MCUploads
  Start = Start
  Profile = Profile
  Null = Null
INVARIANTS
  DisplaysThePictureTaken
\* The user may stop tapping, and taps are bounded.
CHECK_DEADLOCK FALSE
