\* Safety of the Courses screen.
SPECIFICATION Spec
CONSTANTS
  seat = seat
  door = door
  hall = hall
  home = home
  Places <- MCPlaces
  Metres <- MCMetres
  MaxRoutes = 4
  Null = Null
INVARIANTS
  TypeOK
  VerdictOnPosition
  PositionFromThisScreen
