\* What the README and the texts on the screen say and the code does not do.
SPECIFICATION Spec
CONSTANTS
  seat = seat
  door = door
  hall = hall
  home = home
  Places <- MCPlaces
  Metres <- MCMetres
  MaxRoutes = 4
  Null = Null
INVARIANTS
  ConfirmedMeansInClass
