SPECIFICATION MCSpec
CONSTANTS
  Scene = {"A"}
  MaxEdits = 2
  MaxRev = 4
  MaxMishaps = 1
  MaxFlights = 1
PROPERTY NoLostUpdate
CHECK_DEADLOCK FALSE
