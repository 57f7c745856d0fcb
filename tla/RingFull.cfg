SPECIFICATION Spec
CONSTANTS
  Capacities = {3}
  Bytes = 6
  ReserveAnyTime = FALSE
PROPERTY RoomIsKept
