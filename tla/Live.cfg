SPECIFICATION WeakSpec
CONSTANTS
  None = None
  Parts = {"interrupts", "keyboard", "thread", "rumble", "wasapi", "iso",
           "eyetoy"}
PROPERTIES ComesToAnEnd
CHECK_DEADLOCK FALSE
