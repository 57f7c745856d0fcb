SPECIFICATION FairSpec
CONSTANTS
  None = None
  Parts = {"pointer", "pulse", "v4l2", "dshow", "packet"}
PROPERTIES WaitingEnds
CHECK_DEADLOCK FALSE
