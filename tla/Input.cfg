SPECIFICATION Spec
CONSTANTS
  None = None
INVARIANT ReportsShowInputs
PROPERTY ForcesFollow
