SPECIFICATION Spec
CONSTANTS
  None = None
  LifeObjects = {o1, o2}
  LifeTypes = {"pad", "msd", "camera"}
  LifeReattached = {"msd"}
  LifeSizeless = {"camera"}
  LifeData = {"d0", "d1"}
  LifeConfs <- MCConfs
  LifeDialogs = {"gtk", "windows"}
  LifeDriven = {0}
  LifeAgain = FALSE
  ConfigTypes = {"pad", "mic"}
  ConfigApis <- MCApis
  ConfigSubtypes <- MCSubtypes
  ConfigFiles <- MCFiles
  ConfigBuilds = {"gtk", "windows"}
  SoundsBuilds = {"gtk", "windows"}
  SoundsSources = {"mic", "line"}
  SoundsSinks = {"speaker"}
  SoundsMaxLength = 1
  SoundsLengths = {0, 3}
  PadPorts = {0, 1}
  PadTypes = {"pad"}
  PadControls = {"steering", "cross"}
  PadSteering = "steering"
  PadFiltered = {"steering"}
  PadDevices = {"keyboard", "wheel"}
  PadJoysticks = {"wheel"}
  PadXInput = {}
  PadEffects = {"constant"}
  PadSupports <- MCSupports
  PadPulled = {"wheel"}
  PadListens = 1
  ThreadOpens = 4
  ThreadPrompt = FALSE
  WasapiShared = TRUE
  SourceRates = {}
  SinkRates = {8}
  DeviceRates = {48}
  WasapiRoom = 2
  WasapiMaxLosses = 2
  PulseAsserts = FALSE
  PulseMaxLosses = 2
  LibUsers = {"headset", "microphone"}
  LibObjects = 2
  LibFunctions = 3
  LibInstalled = {0, 2, 3}
  LibMaxCount = 8
INVARIANT LoadedIndexInBounds
