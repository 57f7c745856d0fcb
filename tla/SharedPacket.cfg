SPECIFICATION Spec
CONSTANTS
  None = None
  PipeRequests <- MCPipeRequests
  PipeAnswerSizes <- MCPipeAnswerSizes
  PipeBufSize = 3
  PipeSizes = {1, 2}
  PipeMaxSetups = 3
  HubPorts = {1, 2}
  HubAddrs = {1, 2}
  HubWrites <- MCHubWrites
  HubPlugs = 2
  IrqEnables <- MCIrqEnables
  IrqCycles = {1, 2}
  IrqInterval = 1
  IrqFrameTime = 3
  IrqLag = 2
  IrqMaxRemaining = 4
  PacketEds = {"bulk", "ctl", "keys"}
  PacketDevices = {"msd", "other"}
  PacketDev <- MCPacketDev
  PacketKind <- MCPacketKind
  PacketAnswers <- MCPacketAnswers
  PacketMaxTds = 2
  EyeToyLength <- MCEyeToyLength
  EyeToyFrames = 3
  EyeToyPacket = 3
  EyeToyHeader = 1
  EyeToyBuffer = 9
  EyeToySizes = {3}
  SensorRegs = {0, 18, 48}
  SensorBeyond = 255
  SensorCommon = 18
  SensorDefaults <- MCSensorDefaults
  SensorValues = {1, 2}
  SensorReset = 128
  V4l2Frames = 3
  V4l2Opens = 3
  V4l2Unplugs = TRUE
  DshowFrames = 3
  DshowFails = TRUE
INVARIANT SetupFindsPacketFree
