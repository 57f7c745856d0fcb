SPECIFICATION Spec
CONSTANTS
  e1 = e1
  e2 = e2
  t1 = t1
  t2 = t2
  d1 = d1
  Eds <- MCEds
  Tds <- MCTds
  NoEd = NoEd
  NoTd = NoTd
  ListOf <- MCListOf
  Devices = {d1}
  DeviceOf <- MCDeviceOf
  DelayInts = {1, 7}
  MaxPackets = 1
  ListChoices = {{"bulk"}, {"control", "bulk"}}
  StateChoices = {"RESET", "OPERATIONAL"}
  DeviceCodes = {"STALL"}
  ReclaimStates = {"RESET"}
INVARIANTS TypeOK DoneCountMeansDone AsyncPacketInFlight TdInOnePlace DeviceErrorClearsCount SkippedWasSubmitted
PROPERTY FrameKeepsTds
SYMMETRY TdSymmetry
