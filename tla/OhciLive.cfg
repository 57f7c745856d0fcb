SPECIFICATION FairSpec
CONSTANTS
  e1 = e1
  e2 = e2
  t1 = t1
  t2 = t2
  d1 = d1
  Eds <- MCEds
  Tds = {t1}
  NoEd = NoEd
  NoTd = NoTd
  ListOf <- MCPeriodic
  Devices = {d1}
  DeviceOf <- MCDeviceOf
  DelayInts = {2}
  MaxPackets = 2
  ListChoices = {{"periodic"}, {"periodic", "bulk"}}
  StateChoices = {"RESET", "RESUME", "OPERATIONAL"}
  DeviceCodes = {"STALL"}
  ReclaimStates = {"RESET"}
PROPERTY WaitersAreServed
