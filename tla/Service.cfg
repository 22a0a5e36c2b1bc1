SPECIFICATION FairSpec
CONSTANTS
  FileReqTime = 1
  StepTime = 2
  Timeout = 4
  WaitTime = 4
  FinalTime = 5
  ProbeTime = 5
  HealthTime = 5
  LostLimit = 2
  ByteMod = 4
  CountMod = 4
  MaxLag = 0
  Names = {"alpha", "beta"}
  Nodes = {1, 2}
  NameOf <- MCNameOf
  MaxDeviceCount = 3
  NumMod = 9
  FirstNumbers = {0, 7}
  Horizon = 5
  Files = {}
  CallbackFiles = {}
  Periods = {}
  Broadcasts = {TRUE, FALSE}
  MaxProbeAll = 1
  MaxQueue = 0
  MaxTelem = 0
  Codes = {"Ok", "Error"}
  Lossy = FALSE
  Timely = TRUE
  Mortal = {2}
INVARIANTS
  RegistryOK
  NoFalseLoss
PROPERTIES
  DiscoveryCompletes
  SilentLeavesService
  ReturnsToService
