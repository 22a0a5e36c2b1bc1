SPECIFICATION Spec
CONSTANTS
  FileReqTime = 1
  StepTime = 2
  Timeout = 4
  WaitTime = 4
  FinalTime = 5
  ProbeTime = 5
  HealthTime = 5
  LostLimit = 2
  ByteMod = 4
  CountMod = 4
  MaxLag = 0
  Names = {"alpha"}
  Nodes = {1}
  NameOf <- MCNameOf
  MaxDeviceCount = 2
  NumMod = 4
  FirstNumbers = {0}
  Horizon = 5
  Files <- MCFiles
  CallbackFiles = {}
  Periods = {}
  Broadcasts = {FALSE}
  MaxProbeAll = 1
  MaxQueue = 0
  MaxTelem = 0
  Codes = {"Ok", "Error"}
  Lossy = TRUE
  Timely = TRUE
  Mortal = {}
INVARIANTS
  FinalizeCountsChunks
