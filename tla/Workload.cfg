SPECIFICATION FairDeliverySpec
CONSTANTS
  FileReqTime = 1
  StepTime = 2
  Timeout = 4
  WaitTime = 4
  FinalTime = 5
  ProbeTime = 5
  HealthTime = 5
  LostLimit = 2
  ByteMod = 4
  CountMod = 4
  MaxLag = 0
  Names = {"alpha"}
  Nodes = {1}
  NameOf <- MCNameOf
  MaxDeviceCount = 2
  NumMod = 4
  FirstNumbers = {0}
  Horizon = 5
  Files <- MCTwoFiles
  CallbackFiles <- MCFiles
  Periods = {3, 5}
  Broadcasts = {FALSE}
  MaxProbeAll = 1
  MaxQueue = 1
  MaxTelem = 1
  Codes = {"Ok", "Error", "Wait", "Busy"}
  Lossy = FALSE
  Timely = TRUE
  Mortal = {}
PROPERTIES
  TransfersEnd
  QueuesDrain
  UnitsArePolled
  FailsOnlyRefused
