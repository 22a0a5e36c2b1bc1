SPECIFICATION Spec
CONSTANTS
  FileReqTime = 1
  StepTime = 2
  Timeout = 3
  WaitTime = 3
  FinalTime = 4
  ProbeTime = 4
  HealthTime = 4
  LostLimit = 2
  ByteMod = 4
  CountMod = 4
  MaxLag = 0
  Names = {"alpha"}
  Nodes = {1}
  NameOf <- MCNameOf
  MaxDeviceCount = 3
  NumMod = 4
  FirstNumbers = {0}
  Horizon = 4
  Files = {}
  CallbackFiles = {}
  Periods = {}
  Broadcasts = {FALSE}
  MaxProbeAll = 2
  MaxQueue = 1
  MaxTelem = 0
  Codes = {"Ok", "Error"}
  Lossy = TRUE
  Timely = FALSE
  Mortal = {}
INVARIANTS
  TypeOK
  AnswersFit
PROPERTY NumbersStayFree
