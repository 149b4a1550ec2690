SPECIFICATION ManagerSpec
CONSTANTS
  ManagerSubjects = {"discovery"}
  Traits <- MCTraits
  SpecStrings <- MCStrings
  MaxResets = 1
  MaxMisses = 0
  MaxWalks = 0
  DeviceLists <- MCLists
  Family <- MCFamily
  NrChannels = 5
  MaxUnits = 4
  MaxFaults = 1
  MaxStarts = 2
  MaxSessions = 2
INVARIANT ClientUsesLive
CHECK_DEADLOCK FALSE
