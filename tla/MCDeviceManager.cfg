SPECIFICATION ManagerSpec
CONSTANTS
  ManagerSubjects = {"discovery", "streams"}
  Traits <- MCTraits
  SpecStrings <- MCStrings
  MaxResets = 2
  MaxMisses = 1
  MaxWalks = 1
  DeviceLists <- MCLists
  Family <- MCFamily
  NrChannels = 5
  MaxUnits = 4
  MaxFaults = 1
  MaxStarts = 2
  MaxSessions = 2
INVARIANTS SettledListIsBus LiveDevicesOnly NothingHeldOutside ChannelsAreOwn SessionLeavesNothing
