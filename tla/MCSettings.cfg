SPECIFICATION SettingsSpec
CONSTANTS
  SettingsSubjects = {"motu", "rme", "firmware"}
  MotuModels = {"828mk1", "896hd", "828mk2", "traveler", "ultralite", "8pre", "828mk3", "ultralitemk3", "hybrid", "travelermk3", "896mk3", "4pre"}
  MotuRows = {1}
  MotuCols = {9, 13}
  MotuFoci = {"mixer", "streams"}
  MotuRates = {44100, 96000, 192000}
  MaxMotuOps = 2
  MaxMotuFaults = 1
  RmeModels = {"ff400", "ff800"}
  RmeProcs = {"a"}
  RmeCells <- MCCells
  RmeFoci = {"settings", "mixer", "rates"}
  FwTools = {"bebob", "fireworks", "session", "dice"}
  Images = {"a", "b"}
  Pieces = 2
  EraseBlock = 2
  MaxEraseTries = 1
  MaxFwRuns = 3
  MaxFwFaults = 3
  MaxRmeOps = 4
  MaxRmeSets = 2
INVARIANTS ShownIsSet UpdateIsWhole
PROPERTY RmeLoadedIsSaved
CHECK_DEADLOCK FALSE
