SPECIFICATION IsoSpec
CONSTANTS
  CYCLES_PER_SECOND = 8
  TICKS_PER_CYCLE = 2
  SECONDS = 5
  SYT_CYCLES = 4
  Start = 60
  Horizon = 100
  MaxLag = 2
  MaxLead = 1
  MaxWire = 2
  Silence = 1
  Sessions <- MCSessions
  IsoTasks = {"Receive"}
  MaxHandlers = 2
  MapSize = 2
  LateInit = FALSE
INVARIANTS PacketPlaced PresentationRebuilt SwitchOnTime DeathIsSilence MapIsCurrent
PROPERTY UpdateServed
CHECK_DEADLOCK FALSE
