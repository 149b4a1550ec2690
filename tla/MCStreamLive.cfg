SPECIFICATION FairSpec
CONSTANTS
  Types = {"Receive", "Transmit"}
  MaxLead = 2
  MaxResets = 0
  MaxDeaths = 1
  Timeouts = FALSE
PROPERTIES LeavesPeriodLoop RunningStops IsDiagram
