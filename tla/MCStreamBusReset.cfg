SPECIFICATION FairSpec
CONSTANTS
  Types = {"Receive"}
  MaxLead = 1
  MaxResets = 1
  MaxDeaths = 0
  Timeouts = FALSE
PROPERTIES BusResetHandled
