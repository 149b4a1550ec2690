SPECIFICATION Spec
CONSTANTS
  Types = {"Receive"}
  MaxLead = 1
  MaxResets = 0
  MaxDeaths = 0
  Timeouts = TRUE
INVARIANTS StoppedHandler
