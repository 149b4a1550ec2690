SPECIFICATION Spec
CONSTANTS
  Types = {"Receive", "Transmit"}
  MaxLead = 3
  MaxResets = 1
  MaxDeaths = 0
  Timeouts = FALSE
INVARIANTS RunsOnTime
