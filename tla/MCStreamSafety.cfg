SPECIFICATION Spec
CONSTANTS
  Types = {"Receive", "Transmit"}
  MaxLead = 1
  MaxResets = 1
  MaxDeaths = 1
  Timeouts = TRUE
INVARIANTS RunningKeepsFrames IInv
PROPERTIES XrunKept
