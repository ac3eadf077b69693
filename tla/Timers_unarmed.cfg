SPECIFICATION Spec
CONSTANTS
  StartedBy = "main"
  MaxToken = 2
  MaxStatus = 0
  MaxSpinners = 1
INVARIANTS PollClockRuns
