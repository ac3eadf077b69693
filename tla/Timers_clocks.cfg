SPECIFICATION FairSpec
CONSTANTS
  StartedBy = "test"
  MaxToken = 5
  MaxStatus = 3
  MaxSpinners = 3
INVARIANTS ClocksTick
PROPERTIES StatusOutlivesOlderExpiries StatusExpires StartupEnds
