SPECIFICATION FairSpec
CONSTANTS
  NsPerSec = 8
  MsPerSec = 4
  TimeRange = 16
  Calendars <- MCCalendars
  Systems <- MCSystems
  Durations <- MCDurations
  CallWindow = 5
  MaxCalls = 2
  MaxLate = 2
  MaxSignals = 1
INVARIANTS
  RemainingNeverOverstates
  FiredIsInactive
  MsClockFollowsClock
PROPERTIES
  SleepNotEarly
  CallbackNotEarly
  StartFires
CHECK_DEADLOCK FALSE
