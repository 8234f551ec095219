SPECIFICATION FairSpec
CONSTANTS
  NsPerSec = 8
  MsPerSec = 4
  TimeRange = 16
  Calendars <- MCCalendars
  Systems <- OnApple
  Durations <- MCDurations
  CallWindow = 5
  MaxCalls = 2
  MaxLate = 2
  MaxSignals = 1
PROPERTY StopLeavesUsable
CHECK_DEADLOCK FALSE
