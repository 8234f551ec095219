SPECIFICATION Spec
CONSTANTS
  NsPerSec = 8
  MsPerSec = 4
  TimeRange = 16
  Calendars <- MCCalendars
  Systems <- OnFreeRtos
  Durations <- MCDurations
  CallWindow = 5
  MaxCalls = 1
  MaxLate = 2
  MaxSignals = 1
PROPERTY CallbackNeverEarly
CHECK_DEADLOCK FALSE
