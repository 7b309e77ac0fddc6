CONSTANTS
  MinutesPerHour = 2
  HoursPerDay = 4
  DaysPerWeek = 3
  DaysBefore <- MCDaysBefore
  LongestMonth = 4
  SearchYears = 1
  MaxInt = 31
  Setups <- WestSetups
  Interval = 2
  StartTime = 8
  EndTime = 20
SPECIFICATION FairSpec
CHECK_DEADLOCK FALSE
PROPERTIES
  NextReturns
