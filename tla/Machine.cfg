SPECIFICATION FairSpec
CONSTANTS
  TickNs = 3
  Advances = {0, 1, 5}
  TimeMax = 4
  Limits = {0, 4}
PROPERTIES
  RebootIsPowerOn
  TimerWakes
  LimitStops
