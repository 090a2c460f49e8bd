SPECIFICATION ScheduleSpec
CONSTANTS Files <- MCRing
          Maps = {}
          ByHand = {}
          Runtime = 80
          U32 = 1048576
INVARIANT EveryRowFails
