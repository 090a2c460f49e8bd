SPECIFICATION ScheduleSpec
CONSTANTS Files <- MCFiles
          Maps = {}
          ByHand <- MCByHand
          Runtime = 80
          U32 = 1048576
INVARIANTS SimTypeOK
           DarkExactly
           DownAtStop
           GeneratedFailsEach
PROPERTIES DownWhileDark
           OnlyNamedFail
