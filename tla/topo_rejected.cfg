SPECIFICATION PingSpec
CONSTANTS Files <- MCNetworks
          Maps <- MCMaps
          Check = TRUE
          IfaceWrap = 4
          LoWrap = 4
          U32 = 1000000
INVARIANT RejectedNeverRuns
