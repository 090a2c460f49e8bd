SPECIFICATION SingleSpec
CONSTANTS N = 3
          Blank = {}
          Procs = 2
          MayFail = FALSE
          Configured = TRUE
INVARIANT UdpBinaryFound
