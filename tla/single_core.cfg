\* Leaked permits leave main() waiting for ever (see wrapper_panic): the code
\* really stops there.
SPECIFICATION SingleSpec
CONSTANTS N = 4
          Blank = {4}
          Procs = 2
          MayFail = TRUE
          Configured = FALSE
INVARIANTS TypeOK
           AtMostProcs
           PermitAccounting
           InputPresent
           CleanExit
           BoxTypeOK
           OwnInput
           AloneIsSafe
           ScriptsBounded
PROPERTIES PoolSpec
           AllRun
CHECK_DEADLOCK FALSE
