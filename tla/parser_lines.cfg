SPECIFICATION Spec
CONSTANTS Files <- MCKnownFailures
          Maps <- MCMap
INVARIANT EveryLineFails
