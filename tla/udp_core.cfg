SPECIFICATION Spec
CONSTANTS Networks <- MCNetworks
          Sources = {"a", "b"}
          Delays = {1, 3}
          Usual = 1
          FailUntil = 10
          MaxOutage = 3
          Fails <- MCFails
          Validate = 1
INVARIANTS TypeOK
           GapIsDisruption
           GapsDisjoint
           OutageMeasured
           ConvergenceSpans
