SPECIFICATION Spec
CONSTANTS Networks <- MCCutOnce
          Sources = {"a", "b"}
          Delays = {1, 3}
          Usual = 1
          FailUntil = 4
          MaxOutage = 15
          Fails <- MCFails
          Validate = 1
INVARIANT NoGapMeansUncut
