SPECIFICATION Spec
CONSTANTS Networks <- MCNetworks
          TiedSize = 3
INVARIANTS TypeOK
           ExploreExact
           ReportedSuffix
           LastDumpFinal
           ConvergenceSeen
