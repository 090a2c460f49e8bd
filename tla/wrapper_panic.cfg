SPECIFICATION FairSpec
CONSTANTS N = 3
          Blank = {3}
          Procs = 1
          MayFail = TRUE
PROPERTY MainEnds
\* The deadlock is the counterexample: the run shows it against MainEnds.
CHECK_DEADLOCK FALSE
