\* Workbench with two runs, which may overlap, and one exit or crash.
SPECIFICATION FairSpec
CONSTANTS
  Run = {r1, r2}
  MaxExits = 1
INVARIANTS CancelledStaysOut TerminalIsLast
PROPERTIES CancelEnds
CHECK_DEADLOCK FALSE
