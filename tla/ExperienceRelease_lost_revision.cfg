SPECIFICATION FairSpec
CONSTANTS
  Case = {c1}
  NoCase = NoCase
  Turn = {t1}
  MaxChanges = 2
  MaxEvals = 0
  MaxFaults = 0
PROPERTY EveryOutcomeIsLearned
CHECK_DEADLOCK FALSE
