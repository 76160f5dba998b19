\* Two slots, three calls that want one, all of them attempts at one command.
SPECIFICATION MCFairSpec
CONSTANTS
  Attempts = {a1, a2, a3}
  Commands = {k}
  Programs <- MCPrograms
  Slots = 2
  MaxWrites = 2
  MaxReads = 1
  RowMayAppear = TRUE
  None = None
INVARIANTS SlotsAreCounted LandedOnce AnswerIsWhole SleepersAreHeard
PROPERTIES EveryCallAnswers
CHECK_DEADLOCK FALSE
