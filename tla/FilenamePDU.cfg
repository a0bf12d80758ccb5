SPECIFICATION Spec
CONSTANTS
  MAX_FILENAME_LEN = 4
  CommandLines <- MCCommandLines
  SeqNumbers = {0, 1}
  Tails <- MCTails
INVARIANTS RequestArrives AcceptedIffRestIsZero
