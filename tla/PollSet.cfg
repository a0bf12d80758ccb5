SPECIFICATION Spec
CONSTANTS
  POLL_SET_SIZE = 4
  Sockets = {3, 4, 5, 10}
INVARIANTS LowestReadable WithinTable
