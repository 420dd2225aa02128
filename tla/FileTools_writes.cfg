\* Files below, at and past both limits, every failure of a write, with and without check mode.
SPECIFICATION Spec
CONSTANTS
  READ_FILE_MAX_BYTES = 4
  SHOWN_CHARS = 2
  Sizes = {0, 1, 2, 3, 4, 5, 6}
INVARIANTS
  SuccessIsWhole
  CutIsMarked
CHECK_DEADLOCK FALSE
