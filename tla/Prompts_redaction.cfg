\* Every path through dicts and lists to two levels below the cut.
SPECIFICATION Spec
CONSTANTS
  MaxDepth = 6
INVARIANTS
  OnlySecretsAreHidden
CHECK_DEADLOCK FALSE
