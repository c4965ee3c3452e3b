\* One process's state_list over three addresses.
CONSTANTS
  n1 = n1
  n2 = n2
  n3 = n3
  NULL = NULL
  Nodes <- MCNodes
SPECIFICATION Spec
INVARIANT
  ListIntact
