SPECIFICATION SpecWithSwap
CONSTANTS
  n1 = n1
  n2 = n2
  n3 = n3
  d1 = d1
  d2 = d2
  ListHead = ListHead
  Null = Null
  Nodes = {n1, n2, n3}
  Data = {d1, d2}
INVARIANTS
  PrevFollowsSwap
