CONSTANTS
  n1 = n1
  n2 = n2
  n3 = n3
  Null = Null
  Nodes <- MCNodes
  Vals <- MCVals
  MaxChain = 2

SPECIFICATION Spec
INVARIANT HeapConsistent
PROPERTY CallReturns ListRefinesSpec
