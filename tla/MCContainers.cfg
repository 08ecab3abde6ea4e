CONSTANTS
  a1 = a1
  a2 = a2
  i1 = i1
  i2 = i2
  i3 = i3
  Key <- MCKey
  Id <- MCId
  Port <- MCPort
  None = None
SPECIFICATION Spec
SYMMETRY MCSymmetry
INVARIANTS
  TypeOK
  PortsHeld
  TokenKept
  NoTokenLeak
CHECK_DEADLOCK FALSE
