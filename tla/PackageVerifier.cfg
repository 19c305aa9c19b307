SPECIFICATION Spec
CONSTANTS
  Packages <- MCPackages
  KeyFiles <- MCKeyFiles
  Sigs <- MCSigs
  Ders <- MCDers
  Pads <- MCPads
  MaxWords = 2
  OrderBytes = 1
  Chunk = 3
  Bad = Bad
INVARIANTS AcceptedWasSigned SignedIsAccepted
