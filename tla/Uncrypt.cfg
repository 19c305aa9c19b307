SPECIFICATION FairSpec
CONSTANTS
  Packages <- const_Packages
  Layout <- const_Layout
  Crypto <- const_Crypto
  HeaderLength <- const_HeaderLength
  MapLength <- const_MapLength
  Window = 3
  Requests <- const_Requests
  None = None
  Cipher = Cipher
  Junk = Junk
  MaxRequests = 2
  MaxCrashes = 1
  MaxErrors = 1
INVARIANTS
  MapMeansPackage
  StatusIsTrue
PROPERTIES
  SocketOutlivesStatus
  RequestsEnd
