\* The socket just holds the longer descriptor.
SPECIFICATION Spec
CONSTANTS
  Client = client
  Server = server
  Length <- Descriptors
  Capacity = 3
\* The programs end.
CHECK_DEADLOCK FALSE
INVARIANTS
  ConnectedMeansEstablished
