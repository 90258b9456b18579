\* The socket holds the shorter descriptor only.
SPECIFICATION Spec
CONSTANTS
  Client = client
  Server = server
  Length <- Descriptors
  Capacity = 2
\* The programs end.
CHECK_DEADLOCK FALSE
INVARIANTS
  TypeOK
  CallbackFindsUserData
  ConnectionOwned
  SetupNeverStuck
PROPERTIES
  NoPeerHangs
  SetupAdvances
