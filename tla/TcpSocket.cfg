\* Messages of zero, two and (too large) three units through a buffer of two:
\* every prefix fills it, and every payload is split or not.
SPECIFICATION Spec
CONSTANTS
  Client = client
  Server = server
  NonBlocking = {client, server}
  PrefixUnits <- LibraryPrefixes
  Sizes = {0, 2, 3}
  MaxSize = 2
  LenMod = 16
  Capacity = 2
  CloseOnError = TRUE
  MaxMessages <- ClientSendsTwo
  MaxConnections = 2
INVARIANTS
  TypeOK
  FramesIntact
  FdLeakOnlyOnReconnect

PROPERTY
  ImplementsMessageStream
