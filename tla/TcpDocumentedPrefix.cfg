SPECIFICATION Spec
CONSTANTS
  Client = client
  Server = server
  NonBlocking = {client, server}
  PrefixUnits <- DocumentedServer
  Sizes = {2}
  MaxSize = 2
  LenMod = 16
  Capacity = 2
  CloseOnError = TRUE
  MaxMessages <- ClientSendsTwo
  MaxConnections = 2
INVARIANT
  DocumentedPrefixInteroperates
