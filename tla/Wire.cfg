CONSTANTS
  Server = Server
  Client = Client
  Neighbour = Neighbour
  Hosts = {Server, Client, Neighbour}
  Listener = Server
  Endpoint <- MCEndpoint
  LOCAL_ADDRESS_DFLT <- MCLocalAddress
  CommandLines <- MCCommandLines
  RandomPort <- MCRandomPort
  SocketUsers = {Neighbour}
  Segments <- MCSegments
  Messages <- MCMessages
  Errors <- MCErrors
SPECIFICATION Spec
INVARIANTS HostAndPortAreLeft OnlyWhatWasSent BoundToACaller IntactIsRead
PROPERTY PeerIsKept
