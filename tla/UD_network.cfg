CONSTANTS
  NUM_SOCKETS = 4
  Addresses = {a1, a2}
  Failures = 1
SPECIFICATION Spec
INVARIANTS TypeOK PortHolder SocketsAccounted 
PROPERTIES Served
