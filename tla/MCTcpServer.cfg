CONSTANTS
  Clients = {1, 2, 3}
  Descriptors = {4, 5}
  Buffer = 2
  MaxBytes <- Bytes
  NoClient = no_client
  MainThread = main_thread
  NoThread = no_thread
SPECIFICATION Spec
CHECK_DEADLOCK FALSE
INVARIANTS
  TypeOK
  HandlersOwnSockets
  PoliteClientsHarmless
PROPERTIES
  WaitingClientsServed
  RequestsAnswered
