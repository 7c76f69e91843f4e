SPECIFICATION Spec
CONSTANTS
  BtDevices = {"d1"}
  AdapterRequests <- Puts
  MaxJobs = 2
  MaxPuts = 2
  MaxBtEvents = 2
  MaxObjects = 2
  VspDevices = {"d1"}
  VspPorts = {1}
  TcpClients = {"a", "b"}
  WriteSize = 2
  AuthFailureUnpair = TRUE
  MaxConnections = 2
  MaxCoroutines = 2
  MaxVspEvents = 1
  MaxBytes = 2
  Listeners = {"w"}
  MaxBroadcasts = 2
  MaxClients = 2
  MaxStarts = 3
INVARIANTS
    RestoredRight
    ManagedIsConnected
    ServersRight
    SentOnce
PROPERTIES
    NobodyWaitsForever
CHECK_DEADLOCK FALSE
