SPECIFICATION SafeSpec
CONSTANTS
  BtDevices = {"d1"}
  AdapterRequests <- Puts
  MaxJobs = 2
  MaxPuts = 1
  MaxBtEvents = 2
  MaxObjects = 1
  VspDevices = {"d1"}
  VspPorts = {1}
  TcpClients = {"a"}
  WriteSize = 2
  AuthFailureUnpair = TRUE
  MaxConnections = 1
  MaxCoroutines = 1
  MaxVspEvents = 1
  MaxBytes = 2
  Listeners = {"w"}
  MaxBroadcasts = 1
  MaxClients = 1
  MaxStarts = 1
INVARIANTS
  DevicesRestored
CHECK_DEADLOCK FALSE
