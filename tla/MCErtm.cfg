SPECIFICATION MCSpec
CONSTANTS
  MAX_EVENT_HANDLERS = 2
  MAX_EVENTS_PER_QUEUE = 2
  Event = {1, 2}
  Requests <- MCRequests
  Dds = {"ref", "lo"}
  NcoCapacity = 3
  MaxChanges = 4
  MaxPulses = 1
  Outputs <- MCOutputs
  MaxRequests = 3
  Paths = {"REF", "LO"}
  MaxChannel = 2
  MaxDemands = 3
  Programs = {"p", "q"}
  Fields = {"f", "g"}
  Values = {0, 1}
  MaxAbandoned = 2
  MaxShell = 1
  Packets <- MCPackets
  UART_LINK_MAX_PAYLOAD = 2
  NoiseBytes = {1, 27, 84, 85}
  MaxNoise = 1
  MaxOpens = 1
INVARIANTS ReadyIsTriggered SyncedHasTiming  SwitchesRestored ForcedIsFresh PacketsAreGenuine IntactArrives
PROPERTIES EventsAreFifo SyncRecovers 
CHECK_DEADLOCK FALSE
