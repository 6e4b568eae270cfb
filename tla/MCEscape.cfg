SPECIFICATION SerialSpec
CONSTANTS
  Packets <- MCPackets
  UART_LINK_MAX_PAYLOAD = 2
  NoiseBytes = {}
  MaxNoise = 0
  MaxOpens = 0
INVARIANT IntactArrives
CHECK_DEADLOCK FALSE
