SPECIFICATION TransportSpec
CONSTANTS
  TransportSubjects = {"ring", "buffer", "packets", "events", "timer", "ipc"}
  Request = 3
  Data = {0, 1}
  MaxCount = 3
  m_update_period = 2
  m_nominal_rate = 40
  m_buffer_size = 4
  Capacities = {3, 5}
  ProcessBlock = 1
  m_wrap_at = 600
  m_dll_b = 8
  m_dll_c = 64
  Jitter <- MCJitter
  Tolerance = 19
  MaxBlocks = 5
  CYCLES_PER_SECOND = 32
  TICKS_PER_CYCLE = 6
  SECONDS = 2
  SYT_CYCLES = 4
  TxKinds = {"amdtp", "motu", "rme", "digidesign"}
  DBC = 32
  m_period = 12
  TxBuffer = 36
  TxPrestart = 8
  TxStart = 50
  TxHorizon = 73
  Cluster = 3
  RingBytes = 64
  Period = 16
  MIDIBUFFER = 4
  midi_tx_period = 12
  BITS = 5
  MaxPeriods = 4
  RATE = 3
  m_usecs_per_update = 4
  CTRHELPER_NB_SHADOW_VARS = 3
  SCALE = 32
  m_dll_coeff_b = 8
  m_dll_coeff_c = 1
  RESYNC = 1
  DllScenarios <- MCDllScenarios
  CtrStart = 360
  DllTolerance = 4
  IpcSetups <- MCIpcSetups
  MaxIpcWrites = 5
  MaxIpcFaults = 1
INVARIANTS NoSharedCell CountedIsThere StampIsTrue FedInTime BlocksCounted EventsSurvive EstimateIsClose BlocksHandedOver
PROPERTY IsFifo
CHECK_DEADLOCK FALSE
