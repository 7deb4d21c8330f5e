CONSTANTS
  LowRateSize = 7
  FilterLength = 2
  DefaultDelay = 2
  ExcessInterval = 4
  MaxExcess = 3
  Delays = {0, 2, 5}
  ExternalMs = {16}
  Hysteresis = 1
  MaxBurst = 2
SPECIFICATION Spec
INVARIANTS DelayIsTrue FilterHistoryIntact CaptureIsOneBlockLate AlarmsAreRight
