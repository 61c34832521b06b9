SPECIFICATION Spec
CONSTANTS
  Src = "flv"
  Prod = "mp4"
  Other = "other"
  Faststart = {3}
  MaxWrites = 3
  MaxMoves = 1
  MaxDeletes = 1
  MaxPreparations = 2
  MaxFaults = 1
  MaxEvents = 4
INVARIANTS
  TypeOK
  KeptSomewhere
  RecordingUntouched
  StatsTrusted
PROPERTIES
  IdentityKeepsRecording
  ScanKeepsServed
  QuietScanCatchesUp
CHECK_DEADLOCK FALSE
