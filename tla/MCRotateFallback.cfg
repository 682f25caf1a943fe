\* As MCRotateWriter.cfg: what the code says of a rotation that fails.
SPECIFICATION Spec
CONSTANTS
  MaxHour = 3
  MaxBackups = 1
  MaxAge = 2
  NoFile = NoFile
PROPERTIES FailedRotationWritesOn
