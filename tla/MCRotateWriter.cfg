\* Four hours; one history file and two hours of age are kept.
SPECIFICATION Spec
CONSTANTS
  MaxHour = 3
  MaxBackups = 1
  MaxAge = 2
  NoFile = NoFile
INVARIANTS TypeOK TrimmedByRotation
PROPERTIES LineInItsHour RemovedForCause
