\* Two requests; bodies at and over a limit that the log's copy reaches and not.
SPECIFICATION Spec
CONSTANTS
  Requests = {r1, r2}
  Traffic <- MCTraffic
  Failures = {"deadline"}
  BodyLimits = {0, 1, 2}
  MaxBodySize = 1
  TooLarge = TooLarge
  None = None
SYMMETRY Symmetry
INVARIANTS TypeOK TellsWhatWasSent PanicIsAnswered BodyWhole
PROPERTIES NothingAfterTheAnswer
