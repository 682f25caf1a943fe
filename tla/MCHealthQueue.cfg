\* Three probes: one runs a batch, one waits for it, one waits for both.
SPECIFICATION PromptSpec
CONSTANTS
  Probes = {p1, p2, p3}
  Deps = {db}
  Hangs = {}
  Timeout = 2
  TTL = 2
  Nobody = Nobody
PROPERTIES SilenceIsWaitedFor
