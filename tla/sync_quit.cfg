CONSTANTS
  Stoppers = {s1, s2}
SPECIFICATION SyncSpec
PROPERTY QuitStopsTunnel
