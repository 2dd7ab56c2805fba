CONSTANTS
  Stoppers = {s1, s2, s3}
SPECIFICATION SyncSpec
INVARIANTS NoWriteAfterClose WaitIsALock SyncInv
PROPERTY SentEndsLoop
