CONSTANTS
  w1 = w1
  w2 = w2
  d = d
  p = p
  None = None
  Writer = {w1, w2}
  Persister = {p}
  Drain = d
  Builds <- Sound
SPECIFICATION FairSpec
INVARIANTS Framed MessagesWellFormed
PROPERTIES SentOnceInOrder CommitStores EventuallySent
