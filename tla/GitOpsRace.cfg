SPECIFICATION Spec
CONSTANTS
  Jobs = {j1, j2}
  Fixups = {}
  Digests = {d1, d2}
  Tag = Tag
  None = None
  MaxRunning = 2
INVARIANT PullRequestTruthful
