SPECIFICATION ToolsSpec
CONSTANTS
  LastTime = 3
  JobTime = 5
  Reserve = 1
  Tolerance = 1
  PermitTime = 3
  ActiveTime = 2
  MaxTime = 6
  Chunks = 2
  Limit = 2
  MaxWrites = 3
  Names = {"t1", "t2"}
  MaxLines = 5
  MaxEdits = 1
  EditedFrom <- MCEditedFrom
INVARIANTS StrikesOnlyChild NoMixVerifies GrantsInsideJob BindsWhatWas ReadsExactly
PROPERTIES KeepsPromise CallEnds CleansOnlyOwn ReplacesWhatWasPlanned
CHECK_DEADLOCK FALSE
