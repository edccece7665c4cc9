SPECIFICATION LiveSpec
CONSTANTS
  N = 3
  Proc = {p1, p2, p3}
  NoProc = NoProc
  Result = {r1, r2}
  NoResult = NoResult
  ChildStages = {2, 3}
  PowerCuts = FALSE
  MaxFaults = 3
INVARIANTS
  TypeOK
  Loadable
  CompletedIsMade
  CopyIsCurrent
  FailureNamesResumeStage
  OnlyUncommittedRepeats
PROPERTIES
  ImplementsPipeline
  PipelineCompletes
