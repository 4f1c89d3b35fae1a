SPECIFICATION FairSpec
CONSTANTS
  PipeSize = 1
  MaxJobs = 4
INVARIANTS TypeOK SigintSpares PromptIsClean
PROPERTY PipelineEnds
CHECK_DEADLOCK FALSE
