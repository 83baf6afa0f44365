CONSTANTS
  Dashed <- MCDashed
  Scenes <- MCScenes
SPECIFICATION Spec
INVARIANTS SameWorkspace PlanDetermined BuildStateFound OutputsDistinct CleanComplete
CHECK_DEADLOCK FALSE
