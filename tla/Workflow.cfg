SPECIFICATION FairSpec
CONSTANTS
  detect = detect
  create = create
  external = external
  register = register
  submit = submit
  Step = {detect, create, external, register, submit}
  DependsOn <- MCDependsOn
  DependsOnAny <- MCDependsOnAny
  OnFailure <- MCOnFailure
  Outcomes <- MCOutcomes
  Delayed = {submit}
  Conditional = {submit}
  MaxAttempts = 2
  Removed = Removed
INVARIANTS
  VerdictMatchesSteps
  UpdatesSurvive
  ShutdownIsComplete
PROPERTIES
  LaunchedOnceAndInOrder
  WorkflowEnds
  CancelEnds
