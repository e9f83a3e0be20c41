SPECIFICATION FairPlanSpec
CONSTANTS
  x = x
  y = y
  NumTasks = 4
  MaxLinks = 3
  Types <- MCTypes
  Stmts <- MCStmts
CHECK_DEADLOCK FALSE
INVARIANTS
  PlanTypeOK
  ParentsFirst
  AcyclicCheckRight
  ConflictsOrdered
  FrameIsThePlan
PROPERTIES
  FrameCompletes
