CONSTANTS
  MaxNotifications = 4
SPECIFICATION Spec
\* Done resolves and the node stops: the end of the program.
CHECK_DEADLOCK FALSE
INVARIANTS
  TypeOK
  NodeSurvivesErrors
PROPERTIES
  ExitStopsNode
