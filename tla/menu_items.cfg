SPECIFICATION Spec
CONSTANTS
  MaxArchives = 2
  MaxItems = 3
  MaxId = 6
INVARIANT ItemsCanBeInvoked
CHECK_DEADLOCK FALSE
