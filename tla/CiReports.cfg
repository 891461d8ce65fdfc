SPECIFICATION MCSpec
CONSTANTS
  NoTimings = NoTimings
  Courses <- MCCourses
  ClassOf <- MCClassOf
  ModuleOf <- MCModuleOf
  Count = 2
  Timings <- MCTimings
  UnitWorkflows <- MCUnitWorkflows
  SuiteWorkflows <- MCSuiteWorkflows
INVARIANTS GreenIsTrue TrueIsGreen AllocationSound
PROPERTIES RunnersLeaveNothing
CHECK_DEADLOCK FALSE
