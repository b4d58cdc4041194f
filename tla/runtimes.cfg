SPECIFICATION ManagerSpec
CONSTANTS
  Agents = {d, a}
  Default = d
  MaxRuntimes = 3
  MaxCalls = 3
  MaxGeneration = 3
  Failures = {"create", "initialize", "resume", "close"}
  MaxFailures = 2
CHECK_DEADLOCK FALSE
INVARIANTS
  RuntimesAccounted
  OrchestratorsFollow
  ClosedForGood
