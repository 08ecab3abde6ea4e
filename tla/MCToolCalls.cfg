CONSTANTS
  c1 = c1
  c2 = c2
  Id = {1, 2}
  Call = {c1, c2}
  Tool = {"core", "Bash", "host", "ask"}
  Core = {"core"}
  Patterned = {"Bash", "host"}
  RuleName = {"*", "Bash", "host"}
  Covers <- MCCovers
  Part = {"ls", "rm"}
  Every = Every
  NoRules = NoRules
  Invocation <- MCInvocation
  Policies <- MCPolicies
  HostTool = "host"
  Question = "ask"
SPECIFICATION Spec
INVARIANTS
  RunsAllowed
  ClientsAgree
PROPERTIES
  AsksEnd
CHECK_DEADLOCK FALSE
