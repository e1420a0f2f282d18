SPECIFICATION Spec
CONSTANTS
  Roles = {lead, a, b}
  Lead = lead
  MaxHops = 5
  Settings <- MCSettings
  MentionSets = {{}, {a, b}}
  FaultKinds = {"replay", "throw", "abandon"}
  lead = lead
  a = a
  b = b
SYMMETRY RoleSymmetry
CHECK_DEADLOCK FALSE
INVARIANTS
  TypeOK
  FlowOver
  MergedAgainAfterFailure
PROPERTIES
  MissingExplained
