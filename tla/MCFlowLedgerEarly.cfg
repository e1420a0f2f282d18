SPECIFICATION Spec
CONSTANTS
  Roles = {lead, a, b}
  Lead = lead
  MaxHops = 4
  Settings <- MCSettingsEarly
  MentionSets = {{}, {a, b}}
  FaultKinds = {}
  lead = lead
  a = a
  b = b
SYMMETRY RoleSymmetry
CHECK_DEADLOCK FALSE
INVARIANTS
  MergeComplete
