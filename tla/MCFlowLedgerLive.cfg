SPECIFICATION FairSpec
CONSTANTS
  Roles = {lead, a}
  Lead = lead
  MaxHops = 4
  Settings <- MCSettingsLive
  MentionSets = {{}, {a}}
  FaultKinds = {"crash", "throw", "replay", "lose"}
  lead = lead
  a = a
CHECK_DEADLOCK FALSE
INVARIANTS
  NoDoubleDispatch
PROPERTIES
  NeverWaitsForever
