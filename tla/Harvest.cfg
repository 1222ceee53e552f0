CONSTANTS
  Docs = {"d1", "d2"}
  Envelope <- MCEnvelope
  Items <- MCItems
  Id <- MCId
  Props <- MCProps
  InitTypes = {"educational_alignment", "learning_resource_type", "target_name", "educational_framework"}
  LateTypes = {"time_required"}
  EnumTypes = {"learning_resource_type"}
  LinkTypes = {"educational_alignment", "learning_resource_type", "educational_framework"}
  Urns = {}
  Inside = {}
  PageSize = 1
  MaxTime = 2
  MaxAhead = 1
  Faults = {"page", "call", "file", "kill", "clock"}
  MaxFaults = 1
  None = None
SPECIFICATION FairSpec
INVARIANTS NothingPassedOver ShowsNewest
PROPERTY Delivered
