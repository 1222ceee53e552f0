CONSTANTS
  Docs = {"d1", "d2"}
  Envelope <- MCEnvelope
  Items <- MCItems
  Id <- MCId
  Props <- OtherProps
  InitTypes = {"educational_alignment", "learning_resource_type", "target_name", "educational_framework"}
  LateTypes = {}
  EnumTypes = {"learning_resource_type"}
  LinkTypes = {"educational_alignment", "learning_resource_type", "educational_framework"}
  Urns = {}
  Inside <- PartOf
  PageSize = 1
  MaxTime = 1
  MaxAhead = 0
  Faults = {}
  MaxFaults = 0
  None = None
SPECIFICATION Spec
INVARIANT EnumerationMade
