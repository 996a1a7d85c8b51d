CONSTANTS
  template = template
  skill = skill
  system = system
  controlled = controlled
  v1 = v1
  v2 = v2
  None = None
  Torn = Torn
  Proc = {p1, p2}
  Dest = {template, skill, system, controlled}
  External = {system, controlled}
  Privileged = {system}
  Version = {v1, v2}
  Jobs <- MCJobs
SPECIFICATION Spec
SYMMETRY Symmetric
INVARIANT TypeOK
INVARIANT Serialized
INVARIANT NothingHalfDone
INVARIANT OriginalSurvives
INVARIANT CommitNotRefused
INVARIANT IInv
PROPERTY AtomicallyReplaced
PROPERTY CommittedIsKept
PROPERTY OnlyAuthorizedBinary
