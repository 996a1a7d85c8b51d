CONSTANTS
  template = template
  skill = skill
  system = system
  controlled = controlled
  v1 = v1
  v2 = v2
  None = None
  Torn = Torn
  Proc = {p1, p2}
  Dest = {template, skill, system}
  External = {system}
  Privileged = {}
  Version = {v1, v2}
  Jobs <- LiveJobs
SPECIFICATION FairSpec
PROPERTY JournalResolved
