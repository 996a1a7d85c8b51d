CONSTANTS
  skill = skill
  system = system
  v1 = v1
  v2 = v2
  None = None
  Torn = Torn
  Proc = {p1}
  Dest = {skill, system}
  External = {system}
  Privileged = {system}
  Version = {v1, v2}
  Jobs <- MCJobs
SPECIFICATION OSpec
PROPERTY RecoveredStays
