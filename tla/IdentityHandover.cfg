CONSTANTS
  None = None
  Host = {h1, h2, h3}
  Window = 2
  Genesis = 1
  MaxSlot = 6
SPECIFICATION Spec
SYMMETRY Symmetric
INVARIANT TypeOK
INVARIANT OneVoter
PROPERTY NeverVotesTwice
PROPERTY OneIdentity
