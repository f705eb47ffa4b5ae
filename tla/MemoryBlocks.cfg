\* Two callers, each with a block of its own; all share the members, the second runs maintenance.
SPECIFICATION BlocksSpec
CONSTANTS
  b1 = b1 b2 = b2 f1 = f1 f2 = f2 n1 = n1 c1 = c1 c2 = c2
  Blocks = {b1, b2}
  Frags = {f1}
  Nodes = {n1}
  Callers = {c1, c2}
  Keepers <- OneEach
  Maintainers = {c2}
  Editors = {c1, c2}
  MaxSeals = 3
  NoBlock = NoBlock
  NoSeal = NoSeal
  Gone = Gone
INVARIANTS BlocksTypeOK LinksHold SealedVerifies MaintenanceSparesSealed
