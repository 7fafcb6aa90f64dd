\* Two processes on one rotation, with room for a second creation; destinations are left to
\* RotationSequential, these properties do not read them.
CONSTANTS
  Rotations = {r1}
  Procs = {cli, desktop}
  Dests = {}
  Exports = {}
  Providers = {"openai", "anthropic"}
  MaxKeys = 3
  MaxVersions = 3
  MaxPlans = 1
SPECIFICATION Spec
INVARIANT TypeOK
PROPERTIES
  VerifiedFirst
  RevokeLeavesTrace
  ImplementsOrder
SYMMETRY Symmetry
CHECK_DEADLOCK FALSE
