\* Two processes advance one API rotation.
CONSTANTS
  Rotations = {r1}
  Procs = {cli, desktop}
  Dests = {}
  Exports = {}
  Providers = {"openai"}
  MaxKeys = 3
  MaxVersions = 3
  MaxPlans = 1
SPECIFICATION Spec
INVARIANT CreatesOnce
SYMMETRY Symmetry
CHECK_DEADLOCK FALSE
