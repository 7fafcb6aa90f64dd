\* One process that may die at any step and start again, two destinations.
CONSTANTS
  Rotations = {r1}
  Procs = {cli}
  Dests = {d1, d2}
  Exports = {d2}
  Providers = {"openai", "github"}
  MaxKeys = 3
  MaxVersions = 5
  MaxPlans = 2
SPECIFICATION Spec
INVARIANTS
  RestoredKeyLives
  ValueRolledBack

  
CHECK_DEADLOCK FALSE
