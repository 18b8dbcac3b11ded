SPECIFICATION SendSpec
CONSTANTS
  Task = {t1, t2}
  Key = {k1, k2}
  MaxLocked = 2
  MaxKeys = 3
  MaxAssigned = 3
INVARIANTS Gapless RunsExact
CHECK_DEADLOCK FALSE
