SPECIFICATION Spec
CONSTANTS
  MY_VFS_CACHE_SIZE = 3
  Objects = {o1, o2, o3, o4}
  Null = null
  Mounts = {m1, m2}
SYMMETRY Symmetry
INVARIANTS GivenBack MountsHoldModule
CHECK_DEADLOCK FALSE
