CONSTANTS
  NPROC = 3
  CPUs = {c1}
  MaxPid = 3
SPECIFICATION Spec
PROPERTY BornAlive
