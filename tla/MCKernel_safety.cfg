CONSTANTS
  Procs = {u1, u2}
  NoProc = NoProc
  Byte = {0, 1}
  PIPESIZE = 2
  Wrap = 4
  MaxN = 2
  NPROC = 4
  CPUs = {c1, c2}
  MaxPid = 4
  INPUT_BUF = 3
  ConsWrap = 6
  ConsN = 2
  SLOTS = 2
  MaxSends = 3
SPECIFICATION KSpec
SYMMETRY Symmetry
INVARIANT SlotsConsistent
INVARIANT FamilyConsistent
INVARIANT PipeSound
INVARIANT NoLostWakeup
INVARIANT ConsoleShared
INVARIANT InterruptsSound
INVARIANT ScanFindsCard
INVARIANT SentInOrder
PROPERTY ReapedByParent
PROPERTY StreamOrder
PROPERTY LineDiscipline
CHECK_DEADLOCK FALSE
