\* One process at a time: killed anywhere and run again, failing anywhere.
CONSTANTS
  a = a
  b = b
  e = e
  Processes = {b}
  Earlier = e
  DocLength <- MCDocLength
  Inodes = {i1, i2}
  None = None
SPECIFICATION SnapshotSpec
INVARIANTS SnapshotInv
PROPERTIES ImplementsAtomicFile
CHECK_DEADLOCK FALSE
