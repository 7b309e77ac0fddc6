CONSTANTS
  Procs = {p1, p2, p3}
  Inodes = {i1, i2, i3}
  NoFile = NoFile
  Systems <- AllSystems
SPECIFICATION Spec
PROPERTIES
  AcquireIsExact
