CONSTANTS
  Proc = {1, 2}
  InitProc = 1
  None = None
  FRAMES = 17
  PAGE_SIZE = 2
  PTES = 8
  MAX_VPN = 10
  Program = {0}
  HEAP_BASE = 4
  MMAP_BASE = 8
  STACK = 6
  TRAP_CONTEXT = 8
  Tid = {0, 1}
  KSTACKS = 3
  Breaks = {5, 8}
  Addr = {14}
  Lens = {2}
  Offsets = {0, 3}
  FileLen = 4
  SlotOrder <- MCSlotOrder
VIEW View
SPECIFICATION Spec
INVARIANTS FramesAccounted ReachesOwnFrames HeapCovered TrapContextValid KstackOwned
