SPECIFICATION Spec
CONSTANTS
  Layouts <- MCLayouts
  PARA = 4
  SECTOR_SIZE = 8
  WORD = 32
  TOP = 80
  BOOT_ADDRESS = 0
  N_INFO = 15
  ROOM = 12
  TRACK = 3
  HEADS = 2
  TRACKS = 2
  PAGE_SIZE = 64
  MNGR_SIZE = 4096
  MEM_START = 64
  MOD = 65536
  TABLE_SIZE = 16
  TOTAL_FRAMES = 64
  DirtyFrames <- MCDirty
  Garbage = 2
  CpuCounts = {0, 1}
  Sizes = {8, 24, 40}
  MaxCalls = 4
CHECK_DEADLOCK FALSE
INVARIANT InPlace
INVARIANT KernelMapped
INVARIANT LiveDisjoint
PROPERTY DiskInOrder
PROPERTY SoundStep
PROPERTY StartupEnds
