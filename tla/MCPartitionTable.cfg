CONSTANTS
  Word = 65536
  Sectors = 20
  Layouts <- MCLayouts
  FileSystems = {"ntfs", "exfat", "fat32", "ext4"}
  SpoiltValues = {0, 65535}
  MaxWrites = 3
  MaxDamage = 1
  kMaxLogicalPartitions = 2
  kMaxEntryArrayBytes = 1024
  MaxNumber = 3
SPECIFICATION Spec
INVARIANTS TableIsTheLayout MountedIsTheLastFormat EveryVolumeIsReported
PROPERTY ChainEnds
CHECK_DEADLOCK FALSE
