----------------------------- MODULE VolumeMount ------------------------------
(***************************************************************************)
(* How a volume says what it is and how large its parts are: the boot      *)
(* sectors of NTFS, exFAT and FAT32 (fs/ntfs/BootSector.cpp,               *)
(* fs/exfat/BootRegion.cpp, fs/fat/BootSector.cpp and their Fields and     *)
(* Geometry files) and the superblock of ext4 (fs/ext4/Superblock.cpp).    *)
(*                                                                         *)
(* A boot sector is a record: `oem` and `type` are the two places a file   *)
(* system writes its name, `bpb` the parameter block NTFS and FAT32 share  *)
(* and exFAT leaves zero, `x` the fields of exFAT.  An answer is a         *)
(* geometry, or one of the failures Mount.cpp tells apart.                 *)
(***************************************************************************)
EXTENDS Integers, Sequences

CONSTANT Word  \* 2^32: where a 32-bit count wraps

ASSUME WordAssumption == Word \in Nat \ {0}

Declined == [fs |-> "notFound"]    \* kNotFound: ask the next one
Refused == [fs |-> "invalid"]      \* the format is named and its fields are wrong
Unreadable == [fs |-> "ioFailure"]
Failures == {Declined, Refused, Unreadable}

Checked(valid, geometry) == IF valid THEN geometry ELSE Refused

(***************************************************************************)
(* The fields NTFS and FAT32 share.                                        *)
(***************************************************************************)

isKnownSectorSize(bytes) == bytes \in {512, 1024, 2048, 4096}
isSectorsPerCluster(n) == n \in {2^k : k \in 0..7}

clusterSizeIsValid(bpb) ==
  isKnownSectorSize(bpb.bytesPerSector) /\ isSectorsPerCluster(bpb.sectorsPerCluster)
bytesPerCluster(bpb) == bpb.bytesPerSector * bpb.sectorsPerCluster

(***************************************************************************)
(* NTFS.  A negative record size is minus the logarithm of it.             *)
(***************************************************************************)

mftRecordSize(raw, clusterBytes) ==
  IF raw > 0 THEN raw * clusterBytes
  ELSE IF -raw \in 8..16 THEN 2^(-raw) ELSE 0

ntfsGeometryIsValid(b) ==
  /\ clusterSizeIsValid(b.bpb)
  /\ b.bpb.totalSectors # 0
  /\ b.bpb.mftCluster < b.bpb.totalSectors \div b.bpb.sectorsPerCluster
  /\ mftRecordSize(b.bpb.recordSize, bytesPerCluster(b.bpb)) \in 256..65536
  /\ b.signature

parseBootSector(b) ==
  Checked(ntfsGeometryIsValid(b),
          [fs |-> "ntfs", clusterBytes |-> bytesPerCluster(b.bpb),
           clusters |-> b.bpb.totalSectors \div b.bpb.sectorsPerCluster,
           dataOffset |-> b.bpb.mftCluster * bytesPerCluster(b.bpb),
           recordBytes |-> mftRecordSize(b.bpb.recordSize, bytesPerCluster(b.bpb))])

recognizeNtfs(b) == IF b.oem = "ntfs" THEN parseBootSector(b) ELSE Declined

(***************************************************************************)
(* exFAT.                                                                  *)
(***************************************************************************)

ZeroBpb == [bytesPerSector |-> 0, sectorsPerCluster |-> 0, reservedSectors |-> 0,
            fatCount |-> 0, fatSectors |-> 0, totalSectors |-> 0, rootCluster |-> 0,
            fat16Fields |-> 0, mftCluster |-> 0, recordSize |-> 0]

namesExfat(b) == b.oem = "exfat" /\ b.bpb = ZeroBpb

exfatFieldsAreValid(b) ==
  /\ b.signature
  /\ b.x.sectorShift \in 9..12
  /\ b.x.clusterShift + b.x.sectorShift <= 25
  /\ b.x.fatCount \in {1, 2}

heapFits(x) == x.heapSector < x.volumeSectors /\ x.clusterCount # 0

(* The sum is taken in 32 bits. *)
checkedRoot(x) == x.rootCluster >= 2 /\ x.rootCluster < (x.clusterCount + 2) % Word

exfatGeometry(x) ==
  [fs |-> "exfat", clusterBytes |-> 2^(x.sectorShift + x.clusterShift),
   clusters |-> x.clusterCount, dataOffset |-> x.heapSector * 2^x.sectorShift,
   root |-> x.rootCluster]

parseExfatBootSector(b) ==
  Checked(exfatFieldsAreValid(b) /\ heapFits(b.x) /\ checkedRoot(b.x), exfatGeometry(b.x))

recognizeExfat(b) == IF namesExfat(b) THEN parseExfatBootSector(b) ELSE Declined

(***************************************************************************)
(* FAT32.                                                                  *)
(***************************************************************************)

bpbIsValid(b) ==
  /\ b.bpb.fat16Fields = 0
  /\ b.signature
  /\ clusterSizeIsValid(b.bpb)
  /\ b.bpb.reservedSectors # 0 /\ b.bpb.fatCount # 0
  /\ b.bpb.fatSectors # 0 /\ b.bpb.totalSectors # 0

dataStartSector(bpb) == bpb.reservedSectors + bpb.fatCount * bpb.fatSectors
dataClusters(bpb) == (bpb.totalSectors - dataStartSector(bpb)) \div bpb.sectorsPerCluster

(* The data region is inside the volume, and the root inside the data region. *)
placementIsValid(bpb) ==
  /\ dataStartSector(bpb) < bpb.totalSectors
  /\ dataClusters(bpb) # 0
  /\ bpb.rootCluster \in 2..(dataClusters(bpb) + 1)

fat32Geometry(bpb) ==
  [fs |-> "fat32", clusterBytes |-> bytesPerCluster(bpb), clusters |-> dataClusters(bpb),
   dataOffset |-> dataStartSector(bpb) * bpb.bytesPerSector, root |-> bpb.rootCluster]

parseFat32BootSector(b) ==
  Checked(bpbIsValid(b) /\ placementIsValid(b.bpb), fat32Geometry(b.bpb))

recognizeFat32(b) == IF b.type = "fat32" THEN parseFat32BootSector(b) ELSE Declined

(***************************************************************************)
(* ext4.                                                                   *)
(***************************************************************************)

blockSize(s) == 1024 * 2^s.blockShift

namesExt4(s) == s.magic /\ s.blockShift <= 6

isBlockSizedPowerOfTwo(n, low, block) == n \in {2^k : k \in 0..16} /\ n >= low /\ n <= block

superblockFieldsAreValid(s) ==
  LET block == blockSize(s) IN
  /\ s.firstDataBlock = IF block = 1024 THEN 1 ELSE 0
  /\ s.blocksPerGroup \in 1..(8 * block)
  /\ s.inodesPerGroup \in 1..(8 * block)
  /\ isBlockSizedPowerOfTwo(s.inodeSize, 128, block)
  /\ s.wide => isBlockSizedPowerOfTwo(s.descriptorSize, 64, block)
  /\ s.inodes # 0 /\ s.blocks # 0

groupCount(s) == ((s.blocks - s.firstDataBlock - 1) \div s.blocksPerGroup) + 1

ext4Geometry(s) ==
  [fs |-> "ext4", clusterBytes |-> blockSize(s), clusters |-> s.blocks,
   dataOffset |-> (s.firstDataBlock + 1) * blockSize(s),
   firstDataBlock |-> s.firstDataBlock, groups |-> groupCount(s),
   blocksPerGroup |-> s.blocksPerGroup, inodesPerGroup |-> s.inodesPerGroup,
   inodeBytes |-> s.inodeSize, descriptorBytes |-> IF s.wide THEN s.descriptorSize ELSE 32]

parseExt4Superblock(s) ==
  Checked(/\ superblockFieldsAreValid(s)
          /\ s.blocks > s.firstDataBlock
          /\ groupCount(s) < Word,
          ext4Geometry(s))

recognizeExt4(s) == IF namesExt4(s) THEN parseExt4Superblock(s) ELSE Declined
===============================================================================
