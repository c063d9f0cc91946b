---------------------------- MODULE VolumeProofs ----------------------------
(***************************************************************************)
(* Proofs about Volume: a device of any size that mksofs divides and       *)
(* formats, sessions of commands on its inodes, and the clusters of files. *)
(***************************************************************************)
EXTENDS Volume, FileClustersProofs, FiniteSetTheorems, WellFoundedInduction, TLAPS

-----------------------------------------------------------------------------
(* Arithmetic. *)

LEMMA Division ==
  ASSUME NEW a \in Nat, NEW d \in Nat \ {0}
  PROVE  a \div d \in Nat /\ (a \div d) * d <= a
OBVIOUS

LEMMA Product ==
  ASSUME NEW a \in Nat, NEW d \in Nat
  PROVE  a * d \in Nat /\ (d # 0 => a * d >= a)
OBVIOUS

-----------------------------------------------------------------------------
(***************************************************************************)
(* The zones.                                                              *)
(***************************************************************************)
\* What is to be known of a division of a device.
Tiles(g, blocks) ==
    /\ g.itsize \in Nat /\ g.rmsize \in Nat \ {0} /\ g.ctotal \in Nat
    /\ 1 + g.itsize + g.rmsize + g.ctotal * BlocksPerCluster = blocks
    /\ g.ctotal <= g.rmsize * RefsPerMapBlock
    /\ blocks >= 8 => g.itsize > 0

\* The number of inodes is settled, and there is room.
Settled(blocks, inodes) ==
    /\ inodes = IF inodes = 0 THEN blocks \div 8 ELSE inodes
    /\ Fits(blocks, inodes)

LEMMA StructureTiles ==
  ASSUME NEW blocks \in Nat, NEW inodes \in Nat, Settled(blocks, inodes)
  PROVE  Tiles(computeStructure(blocks, inodes), blocks)
<1> DEFINE tab == Ceil(inodes, InodesPerBlock)
           free == blocks - 1 - tab
           enough == {i \in 1 .. free : ClustersBeside(free, i) <= i * RefsPerMapBlock}
           bitmap == CHOOSE i \in enough : \A k \in enough : i <= k
           clusters == ClustersBeside(free, bitmap)
           spare == free - (clusters * BlocksPerCluster + bitmap)
<1>1. InodesPerBlock \in Nat \ {0} /\ BlocksPerCluster \in Nat \ {0} /\ RefsPerMapBlock \in Nat \ {0}
  BY MksofsAssumption
<1>2. tab \in Nat
  <2>1. inodes + InodesPerBlock - 1 \in Nat
    BY <1>1
  <2>2. QED
    BY <1>1, <2>1, Division DEF Ceil
<1>3. blocks >= 8 => tab > 0
  <2>1. blocks >= 8 => inodes > 0
    BY DEF Settled
  <2>2. inodes > 0 => (inodes + InodesPerBlock - 1) \div InodesPerBlock > 0
    BY <1>1
  <2>3. QED
    BY <2>1, <2>2 DEF Ceil
<1>4. free \in Nat /\ free >= 1
  BY <1>1, <1>2 DEF Settled, Fits
<1>5. bitmap \in enough
  <2>1. free \in enough
    <3>1. ClustersBeside(free, free) = 0
      <4>1. free - free = 0 /\ 0 \div BlocksPerCluster = 0
        BY <1>1, <1>4
      <4>2. QED
        BY <4>1 DEF ClustersBeside
    <3>2. 0 <= free * RefsPerMapBlock
      BY <1>1, <1>4, Product
    <3>3. QED
      BY <1>4, <3>1, <3>2
  <2>2. enough \in SUBSET Nat /\ enough # {}
    BY <2>1
  <2>3. \E m \in enough : \A k \in enough : m <= k
    <3> HIDE DEF enough
    <3>1. QED
      BY <2>2, Least
  <2> HIDE DEF enough
  <2>4. QED
    BY <2>3
<1>6. bitmap \in 1 .. free /\ clusters <= bitmap * RefsPerMapBlock
  <2> HIDE DEF bitmap
  <2>1. QED
    BY <1>5
<1> HIDE DEF bitmap, tab
<1>7. clusters \in Nat /\ clusters * BlocksPerCluster <= free - bitmap
  <2>1. free - bitmap \in Nat
    BY <1>4, <1>6
  <2> HIDE DEF free
  <2>2. QED
    BY <1>1, <2>1, Division DEF ClustersBeside
<1>8. clusters * BlocksPerCluster \in Nat
  BY <1>1, <1>7, Product
<1> HIDE DEF clusters
<1>9. /\ tab + free - (clusters * BlocksPerCluster + bitmap) = tab + spare
      /\ spare \in Nat /\ tab + free = blocks - 1
  BY <1>2, <1>4, <1>6, <1>7, <1>8
<1>10. computeStructure(blocks, inodes) =
         [rmsize |-> bitmap, ctotal |-> clusters, itsize |-> tab + spare]
  <2>1. Ceil(IF inodes = 0 THEN blocks \div 8 ELSE inodes, InodesPerBlock) = tab
    BY DEF Settled, tab
  <2>2. computeStructure(blocks, inodes) =
           [rmsize |-> bitmap, ctotal |-> clusters,
            itsize |-> tab + free - (clusters * BlocksPerCluster + bitmap)]
    BY <2>1 DEF computeStructure, bitmap, clusters, tab
  <2>3. QED
    BY <1>9, <2>2
<1>11. QED
  BY <1>2, <1>3, <1>6, <1>7, <1>8, <1>9, <1>10 DEF Tiles
-----------------------------------------------------------------------------
(***************************************************************************)
(* The order in which the zones are written.                               *)
(***************************************************************************)
PastMap    == {"fillInRootDir", "resetClusters", "magic", "done"}
PastInodes == {"fillInFreeClusterTable"} \union PastMap
PastSuper  == {"fillInInodeTable"} \union PastInodes
PastRoot   == {"resetClusters", "magic", "done"}
Stages == {"options", "soOpenRawDisk", "computeStructure", "fillInSuperBlock", "stopped"}
          \union PastSuper

\* Blocks of the device that hold what they should.
Holds(blocks, content) == \A b \in blocks : b \in DOMAIN disk /\ disk[b] = content
InodeZone == 1 .. geo.itsize
RootZone  == czstart .. czstart + BlocksPerCluster - 1

DeviceOK ==
    /\ stage \in Stages /\ magic \in {"none", "0xffff", "MAGIC_NUMBER"}
    /\ itotal \in Nat
    /\ \E n \in DeviceSizes : DOMAIN disk = 0 .. n - 1

\* Sizes are settled when they are used, and, as options are only read once, a volume
\* that is formatted again is divided as it was.
Divided ==
    /\ stage = "options" => magic = "none"
    /\ stage = "computeStructure" => Settled(ntotal, itotal)
    /\ stage \in PastSuper \union {"fillInSuperBlock"} \/ magic = "MAGIC_NUMBER" =>
          Settled(ntotal, itotal) /\ geo = computeStructure(ntotal, itotal)

Written ==
    /\ stage \in PastSuper \ {"done"} => magic = "0xffff"
    /\ stage \in PastSuper \/ magic = "MAGIC_NUMBER" => Holds({0}, "superblock")
    /\ stage \in PastInodes \/ magic = "MAGIC_NUMBER" => Holds(InodeZone, "inodes")
    /\ stage \in PastMap \/ magic = "MAGIC_NUMBER" => Holds({rmstart}, "bitmap")
    /\ stage \in PastRoot \/ magic = "MAGIC_NUMBER" => Holds(RootZone, "root directory")

MInv == DeviceOK /\ Divided /\ Written

LEMMA Sizes ==
  ASSUME DeviceOK
  PROVE  ntotal \in Nat
<1>1. PICK n \in DeviceSizes : DOMAIN disk = 0 .. n - 1
  BY DEF DeviceOK
<1>2. IsFiniteSet(DOMAIN disk)
  BY <1>1, FS_Interval, MksofsAssumption
<1>3. QED
  BY <1>2, FS_CardinalityType DEF ntotal

\* The zones lie behind one another.
LEMMA Zones ==
  ASSUME DeviceOK, Settled(ntotal, itotal), geo = computeStructure(ntotal, itotal)
  PROVE  /\ Tiles(geo, ntotal)
         /\ rmstart \in Nat /\ rmstart > geo.itsize /\ rmstart > 0
         /\ czstart \in Nat /\ czstart > rmstart
         /\ BlocksPerCluster \in Nat \ {0}
<1>1. Tiles(geo, ntotal)
  <2>1. itotal \in Nat
    BY DEF DeviceOK
  <2>2. QED
    BY <2>1, Sizes, StructureTiles
<1>2. QED
  BY <1>1, MksofsAssumption DEF Tiles, rmstart, czstart

\* What a write does to what other blocks hold.
LEMMA FillKeeps ==
  ASSUME NEW blocks, NEW content, NEW then, Fill(blocks, content, then), NEW other, NEW what,
         Holds(other, what), \A b \in other : b \notin blocks
  PROVE  \A b \in other : b \in DOMAIN disk' /\ disk'[b] = what
BY DEF Fill, Holds

LEMMA FillHolds ==
  ASSUME NEW blocks, NEW content, NEW then, Fill(blocks, content, then), then # "stopped", stage' = then
  PROVE  \A b \in blocks : b \in DOMAIN disk' /\ disk'[b] = content
BY DEF Fill

LEMMA FillFrame ==
  ASSUME NEW blocks, NEW content, NEW then, Fill(blocks, content, then)
  PROVE  /\ DOMAIN disk' = DOMAIN disk /\ ntotal' = ntotal
         /\ geo' = geo /\ itotal' = itotal /\ zero' = zero
         /\ stage' \in {then, "stopped"}
BY DEF Fill, ntotal

LEMMA MInitOK == MkInit => MInv
<1> SUFFICES ASSUME MkInit PROVE MInv
  OBVIOUS
<1>1. DeviceOK
  BY DEF MkInit, DeviceOK, Stages
<1>2. Divided /\ Written
  BY DEF MkInit, Divided, Written, PastSuper, PastInodes, PastMap, PastRoot
<1>3. QED
  BY <1>1, <1>2 DEF MInv

\* The steps before the first write.
LEMMA EarlyOK ==
  ASSUME MInv, Options \/ soOpenRawDisk \/ ComputeStructure \/ Killed
  PROVE  MInv'
<1> USE DEF MInv
<1>1. disk' = disk /\ magic' = magic /\ ntotal' = ntotal
  BY DEF Options, soOpenRawDisk, ComputeStructure, Killed, ntotal
<1>2. ntotal \in Nat
  BY Sizes
<1>3. DeviceOK'
  <2>1. itotal' \in Nat
    <3>1. Default \in Nat
      BY <1>2 DEF Default, DeviceOK
    <3>2. QED
      BY <3>1, MksofsAssumption DEF Options, soOpenRawDisk, ComputeStructure, Killed, DeviceOK
  <2>2. stage' \in Stages
    BY DEF Options, soOpenRawDisk, ComputeStructure, Killed, DeviceOK, Stages, PastSuper, PastInodes,
           PastMap
  <2>3. QED
    BY <1>1, <2>1, <2>2 DEF DeviceOK
<1>4. Divided'
  <2>1. CASE Options
    BY <1>1, <2>1 DEF Options, Divided, PastSuper, PastInodes, PastMap
  <2>2. CASE soOpenRawDisk
    BY <1>1, <1>2, <2>2 DEF soOpenRawDisk, Divided, Settled, Default, PastSuper, PastInodes, PastMap,
       DeviceOK
  <2>3. CASE ComputeStructure
    BY <1>1, <2>3 DEF ComputeStructure, Divided, PastSuper, PastInodes, PastMap
  <2>4. CASE Killed
    BY <1>1, <2>4 DEF Killed, Divided, PastSuper, PastInodes, PastMap
  <2>5. QED
    BY <2>1, <2>2, <2>3, <2>4
<1>5. Written'
  <2>1. stage' \notin PastSuper
    BY DEF Options, soOpenRawDisk, ComputeStructure, Killed, PastSuper, PastInodes, PastMap
  <2>2. magic = "MAGIC_NUMBER" => geo' = geo
    BY DEF Options, soOpenRawDisk, ComputeStructure, Killed, Divided
  <2>3. QED
    BY <1>1, <2>1, <2>2 DEF Written, Holds, InodeZone, RootZone, rmstart, czstart, PastSuper,
       PastInodes, PastMap, PastRoot
<1>6. QED
  BY <1>3, <1>4, <1>5

\* A write that goes on, or ends the program, when the sizes are settled.
LEMMA FillOK ==
  ASSUME MInv, NEW blocks, NEW content, NEW then, Fill(blocks, content, then),
         stage \in PastSuper \union {"fillInSuperBlock"}, then \in PastSuper,
         magic' \in {"0xffff", "MAGIC_NUMBER"}
  PROVE  DeviceOK' /\ Divided'
<1>1. stage' \in {then, "stopped"} /\ UNCHANGED <<itotal, geo, DOMAIN disk, ntotal>>
  BY FillFrame
<1>2. DeviceOK'
  BY <1>1 DEF MInv, DeviceOK, Stages
<1>3. Divided'
  BY <1>1 DEF MInv, Divided, PastSuper, PastInodes, PastMap
<1>4. QED
  BY <1>2, <1>3

LEMMA SuperBlockOK ==
  ASSUME MInv, FillInSuperBlock
  PROVE  MInv'
<1>1. /\ stage = "fillInSuperBlock" /\ magic' = "0xffff"
      /\ Fill({0}, "superblock", "fillInInodeTable")
  BY DEF FillInSuperBlock
<1>2. DeviceOK' /\ Divided'
  BY <1>1, FillOK DEF PastSuper, PastInodes, PastMap
<1>3. stage' = "fillInInodeTable" => Holds({0}, "superblock")'
  BY <1>1, FillHolds DEF Holds
<1>4. stage' \in {"fillInInodeTable", "stopped"}
  BY <1>1, FillFrame
<1>5. Written'
  BY <1>1, <1>3, <1>4 DEF Written, PastSuper, PastInodes, PastMap, PastRoot
<1>6. QED
  BY <1>2, <1>5 DEF MInv

LEMMA InodeTableOK ==
  ASSUME MInv, FillInInodeTable
  PROVE  MInv'
<1> DEFINE blocks == {1} \union 1 .. geo.itsize
<1>1. /\ stage = "fillInInodeTable" /\ magic' = magic /\ magic = "0xffff"
      /\ Fill(blocks, "inodes", "fillInFreeClusterTable")
  BY DEF FillInInodeTable, MInv, Written, PastSuper
<1>2. DeviceOK' /\ Divided'
  BY <1>1, FillOK DEF PastSuper, PastInodes, PastMap
<1>3. Holds({0}, "superblock") /\ Tiles(geo, ntotal)
  BY <1>1, Zones DEF MInv, Divided, Written, PastSuper
<1>4. geo' = geo /\ stage' \in {"fillInFreeClusterTable", "stopped"}
  BY <1>1, FillFrame
<1>5. Holds({0}, "superblock")'
  <2>1. 0 \notin blocks
    BY <1>3 DEF Tiles
  <2> HIDE DEF blocks
  <2>2. QED
    BY <1>1, <1>3, <2>1 DEF Fill, Holds
<1>6. stage' = "fillInFreeClusterTable" => Holds(InodeZone, "inodes")'
  <2>1. stage' = "fillInFreeClusterTable" => \A b \in blocks : b \in DOMAIN disk' /\ disk'[b] = "inodes"
    <3> HIDE DEF blocks
    <3>1. QED
      BY <1>1, FillHolds
  <2>2. QED
    BY <1>4, <2>1 DEF Holds, InodeZone
<1>7. Written'
  BY <1>1, <1>4, <1>5, <1>6 DEF Written, PastSuper, PastInodes, PastMap, PastRoot
<1>8. QED
  BY <1>2, <1>7 DEF MInv

\* The stray blocks of the bitmap lie behind its first one.
LEMMA MapOK ==
  ASSUME MInv, FillInFreeClusterTable
  PROVE  MInv'
<1> DEFINE blocos == geo.ctotal \div (MapBits * RefsPerMapBlock)
           blocks == {rmstart + count * BlockSize : count \in 0 .. blocos}
<1>1. /\ stage = "fillInFreeClusterTable" /\ magic' = magic /\ magic = "0xffff"
      /\ Fill(blocks, "bitmap", "fillInRootDir")
  BY DEF FillInFreeClusterTable, MInv, Written, PastSuper, PastInodes
<1>2. DeviceOK' /\ Divided'
  <2> HIDE DEF blocks
  <2>1. QED
    BY <1>1, FillOK DEF PastSuper, PastInodes, PastMap
<1>3. /\ Holds({0}, "superblock") /\ Holds(InodeZone, "inodes")
      /\ Tiles(geo, ntotal) /\ rmstart \in Nat /\ rmstart > geo.itsize /\ rmstart > 0
  BY <1>1, Zones DEF MInv, Divided, Written, PastSuper, PastInodes
<1>4. geo' = geo /\ stage' \in {"fillInRootDir", "stopped"}
  <2> HIDE DEF blocks
  <2>1. QED
    BY <1>1, FillFrame
<1>5. blocos \in Nat
  <2>1. MapBits * RefsPerMapBlock \in Nat \ {0}
    BY MksofsAssumption, Product
  <2>2. QED
    BY <1>3, <2>1, Division DEF Tiles
<1>6. \A b \in blocks : b \in Nat /\ b >= rmstart
  <2>1. \A count \in Nat : count * BlockSize \in Nat
    BY MksofsAssumption, Product
  <2> HIDE DEF blocos
  <2>2. QED
    BY <1>3, <1>5, <2>1
<1>7. rmstart \in blocks
  <2>1. 0 \in 0 .. blocos /\ rmstart + 0 * BlockSize = rmstart
    BY <1>3, <1>5, MksofsAssumption
  <2>2. QED
    BY <2>1
<1> HIDE DEF blocks
<1>8. Holds({0}, "superblock")'
  <2>1. 0 \notin blocks
    BY <1>3, <1>6
  <2>2. QED
    BY <1>1, <1>3, <2>1 DEF Fill, Holds
<1>9. Holds(InodeZone, "inodes")'
  <2>1. \A b \in InodeZone : b \notin blocks
    BY <1>3, <1>6 DEF InodeZone, Tiles
  <2>2. \A b \in InodeZone : b \in DOMAIN disk' /\ disk'[b] = "inodes"
    BY <1>1, <1>3, <2>1, FillKeeps
  <2>3. InodeZone' = InodeZone
    BY <1>4 DEF InodeZone
  <2>4. QED
    BY <2>2, <2>3 DEF Holds
<1>10. stage' = "fillInRootDir" => Holds({rmstart}, "bitmap")'
  <2>1. rmstart' = rmstart
    BY <1>4 DEF rmstart
  <2>2. QED
    BY <1>1, <1>7, <2>1, FillHolds DEF Holds
<1>11. Written'
  BY <1>1, <1>4, <1>8, <1>9, <1>10 DEF Written, PastSuper, PastInodes, PastMap, PastRoot
<1>12. QED
  BY <1>2, <1>11 DEF MInv

\* Whatever is written behind the bitmap leaves what was written before it.
LEMMA BehindMap ==
  ASSUME MInv, stage \in PastMap, NEW blocks, NEW content, NEW then, Fill(blocks, content, then),
         \A b \in blocks : b \in Nat /\ b >= czstart
  PROVE  Holds({0}, "superblock")' /\ Holds(InodeZone, "inodes")' /\ Holds({rmstart}, "bitmap")'
<1>1. /\ Holds({0}, "superblock") /\ Holds(InodeZone, "inodes") /\ Holds({rmstart}, "bitmap")
      /\ Settled(ntotal, itotal) /\ geo = computeStructure(ntotal, itotal) /\ DeviceOK
  BY DEF MInv, Divided, Written, PastSuper, PastInodes
<1>2. /\ Tiles(geo, ntotal) /\ rmstart \in Nat /\ rmstart > geo.itsize /\ rmstart > 0
      /\ czstart \in Nat /\ czstart > rmstart
  BY <1>1, Zones
<1>3. InodeZone' = InodeZone /\ rmstart' = rmstart
  BY FillFrame DEF InodeZone, rmstart
<1>4. 0 \notin blocks /\ rmstart \notin blocks /\ \A b \in InodeZone : b \notin blocks
  BY <1>2 DEF InodeZone, Tiles
<1>5. /\ 0 \in DOMAIN disk' /\ disk'[0] = "superblock"
      /\ rmstart \in DOMAIN disk' /\ disk'[rmstart] = "bitmap"
  BY <1>1, <1>4 DEF Fill, Holds
<1>6. \A b \in InodeZone : b \in DOMAIN disk' /\ disk'[b] = "inodes"
  BY <1>1, <1>4, FillKeeps
<1>7. QED
  BY <1>3, <1>5, <1>6 DEF Holds

LEMMA RootDirOK ==
  ASSUME MInv, FillInRootDir
  PROVE  MInv'
<1> DEFINE then == IF zero THEN "resetClusters" ELSE "magic"
<1>1. /\ stage = "fillInRootDir" /\ magic' = magic /\ magic = "0xffff"
      /\ Fill(RootZone, "root directory", then)
  BY DEF FillInRootDir, RootZone, MInv, Written, PastSuper, PastInodes, PastMap
<1>2. then \in {"resetClusters", "magic"}
  OBVIOUS
<1> HIDE DEF then
<1>3. DeviceOK' /\ Divided'
  BY <1>1, <1>2, FillOK DEF PastSuper, PastInodes, PastMap
<1>4. Tiles(geo, ntotal) /\ czstart \in Nat /\ BlocksPerCluster \in Nat
  BY <1>1, Zones DEF MInv, Divided, PastSuper, PastInodes, PastMap
<1>5. geo' = geo /\ stage' \in {then, "stopped"}
  BY <1>1, FillFrame
<1>6. Holds({0}, "superblock")' /\ Holds(InodeZone, "inodes")' /\ Holds({rmstart}, "bitmap")'
  <2>1. \A b \in RootZone : b \in Nat /\ b >= czstart
    BY <1>4 DEF RootZone
  <2>2. QED
    BY <1>1, <2>1, BehindMap DEF PastMap
<1>7. stage' = then => Holds(RootZone, "root directory")'
  <2>1. RootZone' = RootZone
    BY <1>5 DEF RootZone, czstart, rmstart
  <2>2. QED
    BY <1>1, <1>2, <2>1, FillHolds DEF Holds
<1>8. Written'
  BY <1>1, <1>2, <1>5, <1>6, <1>7 DEF Written, PastSuper, PastInodes, PastMap, PastRoot
<1>9. QED
  BY <1>3, <1>8 DEF MInv

\* However far the zeros of -z reach: they start behind the cluster of the root.
LEMMA ResetOK ==
  ASSUME MInv, ResetClusters
  PROVE  MInv'
<1> DEFINE cstart == czstart + BlocksPerCluster
           blocks == cstart * BlocksPerCluster .. (geo.ctotal - 1) * BlocksPerCluster - 1
<1>1. /\ stage = "resetClusters" /\ magic' = magic /\ magic = "0xffff"
      /\ Fill(blocks, "zeros", "magic")
  BY DEF ResetClusters, MInv, Written, PastSuper, PastInodes, PastMap
<1>2. DeviceOK' /\ Divided'
  <2> HIDE DEF blocks
  <2>1. QED
    BY <1>1, FillOK DEF PastSuper, PastInodes, PastMap
<1>3. czstart \in Nat /\ BlocksPerCluster \in Nat \ {0}
  BY <1>1, Zones DEF MInv, Divided, PastSuper, PastInodes, PastMap
<1>4. \A b \in blocks : b \in Nat /\ b >= czstart + BlocksPerCluster
  <2>1. cstart \in Nat
    BY <1>3
  <2> HIDE DEF cstart
  <2>2. cstart * BlocksPerCluster \in Nat /\ cstart * BlocksPerCluster >= cstart
    BY <1>3, <2>1, Product
  <2>3. \A b \in blocks : b \in Int /\ b >= cstart * BlocksPerCluster
    OBVIOUS
  <2>4. \A b \in blocks : b \in Nat /\ b >= cstart
    BY <2>1, <2>2, <2>3
  <2>5. QED
    BY <2>4 DEF cstart
<1> HIDE DEF blocks
<1>5. geo' = geo /\ stage' \in {"magic", "stopped"}
  BY <1>1, FillFrame
<1>6. Holds({0}, "superblock")' /\ Holds(InodeZone, "inodes")' /\ Holds({rmstart}, "bitmap")'
  <2>1. \A b \in blocks : b \in Nat /\ b >= czstart
    BY <1>3, <1>4
  <2>2. QED
    BY <1>1, <2>1, BehindMap DEF PastMap
<1>7. Holds(RootZone, "root directory")'
  <2>1. RootZone' = RootZone
    BY <1>5 DEF RootZone, czstart, rmstart
  <2>2. Holds(RootZone, "root directory")
    BY <1>1 DEF MInv, Written, PastRoot
  <2>3. \A b \in RootZone : b \notin blocks
    BY <1>3, <1>4 DEF RootZone
  <2>4. \A b \in RootZone : b \in DOMAIN disk' /\ disk'[b] = "root directory"
    BY <1>1, <2>2, <2>3, FillKeeps
  <2>5. QED
    BY <2>1, <2>4 DEF Holds
<1>8. Written'
  BY <1>1, <1>5, <1>6, <1>7 DEF Written, PastSuper, PastInodes, PastMap, PastRoot
<1>9. QED
  BY <1>2, <1>8 DEF MInv

LEMMA SetMagicOK ==
  ASSUME MInv, SetMagic
  PROVE  MInv'
<1>1. /\ stage = "magic" /\ magic' = "MAGIC_NUMBER" /\ Fill({0}, "superblock", "done")
  BY DEF SetMagic
<1>2. DeviceOK' /\ Divided'
  BY <1>1, FillOK DEF PastSuper, PastInodes, PastMap
<1>3. /\ Holds({0}, "superblock") /\ Holds(InodeZone, "inodes") /\ Holds({rmstart}, "bitmap")
      /\ Holds(RootZone, "root directory")
  BY <1>1 DEF MInv, Written, PastSuper, PastInodes, PastMap, PastRoot
<1>4. /\ Tiles(geo, ntotal) /\ rmstart \in Nat /\ rmstart > 0 /\ czstart \in Nat /\ czstart > rmstart
      /\ BlocksPerCluster \in Nat
  BY <1>1, Zones DEF MInv, Divided, PastSuper, PastInodes, PastMap
<1>5. stage' = "done" /\ UNCHANGED <<InodeZone, rmstart, RootZone>>
  BY <1>1, <1>3, FillFrame DEF Fill, Holds, InodeZone, RootZone, czstart, rmstart
<1>6. Holds({0}, "superblock")'
  BY <1>1, <1>3 DEF Fill, Holds
<1>7. Holds(InodeZone, "inodes")'
  <2>1. \A b \in InodeZone : b \notin {0}
    <3>1. geo.itsize \in Nat
      BY <1>4 DEF Tiles
    <3>2. QED
      BY <3>1 DEF InodeZone
  <2>2. \A b \in InodeZone : b \in DOMAIN disk' /\ disk'[b] = "inodes"
    BY <1>1, <1>3, <2>1, FillKeeps
  <2>3. QED
    BY <1>5, <2>2 DEF Holds
<1>8. Holds({rmstart}, "bitmap")'
  <2>1. rmstart \in DOMAIN disk' /\ disk'[rmstart] = "bitmap"
    BY <1>1, <1>3 DEF Fill, Holds
  <2>2. QED
    BY <1>5, <2>1 DEF Holds
<1>9. Holds(RootZone, "root directory")'
  <2>1. \A b \in RootZone : b \notin {0}
    <3>1. czstart \in Nat /\ czstart > 0 /\ BlocksPerCluster \in Nat
      BY <1>4
    <3>2. QED
      BY <3>1 DEF RootZone
  <2>2. \A b \in RootZone : b \in DOMAIN disk' /\ disk'[b] = "root directory"
    BY <1>1, <1>3, <2>1, FillKeeps
  <2>3. QED
    BY <1>5, <2>2 DEF Holds
<1>10. Written'
  BY <1>1, <1>5, <1>6, <1>7, <1>8, <1>9 DEF Written, PastSuper, PastInodes, PastMap, PastRoot
<1>11. QED
  BY <1>2, <1>10 DEF MInv

LEMMA Unmoved ==
  ASSUME MInv, UNCHANGED mkvars
  PROVE  MInv'
BY DEF MInv, mkvars, DeviceOK, Divided, Written, Holds, InodeZone, RootZone, rmstart, czstart,
       ntotal

\* mksofs is started anew with the number of inodes of the volume.
LEMMA FormatAgainOK ==
  ASSUME MInv, FormatAgain
  PROVE  MInv'
<1>1. stage' = "soOpenRawDisk" /\ UNCHANGED <<zero, itotal, geo, disk, magic>>
  BY DEF FormatAgain
<1>2. DeviceOK'
  BY <1>1 DEF MInv, DeviceOK, Stages
<1>3. Divided'
  BY <1>1 DEF MInv, Divided, ntotal, PastSuper, PastInodes, PastMap
<1>4. Written'
  BY <1>1 DEF MInv, Written, Holds, InodeZone, RootZone, rmstart, czstart, PastSuper, PastInodes,
     PastMap, PastRoot
<1>5. QED
  BY <1>2, <1>3, <1>4 DEF MInv

(***************************************************************************)
(* What has been written so far is where the division of the device says,  *)
(* in whatever stage of main mksofs is, or was when it stopped.            *)
(***************************************************************************)
THEOREM Inductive == VolumeSpec => []MInv
<1>1. VolumeInit => MInv
  BY MInitOK DEF VolumeInit
<1>2. MInv /\ [VolumeNext]_<<vars, mkvars, ttvars>> => MInv'
  <2> SUFFICES ASSUME MInv, [VolumeNext]_<<vars, mkvars, ttvars>> PROVE MInv'
    OBVIOUS
  <2>1. CASE Format
    <3>1. MkNext
      BY <2>1 DEF Format
    <3>2. QED
      BY <3>1, EarlyOK, SuperBlockOK, InodeTableOK, MapOK, RootDirOK, ResetOK, SetMagicOK DEF MkNext
  <2>2. CASE Use
    BY <2>2, Unmoved DEF Use
  <2>3. CASE Session
    BY <2>3, Unmoved DEF Session
  <2>4. CASE FormatAgain
    BY <2>4, FormatAgainOK
  <2>5. CASE OpenAgain
    BY <2>5, Unmoved DEF OpenAgain
  <2>6. CASE UNCHANGED <<vars, mkvars, ttvars>>
    BY <2>6, Unmoved
  <2>7. QED
    BY <2>1, <2>2, <2>3, <2>4, <2>5, <2>6 DEF VolumeNext
<1>3. QED
  BY <1>1, <1>2, PTL DEF VolumeSpec

\* The zones computeStructure makes follow one another to the very end of the device, and
\* the bitmap has a bit for each cluster.
THEOREM ZonesFillTheDevice == VolumeSpec => []ZonesTile
<1>1. MInv => ZonesTile
  <2> SUFFICES ASSUME MInv,
                      stage \notin {"options", "soOpenRawDisk", "computeStructure", "stopped"}
               PROVE  /\ 1 + geo.itsize + geo.rmsize + geo.ctotal * BlocksPerCluster = ntotal
                      /\ geo.ctotal <= geo.rmsize * RefsPerMapBlock
                      /\ geo.rmsize > 0 /\ (ntotal >= 8 => geo.itsize > 0)
    BY DEF ZonesTile
  <2>1. stage \in PastSuper \union {"fillInSuperBlock"} /\ DeviceOK
    BY DEF MInv, DeviceOK, Stages
  <2>2. Settled(ntotal, itotal) /\ geo = computeStructure(ntotal, itotal)
    BY <2>1 DEF MInv, Divided
  <2>3. Tiles(geo, ntotal)
    BY <2>1, <2>2, Zones
  <2>4. QED
    BY <2>3 DEF Tiles
<1>2. QED
  BY <1>1, Inductive, PTL

\* Where the magic number is, every zone holds what it is to hold: mksofs killed at any step,
\* with any option and on a device of any size, leaves a volume or none.
THEOREM MagicIsFormatted == VolumeSpec => []MagicMeansFormatted
<1>1. MInv => MagicMeansFormatted
  BY DEF MInv, Written, Holds, InodeZone, RootZone, MagicMeansFormatted
<1>2. QED
  BY <1>1, Inductive, PTL
-----------------------------------------------------------------------------
(***************************************************************************)
(* The clusters of files on a volume: mksofs and the sessions leave the    *)
(* variables of FileClusters alone, so that its theorems are the volume's. *)
(***************************************************************************)
\* Every step of Volume is an operation of FileClusters or leaves its variables alone.
THEOREM ClustersOnVolume == VolumeSpec => Spec
<1>1. VolumeInit => Init
  BY DEF VolumeInit
<1>2. [VolumeNext]_<<vars, mkvars, ttvars>> => [Next]_vars
  BY DEF VolumeNext, Use, Format, Session, FormatAgain, OpenAgain
<1>3. QED
  BY <1>1, <1>2, PTL DEF VolumeSpec, Spec

\* So on a volume that mksofs formats, clusters are accounted for, and until the first step
\* the code gets wrong have one place each and give back what was written to them.
THEOREM VolumeIsSound ==
  VolumeSpec => [](TypeOK /\ Accounting /\ SoundUntilDamage /\ FileIntact)
BY ClustersOnVolume, FileClustersTypeOK, ClustersAccounted, OnePlaceForEachCluster, WrittenIsRead, PTL

-----------------------------------------------------------------------------
(* Records, field by field.                                                *)

Fields == {"open", "table", "sb", "sbDisk", "thrown"}
NodeFields == {"free", "next", "prev", "lnkcnt", "perm", "owner"}

LEMMA OpenField ==
  ASSUME NEW st, DOMAIN st = Fields, NEW v
  PROVE  LET r == [st EXCEPT !.open = v]
         IN  /\ DOMAIN r = Fields /\ r.open = v /\ r.table = st.table
             /\ r.sb = st.sb /\ r.sbDisk = st.sbDisk /\ r.thrown = st.thrown
BY DEF Fields

LEMMA TableField ==
  ASSUME NEW st, DOMAIN st = Fields, NEW v
  PROVE  LET r == [st EXCEPT !.table = v]
         IN  /\ DOMAIN r = Fields /\ r.open = st.open /\ r.table = v
             /\ r.sb = st.sb /\ r.sbDisk = st.sbDisk /\ r.thrown = st.thrown
BY DEF Fields

LEMMA SbField ==
  ASSUME NEW st, DOMAIN st = Fields, NEW v
  PROVE  LET r == [st EXCEPT !.sb = v]
         IN  /\ DOMAIN r = Fields /\ r.open = st.open /\ r.table = st.table
             /\ r.sb = v /\ r.sbDisk = st.sbDisk /\ r.thrown = st.thrown
BY DEF Fields

LEMMA SbDiskField ==
  ASSUME NEW st, DOMAIN st = Fields, NEW v
  PROVE  LET r == [st EXCEPT !.sbDisk = v]
         IN  /\ DOMAIN r = Fields /\ r.open = st.open /\ r.table = st.table
             /\ r.sb = st.sb /\ r.sbDisk = v /\ r.thrown = st.thrown
BY DEF Fields

LEMMA ThrownField ==
  ASSUME NEW st, DOMAIN st = Fields
  PROVE  LET r == Tool!Throw(st)
         IN  /\ DOMAIN r = Fields /\ r.open = st.open /\ r.table = st.table
             /\ r.sb = st.sb /\ r.sbDisk = st.sbDisk /\ r.thrown = TRUE
BY DEF Fields, Tool!Throw

LEMMA PlaceFields ==
  ASSUME NEW e, DOMAIN e = {"users", "node"}, NEW v
  PROVE  LET r == [e EXCEPT !.users = v]
             s == [e EXCEPT !.node = v]
         IN  /\ DOMAIN r = {"users", "node"} /\ r.users = v /\ r.node = e.node
             /\ DOMAIN s = {"users", "node"} /\ s.users = e.users /\ s.node = v
OBVIOUS

-----------------------------------------------------------------------------
(* What each step of a command does to the state it works on.              *)

Inodes == Tool!Inodes

\* The state a command works on is made of these.
IsTable(tab) == DOMAIN tab = Inodes /\ \A in \in Inodes : DOMAIN tab[in] = NodeFields

IsPlace(place) ==
    /\ DOMAIN place = {"users", "node"}
    /\ place.users \in Nat \ {0}
    /\ DOMAIN place.node = NodeFields

IsPool(pool) == DOMAIN pool \subseteq Inodes /\ \A in \in DOMAIN pool : IsPlace(pool[in])

IsState(st) ==
    /\ DOMAIN st = Fields /\ st.thrown \in BOOLEAN
    /\ IsTable(st.table) /\ IsPool(st.open)

\* The inode is opened by one more, or nothing is changed.
LEMMA OpenDoes ==
  ASSUME NEW st, IsState(st), ~st.thrown, NEW in
  PROVE  LET r == Tool!iOpen(st, in)
         IN  /\ IsState(r) /\ r.table = st.table /\ r.sb = st.sb /\ r.sbDisk = st.sbDisk
             /\ r.thrown => r.open = st.open /\ in \notin DOMAIN st.open
             /\ ~r.thrown => /\ DOMAIN r.open = DOMAIN st.open \union {in}
                             /\ \A i \in DOMAIN st.open \ {in} : r.open[i] = st.open[i]
                             /\ in \in DOMAIN st.open =>
                                   /\ r.open[in].users = st.open[in].users + 1
                                   /\ r.open[in].node = st.open[in].node
                             /\ in \notin DOMAIN st.open =>
                                   /\ in \in Inodes
                                   /\ r.open[in].users = 1
                                   /\ r.open[in].node = st.table[in]
<1> DEFINE r == Tool!iOpen(st, in)
<1>1. CASE in \in DOMAIN st.open
  <2> DEFINE place == [st.open[in] EXCEPT !.users = @ + 1]
             pool == [st.open EXCEPT ![in] = place]
  <2>1. r = [st EXCEPT !.open = pool]
    BY <1>1 DEF Tool!iOpen, Tool!IsOpen
  <2>2. /\ DOMAIN place = {"users", "node"} /\ place.users = st.open[in].users + 1
        /\ place.node = st.open[in].node
    BY <1>1, PlaceFields DEF IsState, IsPool, IsPlace
  <2> HIDE DEF place
  <2>3. /\ DOMAIN pool = DOMAIN st.open /\ pool[in] = place
        /\ \A i \in DOMAIN st.open \ {in} : pool[i] = st.open[i]
    BY <1>1
  <2> HIDE DEF pool, r
  <2>4. /\ DOMAIN r = Fields /\ r.open = pool /\ r.table = st.table
        /\ r.sb = st.sb /\ r.sbDisk = st.sbDisk /\ r.thrown = st.thrown
    BY <2>1, OpenField DEF IsState
  <2>5. IsState(r)
    <3>1. IsPlace(place)
      BY <1>1, <2>2 DEF IsState, IsPool, IsPlace
    <3>2. IsPool(pool)
      BY <2>3, <3>1 DEF IsState, IsPool
    <3>3. QED
      BY <2>4, <3>2 DEF IsState
  <2>6. QED
    BY <1>1, <2>2, <2>3, <2>4, <2>5 DEF r
<1>2. CASE in \notin DOMAIN st.open
  <2> DEFINE pool == [i \in DOMAIN st.open \union {in} |->
                        IF i = in THEN [users |-> 1, node |-> st.table[in]] ELSE st.open[i]]
  <2>1. r = Tool!Throw(st) \/ (in \in Inodes /\ r = [st EXCEPT !.open = pool])
    BY <1>2 DEF Tool!iOpen, Tool!IsOpen, Inodes
  <2>2. CASE r = Tool!Throw(st)
    <3> HIDE DEF r
    <3>1. /\ DOMAIN r = Fields /\ r.open = st.open /\ r.table = st.table
          /\ r.sb = st.sb /\ r.sbDisk = st.sbDisk /\ r.thrown = TRUE
      BY <2>2, ThrownField DEF IsState
    <3>2. IsState(r)
      BY <3>1 DEF IsState
    <3>3. QED
      BY <1>2, <3>1, <3>2 DEF r
  <2>3. CASE in \in Inodes /\ r = [st EXCEPT !.open = pool]
    <3>1. /\ DOMAIN pool = DOMAIN st.open \union {in}
          /\ \A i \in DOMAIN st.open : pool[i] = st.open[i]
          /\ pool[in] = [users |-> 1, node |-> st.table[in]]
      BY <1>2
    <3>2. DOMAIN pool[in] = {"users", "node"} /\ pool[in].users = 1 /\ pool[in].node = st.table[in]
      BY <3>1
    <3> HIDE DEF pool, r
    <3>3. /\ DOMAIN r = Fields /\ r.open = pool /\ r.table = st.table
          /\ r.sb = st.sb /\ r.sbDisk = st.sbDisk /\ r.thrown = st.thrown
      BY <2>3, OpenField DEF IsState
    <3>4. IsState(r)
      <4>1. IsPlace(pool[in])
        BY <2>3, <3>2 DEF IsState, IsTable, IsPlace
      <4>2. IsPool(pool)
        BY <2>3, <3>1, <4>1 DEF IsState, IsPool
      <4>3. QED
        BY <3>3, <4>2 DEF IsState
    <3>5. QED
      BY <1>2, <2>3, <3>1, <3>2, <3>3, <3>4 DEF r
  <2>4. QED
    BY <2>1, <2>2, <2>3
<1>3. QED
  BY <1>1, <1>2

\* What a step leaves alone besides the pool, and what it leaves alone in the pool.
PoolOnly(st, r) ==
    r.table = st.table /\ r.sb = st.sb /\ r.sbDisk = st.sbDisk /\ r.thrown = st.thrown
Elsewhere(st, r, in) == \A i \in DOMAIN st.open \ {in} : i \in DOMAIN r.open /\ r.open[i] = st.open[i]

LEMMA SaveDoes ==
  ASSUME NEW st, IsState(st), ~st.thrown, NEW in \in DOMAIN st.open
  PROVE  LET r == Tool!iSave(st, in)
         IN  /\ IsState(r) /\ r.open = st.open /\ r.sb = st.sb /\ r.sbDisk = st.sbDisk /\ ~r.thrown
             /\ r.table[in] = st.open[in].node
             /\ \A i \in Inodes \ {in} : r.table[i] = st.table[i]
<1> DEFINE r == Tool!iSave(st, in)
           tab == [st.table EXCEPT ![in] = st.open[in].node]
<1>1. r = [st EXCEPT !.table = tab]
  BY DEF Tool!iSave, Tool!IsOpen
<1>2. DOMAIN tab = Inodes /\ tab[in] = st.open[in].node /\ \A i \in Inodes \ {in} : tab[i] = st.table[i]
  BY DEF IsState, IsTable, IsPool
<1> HIDE DEF tab, r
<1>3. /\ DOMAIN r = Fields /\ r.open = st.open /\ r.table = tab
      /\ r.sb = st.sb /\ r.sbDisk = st.sbDisk /\ r.thrown = st.thrown
  BY <1>1, TableField DEF IsState
<1>4. IsTable(tab)
  BY <1>2 DEF IsState, IsTable, IsPool, IsPlace
<1>5. IsState(r)
  BY <1>3, <1>4 DEF IsState
<1>6. QED
  BY <1>2, <1>3, <1>5 DEF r

LEMMA CloseDoes ==
  ASSUME NEW st, IsState(st), ~st.thrown, NEW in \in DOMAIN st.open
  PROVE  LET r == Tool!iClose(st, in)
         IN  /\ IsState(r) /\ PoolOnly(st, r) /\ Elsewhere(st, r, in)
             /\ DOMAIN r.open \subseteq DOMAIN st.open
             /\ st.open[in].users > 1 => /\ in \in DOMAIN r.open
                                         /\ r.open[in].users = st.open[in].users - 1
                                         /\ r.open[in].node = st.open[in].node
             /\ ~(st.open[in].users > 1) => in \notin DOMAIN r.open
<1> DEFINE r == Tool!iClose(st, in)
<1>1. CASE st.open[in].users > 1
  <2> DEFINE place == [st.open[in] EXCEPT !.users = @ - 1]
             pool == [st.open EXCEPT ![in] = place]
  <2>1. r = [st EXCEPT !.open = pool]
    BY <1>1 DEF Tool!iClose, Tool!IsOpen
  <2>2. /\ DOMAIN place = {"users", "node"} /\ place.users = st.open[in].users - 1
        /\ place.node = st.open[in].node
    BY PlaceFields DEF IsState, IsPool, IsPlace
  <2> HIDE DEF place
  <2>3. /\ DOMAIN pool = DOMAIN st.open /\ pool[in] = place
        /\ \A i \in DOMAIN st.open \ {in} : pool[i] = st.open[i]
    OBVIOUS
  <2> HIDE DEF pool, r
  <2>4. /\ DOMAIN r = Fields /\ r.open = pool /\ r.table = st.table
        /\ r.sb = st.sb /\ r.sbDisk = st.sbDisk /\ r.thrown = st.thrown
    BY <2>1, OpenField DEF IsState
  <2>5. IsState(r)
    <3>1. IsPlace(place)
      BY <1>1, <2>2 DEF IsState, IsPool, IsPlace
    <3>2. IsPool(pool)
      BY <2>3, <3>1 DEF IsState, IsPool
    <3>3. QED
      BY <2>4, <3>2 DEF IsState
  <2>6. QED
    BY <1>1, <2>2, <2>3, <2>4, <2>5 DEF r, PoolOnly, Elsewhere
<1>2. CASE ~(st.open[in].users > 1)
  <2> DEFINE pool == [i \in DOMAIN st.open \ {in} |-> st.open[i]]
  <2>1. r = [st EXCEPT !.open = pool]
    BY <1>2 DEF Tool!iClose, Tool!IsOpen
  <2>2. DOMAIN pool = DOMAIN st.open \ {in} /\ \A i \in DOMAIN st.open \ {in} : pool[i] = st.open[i]
    OBVIOUS
  <2> HIDE DEF pool, r
  <2>3. /\ DOMAIN r = Fields /\ r.open = pool /\ r.table = st.table
        /\ r.sb = st.sb /\ r.sbDisk = st.sbDisk /\ r.thrown = st.thrown
    BY <2>1, OpenField DEF IsState
  <2>4. IsState(r)
    <3>1. IsPool(pool)
      BY <2>2 DEF IsState, IsPool
    <3>2. QED
      BY <2>3, <3>1 DEF IsState
  <2>5. QED
    BY <1>2, <2>2, <2>3, <2>4 DEF r, PoolOnly, Elsewhere
<1>3. QED
  BY <1>1, <1>2

\* An assignment to the copy of an inode.
Assign(st, in, node) == [st EXCEPT !.open[in].node = node]

LEMMA AssignDoes ==
  ASSUME NEW st, IsState(st), NEW in \in DOMAIN st.open, NEW node, DOMAIN node = NodeFields
  PROVE  LET r == Assign(st, in, node)
         IN  /\ IsState(r) /\ PoolOnly(st, r) /\ Elsewhere(st, r, in)
             /\ DOMAIN r.open = DOMAIN st.open
             /\ r.open[in].users = st.open[in].users /\ r.open[in].node = node
<1> DEFINE r == Assign(st, in, node)
           place == [st.open[in] EXCEPT !.node = node]
           pool == [st.open EXCEPT ![in] = place]
<1>1. r = [st EXCEPT !.open = pool]
  BY DEF Assign
<1>2. /\ DOMAIN place = {"users", "node"} /\ place.users = st.open[in].users
      /\ place.node = node
  BY PlaceFields DEF IsState, IsPool, IsPlace
<1> HIDE DEF place
<1>3. /\ DOMAIN pool = DOMAIN st.open /\ pool[in] = place
      /\ \A i \in DOMAIN st.open \ {in} : pool[i] = st.open[i]
  OBVIOUS
<1> HIDE DEF pool, r
<1>4. /\ DOMAIN r = Fields /\ r.open = pool /\ r.table = st.table
      /\ r.sb = st.sb /\ r.sbDisk = st.sbDisk /\ r.thrown = st.thrown
  BY <1>1, OpenField DEF IsState
<1>5. IsState(r)
  <2>1. IsPlace(place)
    BY <1>2 DEF IsState, IsPool, IsPlace
  <2>2. IsPool(pool)
    BY <1>3, <2>1 DEF IsState, IsPool
  <2>3. QED
    BY <1>4, <2>2 DEF IsState
<1>6. QED
  BY <1>2, <1>3, <1>4, <1>5 DEF r, PoolOnly, Elsewhere

Super(h, f) == [ihead |-> h, ifree |-> f]

LEMMA SuperDoes ==
  ASSUME NEW st, IsState(st), ~st.thrown, NEW h, NEW f
  PROVE  LET r == Tool!SetSuper(st, h, f)
         IN  /\ IsState(r) /\ ~r.thrown /\ r.open = st.open /\ r.table = st.table
             /\ r.sb = Super(h, f) /\ r.sbDisk = st.sbDisk
<1> DEFINE r == Tool!SetSuper(st, h, f)
           new == Super(h, f)
<1>1. r = [st EXCEPT !.sb = new]
  BY DEF Tool!SetSuper, Super
<1> HIDE DEF r, new
<1>2. /\ DOMAIN r = Fields /\ r.open = st.open /\ r.table = st.table
      /\ r.sb = new /\ r.sbDisk = st.sbDisk /\ r.thrown = st.thrown
  BY <1>1, SbField DEF IsState
<1>3. IsState(r)
  BY <1>2 DEF IsState
<1>4. QED
  BY <1>2, <1>3 DEF r, new

LEMMA SaveSuperDoes ==
  ASSUME NEW st, IsState(st), ~st.thrown
  PROVE  LET r == Tool!sbSave(st)
         IN  /\ IsState(r) /\ ~r.thrown /\ r.open = st.open /\ r.table = st.table
             /\ r.sb = st.sb /\ r.sbDisk = st.sb
<1> DEFINE r == Tool!sbSave(st)
<1>1. r = [st EXCEPT !.sbDisk = st.sb]
  BY DEF Tool!sbSave
<1> HIDE DEF r
<1>2. /\ DOMAIN r = Fields /\ r.open = st.open /\ r.table = st.table
      /\ r.sb = st.sb /\ r.sbDisk = st.sb /\ r.thrown = st.thrown
  BY <1>1, SbDiskField DEF IsState
<1>3. IsState(r)
  BY <1>2 DEF IsState
<1>4. QED
  BY <1>2, <1>3 DEF r

\* The assignments to a copy are Assign of a node, which is a node again.
WithNext(node, n) == [node EXCEPT !.next = n]
WithPrev(node, p) == [node EXCEPT !.prev = p]
WithFree(node) == [node EXCEPT !.free = TRUE]

LEMMA NodesStay ==
  ASSUME NEW node, DOMAIN node = NodeFields
  PROVE  /\ \A n : LET r == WithNext(node, n)
                   IN  /\ DOMAIN r = NodeFields /\ r.next = n /\ r.prev = node.prev
                       /\ r.free = node.free /\ Tool!Attributes(r) = Tool!Attributes(node)
         /\ \A p : LET r == WithPrev(node, p)
                   IN  /\ DOMAIN r = NodeFields /\ r.next = node.next /\ r.prev = p
                       /\ r.free = node.free /\ Tool!Attributes(r) = Tool!Attributes(node)
         /\ LET r == WithFree(node)
            IN  /\ DOMAIN r = NodeFields /\ r.next = node.next /\ r.prev = node.prev
                /\ r.free = TRUE /\ Tool!Attributes(r) = Tool!Attributes(node)
         /\ LET r == Tool!Occupied(node)
            IN  /\ DOMAIN r = NodeFields /\ r.next = Time /\ r.prev = Time /\ r.free = FALSE
                /\ Tool!Attributes(r) = [lnkcnt |-> node.lnkcnt, perm |-> 0, owner |-> 0]
<1>1. ASSUME NEW n
      PROVE  LET r == WithNext(node, n)
             IN  /\ DOMAIN r = NodeFields /\ r.next = n /\ r.prev = node.prev
                 /\ r.free = node.free /\ Tool!Attributes(r) = Tool!Attributes(node)
  BY DEF WithNext, NodeFields, Tool!Attributes
<1>2. ASSUME NEW p
      PROVE  LET r == WithPrev(node, p)
             IN  /\ DOMAIN r = NodeFields /\ r.next = node.next /\ r.prev = p
                 /\ r.free = node.free /\ Tool!Attributes(r) = Tool!Attributes(node)
  BY DEF WithPrev, NodeFields, Tool!Attributes
<1>3. LET r == WithFree(node)
      IN  /\ DOMAIN r = NodeFields /\ r.next = node.next /\ r.prev = node.prev
          /\ r.free = TRUE /\ Tool!Attributes(r) = Tool!Attributes(node)
  BY DEF WithFree, NodeFields, Tool!Attributes
<1>4. LET r == Tool!Occupied(node)
      IN  /\ DOMAIN r = NodeFields /\ r.next = Time /\ r.prev = Time /\ r.free = FALSE
          /\ r.lnkcnt = node.lnkcnt /\ r.perm = 0 /\ r.owner = 0
  BY DEF Tool!Occupied, NodeFields
<1>5. Tool!Attributes(Tool!Occupied(node)) = [lnkcnt |-> node.lnkcnt, perm |-> 0, owner |-> 0]
  <2>1. PICK r : r = Tool!Occupied(node)
    OBVIOUS
  <2>2. QED
    BY <1>4, <2>1 DEF Tool!Attributes
<1>6. QED
  BY <1>1, <1>2, <1>3, <1>4, <1>5

LEMMA Assignments ==
  ASSUME NEW st, IsState(st), ~st.thrown
  PROVE  /\ \A in, n : Tool!SetNext(st, in, n) = Assign(st, in, WithNext(st.open[in].node, n))
         /\ \A in, p : Tool!SetPrev(st, in, p) = Assign(st, in, WithPrev(st.open[in].node, p))
         /\ \A in : Tool!SetFree(st, in) = Assign(st, in, WithFree(st.open[in].node))
         /\ Tool!Occupy(st) = Assign(st, st.sb.ihead, Tool!Occupied(st.open[st.sb.ihead].node))
BY DEF Tool!SetNext, Tool!SetPrev, Tool!SetFree, Tool!Occupy, Assign, WithNext, WithPrev, WithFree

-----------------------------------------------------------------------------
(***************************************************************************)
(* AttributesLast.  Whatever the step, and whether it throws or not, the   *)
(* table and the copies show the attributes t.                             *)
(***************************************************************************)
Shows(st, t) ==
    /\ IsState(st)
    /\ \A in \in Inodes : Tool!Attributes(st.table[in]) = t[in]
    /\ \A in \in DOMAIN st.open : Tool!Attributes(st.open[in].node) = t[in]

LEMMA ShowsPrimitives ==
  ASSUME NEW st, NEW t, Shows(st, t)
  PROVE  /\ Shows(Tool!Throw(st), t)
         /\ \A in : Shows(Tool!iOpen(st, in), t)
         /\ \A in : Shows(Tool!iSave(st, in), t)
         /\ \A in : Shows(Tool!iClose(st, in), t)
         /\ \A h, f : Shows(Tool!SetSuper(st, h, f), t)
         /\ Shows(Tool!sbSave(st), t)
<1>1. Shows(Tool!Throw(st), t)
  <2> DEFINE r == Tool!Throw(st)
  <2>1. /\ DOMAIN r = Fields /\ r.open = st.open /\ r.table = st.table
        /\ r.sb = st.sb /\ r.sbDisk = st.sbDisk /\ r.thrown = TRUE
    BY ThrownField DEF Shows, IsState
  <2> HIDE DEF r
  <2>2. QED
    BY <2>1 DEF Shows, IsState, r
<1>2. ASSUME st.thrown
      PROVE  /\ \A in : Tool!iOpen(st, in) = st /\ Tool!iSave(st, in) = st /\ Tool!iClose(st, in) = st
             /\ \A h, f : Tool!SetSuper(st, h, f) = st
             /\ Tool!sbSave(st) = st
  <2>1. \A in : Tool!iOpen(st, in) = st
    BY <1>2 DEF Tool!iOpen
  <2>2. \A in : Tool!iSave(st, in) = st
    BY <1>2 DEF Tool!iSave
  <2>3. \A in : Tool!iClose(st, in) = st
    BY <1>2 DEF Tool!iClose
  <2>4. (\A h, f : Tool!SetSuper(st, h, f) = st) /\ Tool!sbSave(st) = st
    BY <1>2 DEF Tool!SetSuper, Tool!sbSave
  <2>5. QED
    BY <2>1, <2>2, <2>3, <2>4
<1>3. ASSUME NEW in, ~st.thrown PROVE Shows(Tool!iOpen(st, in), t)
  <2>1. PICK r : r = Tool!iOpen(st, in)
    OBVIOUS
  <2>2. /\ IsState(r) /\ r.table = st.table
        /\ r.thrown => r.open = st.open
        /\ ~r.thrown => /\ DOMAIN r.open = DOMAIN st.open \union {in}
                        /\ \A i \in DOMAIN st.open \ {in} : r.open[i] = st.open[i]
                        /\ in \in DOMAIN st.open => r.open[in].node = st.open[in].node
                        /\ in \notin DOMAIN st.open => /\ in \in Inodes
                                                       /\ r.open[in].node = st.table[in]
    BY <1>3, <2>1, OpenDoes DEF Shows
  <2>3. \A i \in DOMAIN r.open : Tool!Attributes(r.open[i].node) = t[i]
    BY <2>2 DEF Shows
  <2>4. QED
    BY <2>1, <2>2, <2>3 DEF Shows
<1>4. ASSUME NEW in, ~st.thrown PROVE Shows(Tool!iSave(st, in), t)
  <2>1. CASE in \in DOMAIN st.open
    <3>1. PICK r : r = Tool!iSave(st, in)
      OBVIOUS
    <3>2. /\ IsState(r) /\ r.open = st.open /\ r.table[in] = st.open[in].node
          /\ \A i \in Inodes \ {in} : r.table[i] = st.table[i]
      BY <1>4, <2>1, <3>1, SaveDoes DEF Shows
    <3>3. \A i \in Inodes : Tool!Attributes(r.table[i]) = t[i]
      BY <2>1, <3>2 DEF Shows
    <3>4. QED
      BY <3>1, <3>2, <3>3 DEF Shows
  <2>2. CASE in \notin DOMAIN st.open
    BY <1>1, <1>4, <2>2 DEF Tool!iSave, Tool!IsOpen
  <2>3. QED
    BY <2>1, <2>2
<1>5. ASSUME NEW in, ~st.thrown PROVE Shows(Tool!iClose(st, in), t)
  <2>1. CASE in \in DOMAIN st.open
    <3>1. PICK r : r = Tool!iClose(st, in)
      OBVIOUS
    <3>2. /\ IsState(r) /\ PoolOnly(st, r) /\ Elsewhere(st, r, in)
          /\ DOMAIN r.open \subseteq DOMAIN st.open
          /\ in \in DOMAIN r.open => r.open[in].node = st.open[in].node
      BY <1>5, <2>1, <3>1, CloseDoes DEF Shows
    <3>3. \A i \in DOMAIN r.open : Tool!Attributes(r.open[i].node) = t[i]
      BY <3>2 DEF Shows, Elsewhere
    <3>4. QED
      BY <3>1, <3>2, <3>3 DEF Shows, PoolOnly
  <2>2. CASE in \notin DOMAIN st.open
    BY <1>1, <1>5, <2>2 DEF Tool!iClose, Tool!IsOpen
  <2>3. QED
    BY <2>1, <2>2
<1>6. ASSUME ~st.thrown
      PROVE  (\A h, f : Shows(Tool!SetSuper(st, h, f), t)) /\ Shows(Tool!sbSave(st), t)
  <2>1. ASSUME NEW h, NEW f PROVE Shows(Tool!SetSuper(st, h, f), t)
    <3>1. PICK r : r = Tool!SetSuper(st, h, f)
      OBVIOUS
    <3>2. IsState(r) /\ r.open = st.open /\ r.table = st.table
      <4>1. IsState(st)
        BY DEF Shows
      <4>2. QED
        BY <1>6, <3>1, <4>1, SuperDoes
    <3>3. QED
      BY <3>1, <3>2 DEF Shows
  <2>2. Shows(Tool!sbSave(st), t)
    <3>1. PICK r : r = Tool!sbSave(st)
      OBVIOUS
    <3>2. IsState(r) /\ r.open = st.open /\ r.table = st.table
      BY <1>6, <3>1, SaveSuperDoes DEF Shows
    <3>3. QED
      BY <3>1, <3>2 DEF Shows
  <2>3. QED
    BY <2>1, <2>2
<1>7. QED
  BY <1>1, <1>2, <1>3, <1>4, <1>5, <1>6

\* An assignment to the copy of an inode that is not open assigns nothing.
LEMMA ShowsAssign ==
  ASSUME NEW st, NEW t, Shows(st, t), NEW in, NEW node,
         in \in DOMAIN st.open => DOMAIN node = NodeFields /\ Tool!Attributes(node) = t[in]
  PROVE  Shows(Assign(st, in, node), t)
<1>1. CASE in \in DOMAIN st.open
  <2>1. PICK r : r = Assign(st, in, node)
    OBVIOUS
  <2>2. IsState(st)
    BY DEF Shows
  <2>3. /\ IsState(r) /\ PoolOnly(st, r) /\ Elsewhere(st, r, in)
        /\ DOMAIN r.open = DOMAIN st.open /\ r.open[in].node = node
    BY <1>1, <2>1, <2>2, AssignDoes
  <2>4. \A i \in DOMAIN r.open : Tool!Attributes(r.open[i].node) = t[i]
    BY <1>1, <2>3 DEF Shows, Elsewhere
  <2>5. QED
    BY <2>1, <2>3, <2>4 DEF Shows, PoolOnly
<1>2. CASE in \notin DOMAIN st.open
  <2> DEFINE r == Assign(st, in, node)
             pool == [st.open EXCEPT ![in] = [st.open[in] EXCEPT !.node = node]]
  <2>1. r = [st EXCEPT !.open = pool]
    BY DEF Assign
  <2>2. DOMAIN pool = DOMAIN st.open /\ \A i \in DOMAIN st.open : pool[i] = st.open[i]
    BY <1>2
  <2> HIDE DEF pool, r
  <2>3. /\ DOMAIN r = Fields /\ r.open = pool /\ r.table = st.table
        /\ r.sb = st.sb /\ r.sbDisk = st.sbDisk /\ r.thrown = st.thrown
    BY <2>1, OpenField DEF Shows, IsState
  <2>4. IsPool(pool)
    BY <2>2 DEF Shows, IsState, IsPool
  <2>5. IsState(r)
    BY <2>3, <2>4 DEF Shows, IsState
  <2>6. \A i \in DOMAIN r.open : Tool!Attributes(r.open[i].node) = t[i]
    BY <2>2, <2>3 DEF Shows
  <2>7. QED
    BY <2>3, <2>5, <2>6 DEF Shows, r
<1>3. QED
  BY <1>1, <1>2

LEMMA ShowsLinks ==
  ASSUME NEW st, NEW t, Shows(st, t), NEW in
  PROVE  /\ \A n : Shows(Tool!SetNext(st, in, n), t)
         /\ \A p : Shows(Tool!SetPrev(st, in, p), t)
         /\ Shows(Tool!SetFree(st, in), t)
<1>1. CASE st.thrown
  <2>1. \A n : Tool!SetNext(st, in, n) = st
    BY <1>1 DEF Tool!SetNext
  <2>2. \A p : Tool!SetPrev(st, in, p) = st
    BY <1>1 DEF Tool!SetPrev
  <2>3. Tool!SetFree(st, in) = st
    BY <1>1 DEF Tool!SetFree
  <2>4. QED
    BY <2>1, <2>2, <2>3
<1>2. CASE ~st.thrown
  <2> DEFINE node == st.open[in].node
  <2>1. in \in DOMAIN st.open => DOMAIN node = NodeFields /\ Tool!Attributes(node) = t[in]
    BY DEF Shows, IsState, IsPool, IsPlace
  <2>2. IsState(st)
    BY DEF Shows
  <2> HIDE DEF node
  <2>3. ASSUME NEW n PROVE Shows(Tool!SetNext(st, in, n), t)
    <3>1. Shows(Assign(st, in, WithNext(node, n)), t)
      <4>1. ASSUME in \in DOMAIN st.open
            PROVE  DOMAIN WithNext(node, n) = NodeFields /\ Tool!Attributes(WithNext(node, n)) = t[in]
        <5>1. DOMAIN node = NodeFields /\ Tool!Attributes(node) = t[in]
          BY <2>1, <4>1
        <5>2. /\ DOMAIN WithNext(node, n) = NodeFields
              /\ Tool!Attributes(WithNext(node, n)) = Tool!Attributes(node)
          BY <5>1 DEF WithNext, NodeFields, Tool!Attributes
        <5>3. QED
          BY <5>1, <5>2
      <4>2. QED
        BY <4>1, ShowsAssign
    <3>2. QED
      BY <1>2, <2>2, <3>1, Assignments DEF node
  <2>4. ASSUME NEW p PROVE Shows(Tool!SetPrev(st, in, p), t)
    <3>1. Shows(Assign(st, in, WithPrev(node, p)), t)
      <4>1. ASSUME in \in DOMAIN st.open
            PROVE  DOMAIN WithPrev(node, p) = NodeFields /\ Tool!Attributes(WithPrev(node, p)) = t[in]
        <5>1. DOMAIN node = NodeFields /\ Tool!Attributes(node) = t[in]
          BY <2>1, <4>1
        <5>2. /\ DOMAIN WithPrev(node, p) = NodeFields
              /\ Tool!Attributes(WithPrev(node, p)) = Tool!Attributes(node)
          BY <5>1 DEF WithPrev, NodeFields, Tool!Attributes
        <5>3. QED
          BY <5>1, <5>2
      <4>2. QED
        BY <4>1, ShowsAssign
    <3>2. QED
      BY <1>2, <2>2, <3>1, Assignments DEF node
  <2>5. Shows(Tool!SetFree(st, in), t)
    <3>1. Shows(Assign(st, in, WithFree(node)), t)
      <4>1. ASSUME in \in DOMAIN st.open
            PROVE  DOMAIN WithFree(node) = NodeFields /\ Tool!Attributes(WithFree(node)) = t[in]
        <5>1. DOMAIN node = NodeFields /\ Tool!Attributes(node) = t[in]
          BY <2>1, <4>1
        <5>2. /\ DOMAIN WithFree(node) = NodeFields
              /\ Tool!Attributes(WithFree(node)) = Tool!Attributes(node)
          BY <5>1, NodesStay
        <5>3. QED
          BY <5>1, <5>2
      <4>2. QED
        BY <4>1, ShowsAssign
    <3>2. QED
      BY <1>2, <2>2, <3>1, Assignments DEF node
  <2>6. QED
    BY <2>3, <2>4, <2>5
<1>3. QED
  BY <1>1, <1>2

LEMMA ShowsSaveAndClose ==
  ASSUME NEW st, NEW t, Shows(st, t), NEW in
  PROVE  Shows(Tool!SaveAndClose(st, in), t)
BY ShowsPrimitives DEF Tool!SaveAndClose

\* A copy that is changed, saved and closed.
LEMMA ShowsChange ==
  ASSUME NEW st, NEW t, Shows(st, t), ~st.thrown, NEW in \in DOMAIN st.open,
         NEW node, DOMAIN node = NodeFields,
         NEW t2, t2[in] = Tool!Attributes(node), \A i \in Inodes \ {in} : t2[i] = t[i]
  PROVE  LET r == Tool!SaveAndClose(Assign(st, in, node), in)
         IN  Shows(r, t2) /\ ~r.thrown
<1>1. PICK a : a = Assign(st, in, node)
  OBVIOUS
<1>2. IsState(st)
  BY DEF Shows
<1>3. /\ IsState(a) /\ PoolOnly(st, a) /\ Elsewhere(st, a, in)
      /\ DOMAIN a.open = DOMAIN st.open /\ a.open[in].node = node
  BY <1>1, <1>2, AssignDoes
<1>4. PICK b : b = Tool!iSave(a, in)
  OBVIOUS
<1>5. /\ IsState(b) /\ b.open = a.open /\ b.table[in] = a.open[in].node /\ ~b.thrown
      /\ \A i \in Inodes \ {in} : b.table[i] = a.table[i]
  BY <1>3, <1>4, SaveDoes DEF PoolOnly
<1>6. \A i \in Inodes : Tool!Attributes(b.table[i]) = t2[i]
  BY <1>3, <1>5 DEF Shows, PoolOnly
<1>7. \A i \in DOMAIN b.open : Tool!Attributes(b.open[i].node) = t2[i]
  <2>1. DOMAIN st.open \subseteq Inodes
    BY <1>2 DEF IsState, IsPool
  <2>2. QED
    BY <1>3, <1>5, <2>1 DEF Shows, Elsewhere
<1>8. Shows(b, t2)
  BY <1>5, <1>6, <1>7 DEF Shows
<1>9. ~Tool!iClose(b, in).thrown
  BY <1>3, <1>5, CloseDoes DEF PoolOnly
<1>10. QED
  BY <1>1, <1>4, <1>8, <1>9, ShowsPrimitives DEF Tool!SaveAndClose

-----------------------------------------------------------------------------
(* AttributesLast: soAllocInode and soFreeInode.                           *)

LEMMA ShowsNewHead ==
  ASSUME NEW st, NEW t, Shows(st, t), NEW next, NEW prev
  PROVE  Shows(Tool!NewHead(st, next, prev), t)
<1>1. Shows(Tool!SetSuper(st, NullReference, 0), t)
  BY ShowsPrimitives
<1>2. ASSUME NEW s, Shows(s, t)
      PROVE  Shows(Tool!SaveAndClose(Tool!SetNext(Tool!SetPrev(Tool!iOpen(s, next), next, prev),
                                                  next, next), next), t)
  BY <1>2, ShowsPrimitives, ShowsLinks, ShowsSaveAndClose
<1>3. ASSUME NEW s, Shows(s, t)
      PROVE  Shows(Tool!iClose(Tool!iClose(Tool!iSave(Tool!iSave(
                Tool!SetNext(Tool!SetPrev(Tool!iOpen(Tool!iOpen(s, next), prev),
                             next, prev), prev, next),
                next), prev), next), prev), t)
  <2>1. PICK a : a = Tool!SetNext(Tool!SetPrev(Tool!iOpen(Tool!iOpen(s, next), prev),
                                               next, prev), prev, next)
    OBVIOUS
  <2>2. Shows(a, t)
    BY <1>3, <2>1, ShowsPrimitives, ShowsLinks
  <2>3. QED
    BY <2>1, <2>2, ShowsPrimitives
<1>4. \A h, f : Shows(Tool!SetSuper(st, h, f), t)
  BY ShowsPrimitives
<1>5. QED
  BY <1>1, <1>2, <1>3, <1>4 DEF Tool!NewHead

\* The head loses permissions and owner, or nothing at all has happened.
LEMMA ShowsAlloc ==
  ASSUME NEW st, NEW t, Shows(st, t), ~st.thrown, NEW h, h = st.sb.ihead,
         NEW t2, \A i \in Inodes \ {h} : t2[i] = t[i],
         h \in Inodes => t2[h] = [lnkcnt |-> t[h].lnkcnt, perm |-> 0, owner |-> 0],
         NEW r, r = Tool!soAllocInode(st)
  PROVE  Shows(r, t2) \/ (Shows(r, t) /\ r.table = st.table)
<1>1. IsState(st)
  BY DEF Shows
<1>2. CASE st.sb.ifree = 0
  <2>1. r = Tool!Throw(st)
    BY <1>2 DEF Tool!soAllocInode
  <2>2. r.table = st.table
    BY <1>1, <2>1, ThrownField, ZenonT(30) DEF IsState
  <2>3. QED
    BY <2>1, <2>2, ShowsPrimitives
<1>3. CASE st.sb.ifree # 0
  <2>1. PICK o : o = Tool!iOpen(st, h)
    OBVIOUS
  <2>2. /\ IsState(o) /\ o.table = st.table /\ o.sb = st.sb
        /\ ~o.thrown => h \in DOMAIN o.open
    BY <1>1, <2>1, OpenDoes
  <2>3. Shows(o, t)
    BY <2>1, ShowsPrimitives
  <2>4. PICK node : r = Tool!AllocHead(o, node)
    BY <1>3, <2>1 DEF Tool!soAllocInode
  <2>5. CASE o.thrown
    <3>1. r = o
      BY <2>4, <2>5 DEF Tool!AllocHead
    <3>2. QED
      BY <2>2, <2>3, <3>1
  <2>6. CASE ~o.thrown
    <3>1. PICK new : new = Tool!Occupied(o.open[h].node)
      OBVIOUS
    <3>2. Tool!Occupy(o) = Assign(o, h, new)
      BY <2>2, <2>6, <3>1, Assignments
    <3>3. h \in DOMAIN o.open /\ h \in Inodes
      BY <2>2, <2>6 DEF IsState, IsPool
    <3>4. /\ DOMAIN new = NodeFields
          /\ Tool!Attributes(new) = [lnkcnt |-> o.open[h].node.lnkcnt, perm |-> 0, owner |-> 0]
      <4>1. DOMAIN o.open[h].node = NodeFields
        BY <2>2, <3>3 DEF IsState, IsPool, IsPlace
      <4>2. QED
        BY <3>1, <4>1, NodesStay
    <3>5. t2[h] = Tool!Attributes(new)
      <4>1. Tool!Attributes(o.open[h].node) = t[h]
        BY <2>3, <3>3 DEF Shows
      <4>2. t[h].lnkcnt = o.open[h].node.lnkcnt
        BY <4>1 DEF Tool!Attributes
      <4>3. QED
        BY <3>3, <3>4, <4>2
    <3>6. PICK c : c = Tool!SaveAndClose(Assign(o, h, new), h)
      OBVIOUS
    <3>7. Shows(c, t2)
      BY <2>3, <2>6, <3>3, <3>4, <3>5, <3>6, ShowsChange
    <3>8. r = Tool!sbSave(Tool!NewHead(c, node.next, node.prev))
      BY <2>2, <2>4, <2>6, <3>2, <3>6 DEF Tool!AllocHead
    <3>9. QED
      BY <3>7, <3>8, ShowsNewHead, ShowsPrimitives
  <2>7. QED
    BY <2>5, <2>6
<1>4. QED
  BY <1>2, <1>3

LEMMA ShowsFree ==
  ASSUME NEW st, NEW t, Shows(st, t), NEW in
  PROVE  Shows(Tool!soFreeInode(st, in), t)
<1>1. PICK o : o = Tool!SetFree(Tool!iOpen(st, in), in)
  OBVIOUS
<1>2. Shows(o, t)
  BY <1>1, ShowsPrimitives, ShowsLinks
<1>3. Shows(Tool!AtTail(o, in), t)
  <2>1. Shows(Tool!SetPrev(Tool!SetNext(Tool!SetSuper(o, in, 0), in, in), in, in), t)
    BY <1>2, ShowsPrimitives, ShowsLinks
  <2>2. ASSUME NEW head PROVE Shows(Tool!BesideOne(o, in, head), t)
    <3>1. PICK a : a = Tool!SetNext(Tool!SetPrev(Tool!iOpen(o, head), head, in), head, in)
      OBVIOUS
    <3>2. Shows(a, t)
      BY <1>2, <3>1, ShowsPrimitives, ShowsLinks
    <3>3. Shows(Tool!SetPrev(Tool!SetNext(a, in, head), in, head), t)
      BY <3>2, ShowsLinks
    <3>4. QED
      BY <3>1, <3>3, ShowsSaveAndClose DEF Tool!BesideOne
  <2>3. ASSUME NEW head PROVE Shows(Tool!BehindTail(Tool!iOpen(o, head), in, head), t)
    <3>1. PICK a : a = Tool!iOpen(o, head)
      OBVIOUS
    <3>2. Shows(a, t)
      BY <1>2, <3>1, ShowsPrimitives
    <3>3. ASSUME NEW tail PROVE Shows(Tool!SaveEnds(Tool!BeforeHead(a, in, head, tail), head, tail), t)
      <4>1. PICK b : b = Tool!SetNext(Tool!SetNext(Tool!iOpen(a, tail), tail, in), in, head)
        OBVIOUS
      <4>2. Shows(b, t)
        BY <3>2, <4>1, ShowsPrimitives, ShowsLinks
      <4>3. Shows(Tool!BeforeHead(a, in, head, tail), t)
        BY <4>1, <4>2, ShowsLinks DEF Tool!BeforeHead
      <4>4. QED
        BY <4>3, ShowsSaveAndClose DEF Tool!SaveEnds
    <3>4. QED
      BY <3>1, <3>2, <3>3 DEF Tool!BehindTail
  <2>4. QED
    BY <2>1, <2>2, <2>3 DEF Tool!AtTail
<1>4. QED
  BY <1>1, <1>3, ShowsPrimitives, ShowsSaveAndClose DEF Tool!soFreeInode, Tool!CountFree

-----------------------------------------------------------------------------
(* AttributesLast: the commands, and opening and closing the disk.         *)

ShowsAll(pool, tab, t) ==
    /\ IsTable(tab) /\ IsPool(pool)
    /\ \A in \in Inodes : Tool!Attributes(tab[in]) = t[in]
    /\ \A in \in DOMAIN pool : Tool!Attributes(pool[in].node) = t[in]

AInv == ShowsAll(open, table, told) /\ DOMAIN told = Inodes

LEMMA StateFields ==
  LET st == Tool!State
  IN  /\ DOMAIN st = Fields /\ st.open = open /\ st.table = table
      /\ st.sb = super /\ st.sbDisk = superDisk /\ st.thrown = FALSE
BY DEF Tool!State, Fields

LEMMA ShownByState ==
  ASSUME AInv
  PROVE  Shows(Tool!State, told) /\ ~Tool!State.thrown
<1>1. PICK st : st = Tool!State
  OBVIOUS
<1>2. /\ DOMAIN st = Fields /\ st.open = open /\ st.table = table /\ st.thrown = FALSE
  BY <1>1, StateFields
<1>3. Shows(st, told) /\ ~st.thrown
  BY <1>2 DEF AInv, ShowsAll, Shows, IsState
<1>4. QED
  BY <1>1, <1>3

LEMMA ShownAfter ==
  ASSUME NEW st, Shows(st, told'), NEW w, Tool!Step(st, w), DOMAIN told' = Inodes
  PROVE  AInv'
<1>1. table' = st.table /\ open' = st.open
  BY DEF Tool!Step
<1>2. ShowsAll(st.open, st.table, told')
  BY DEF Shows, ShowsAll, IsState
<1>3. QED
  BY <1>1, <1>2 DEF AInv, ShowsAll, IsTable, IsPool, Inodes, Tool!Inodes

LEMMA AllocShows ==
  ASSUME AInv, Tool!allocInode
  PROVE  AInv'
<1>1. PICK st : /\ st = Tool!soAllocInode(Tool!State)
                /\ Tool!Step(st, left)
                /\ told' = IF st.table = table THEN told
                           ELSE [told EXCEPT ![super.ihead] =
                                   [lnkcnt |-> @.lnkcnt, perm |-> 0, owner |-> 0]]
  BY DEF Tool!allocInode, Tool!Command
<1> DEFINE t2 == [told EXCEPT ![super.ihead] = [lnkcnt |-> @.lnkcnt, perm |-> 0, owner |-> 0]]
<1>2. DOMAIN told = Inodes
  BY DEF AInv
<1>3. /\ DOMAIN t2 = Inodes /\ \A i \in Inodes \ {super.ihead} : t2[i] = told[i]
      /\ super.ihead \in Inodes =>
            t2[super.ihead] = [lnkcnt |-> told[super.ihead].lnkcnt, perm |-> 0, owner |-> 0]
  BY <1>2
<1>4. told' = IF st.table = table THEN told ELSE t2
  BY <1>1
<1> HIDE DEF t2
<1>5. PICK s : s = Tool!State
  OBVIOUS
<1>6. Shows(s, told) /\ ~s.thrown /\ s.table = table /\ s.sb = super
  BY <1>5, ShownByState, StateFields
<1>7. Shows(st, t2) \/ (Shows(st, told) /\ st.table = table)
  BY <1>1, <1>3, <1>5, <1>6, ShowsAlloc
<1>8. Shows(st, told')
  <2>1. CASE st.table = table
    <3>1. \A i \in Inodes : Tool!Attributes(table[i]) = told[i]
      BY DEF AInv, ShowsAll
    <3>2. Shows(st, t2) => Shows(st, told)
      <4>1. SUFFICES ASSUME Shows(st, t2) PROVE Shows(st, told)
        OBVIOUS
      <4>2. \A i \in Inodes : t2[i] = told[i]
        BY <2>1, <3>1, <4>1 DEF Shows
      <4>3. QED
        BY <4>1, <4>2 DEF Shows, IsState, IsPool
    <3>3. QED
      BY <1>4, <1>7, <2>1, <3>2
  <2>2. CASE st.table # table
    BY <1>4, <1>7, <2>2
  <2>3. QED
    BY <2>1, <2>2
<1>9. DOMAIN told' = Inodes
  BY <1>2, <1>3, <1>4
<1>10. QED
  BY <1>1, <1>8, <1>9, ShownAfter

LEMMA FreeShows ==
  ASSUME AInv, Tool!freeInode
  PROVE  AInv'
<1>1. PICK in : \E st \in {Tool!soFreeInode(Tool!State, in)} :
         /\ Tool!Step(st, IF super.ifree = 1 THEN Tool!TookBack(st, in) ELSE Tool!Kept(st, in))
         /\ told' = told
  BY DEF Tool!freeInode, Tool!Command
<1>2. PICK st, w : st = Tool!soFreeInode(Tool!State, in) /\ Tool!Step(st, w) /\ told' = told
  BY <1>1
<1>3. Shows(st, told)
  BY <1>2, ShownByState, ShowsFree
<1>4. QED
  BY <1>2, <1>3, ShownAfter DEF AInv

LEMMA ChangeShows ==
  ASSUME AInv, NEW in \in Inodes, NEW node, DOMAIN node = NodeFields, NEW throws \in BOOLEAN,
         Tool!ChangeInode(in, node, throws)
  PROVE  AInv'
<1>1. PICK o : o = Tool!iOpen(Tool!State, in)
  OBVIOUS
<1>2. PICK st : /\ st = Tool!Change(o, in, node, throws)
                /\ Tool!Step(st, Tool!Kept(st, in))
                /\ told' = IF st.thrown THEN told ELSE [told EXCEPT ![in] = Tool!Attributes(node)]
  BY <1>1 DEF Tool!ChangeInode, Tool!Command
<1>3. Shows(o, told) /\ (~o.thrown => in \in DOMAIN o.open)
  BY <1>1, ShownByState, ShowsPrimitives, OpenDoes DEF Shows
<1>4. Shows(st, told') /\ DOMAIN told' = Inodes
  <2>1. CASE o.thrown
    <3>1. st = o
      BY <1>2, <2>1 DEF Tool!Change
    <3>2. QED
      BY <1>2, <1>3, <2>1, <3>1 DEF AInv
  <2>2. CASE ~o.thrown /\ throws
    <3>1. st = Tool!Throw(o)
      BY <1>2, <2>2 DEF Tool!Change
    <3>2. st.thrown = TRUE
      BY <1>3, <3>1, ThrownField DEF Shows, IsState
    <3>3. QED
      BY <1>2, <1>3, <3>1, <3>2, ShowsPrimitives DEF AInv
  <2>3. CASE ~o.thrown /\ ~throws
    <3> DEFINE t2 == [told EXCEPT ![in] = Tool!Attributes(node)]
    <3>1. st = Tool!SaveAndClose(Assign(o, in, node), in)
      BY <1>2, <2>3 DEF Tool!Change, Assign
    <3>2. t2[in] = Tool!Attributes(node) /\ DOMAIN t2 = Inodes /\ \A i \in Inodes \ {in} : t2[i] = told[i]
      BY DEF AInv
    <3>3. ~st.thrown => told' = t2
      BY <1>2
    <3> HIDE DEF t2
    <3>4. Shows(st, t2) /\ ~st.thrown
      BY <1>3, <2>3, <3>1, <3>2, ShowsChange
    <3>5. QED
      BY <3>2, <3>3, <3>4
  <2>4. QED
    BY <2>1, <2>2, <2>3
<1>5. QED
  BY <1>2, <1>4, ShownAfter

\* The commands that change nothing of an inode or of the list, and the steps of traversePath
\* that open and close inodes.
Errand ==
    \/ \E in, throws : Tool!Asks(in, throws) \/ Tool!Hands(in, throws)
    \/ Tool!freeFileClusters \/ Tool!SavesSuper
    \/ Tool!refuseName \/ Tool!nextName \/ Tool!nextNameOfLink

LEMMA ExecParts ==
  ASSUME Tool!exec
  PROVE  \/ Tool!allocInode \/ Tool!freeInode
         \/ Tool!setInodeAccess \/ Tool!changeOwnership
         \/ Tool!decInodeLnkcnt \/ Tool!incInodeLnkcnt
         \/ Errand
<1>1. ASSUME \/ Tool!checkInodeAccess \/ Tool!getDirEntry \/ Tool!getFileCluster
             \/ Tool!readFileCluster
      PROVE  \E in, throws : Tool!Asks(in, throws)
  BY <1>1 DEF Tool!checkInodeAccess, Tool!getDirEntry, Tool!getFileCluster, Tool!readFileCluster
<1>2. ASSUME \/ Tool!addDirEntry \/ Tool!renameDirEntry \/ Tool!deleteDirEntry
             \/ Tool!allocFileCluster \/ Tool!writeFileCluster
      PROVE  \E in, throws : Tool!Hands(in, throws)
  BY <1>2 DEF Tool!addDirEntry, Tool!renameDirEntry, Tool!deleteDirEntry, Tool!allocFileCluster,
              Tool!writeFileCluster
<1>3. ASSUME Tool!allocCluster \/ Tool!freeCluster \/ Tool!replenish \/ Tool!deplete
      PROVE  Tool!SavesSuper
  BY <1>3 DEF Tool!allocCluster, Tool!freeCluster, Tool!replenish, Tool!deplete
<1>4. QED
  BY <1>1, <1>2, <1>3, Zenon DEF Tool!exec, Errand

LEMMA TraverseParts ==
  ASSUME Tool!traverse
  PROVE  Errand \/ UNCHANGED <<device, table, open, super, superDisk, told, left, damage>>
BY DEF Tool!traverse, Tool!traversePath, Errand

\* How they end, and what of the users of inodes they leave.
LEMMA AsksSteps ==
  ASSUME NEW in, NEW throws, Tool!Asks(in, throws), NEW o, o = Tool!iOpen(Tool!State, in)
  PROVE  \E st : /\ Tool!Step(st, Tool!Kept(st, in)) /\ told' = told /\ damage' = damage
                 /\ \/ o.thrown /\ st = o
                    \/ ~o.thrown /\ st = Tool!Throw(o)
                    \/ ~o.thrown /\ st = Tool!iClose(o, in)
BY DEF Tool!Asks, Tool!Command

LEMMA HandsSteps ==
  ASSUME NEW in, NEW throws, Tool!Hands(in, throws), NEW o, o = Tool!iOpen(Tool!State, in)
  PROVE  \E b, st :
            /\ b \in {o, Tool!sbSave(o), Tool!iSave(Tool!sbSave(o), in)}
            /\ Tool!Step(st, Tool!Kept(st, in)) /\ told' = told /\ damage' = damage
            /\ st = Tool!Throw(b) \/ st = Tool!SaveAndClose(b, in)
BY DEF Tool!Hands, Tool!Below, Tool!Command

LEMMA FreeClustersSteps ==
  ASSUME Tool!freeFileClusters
  PROVE  \E in, o, st :
            /\ o = Tool!iOpen(Tool!State, in)
            /\ Tool!Step(st, Tool!TookBack(st, in)) /\ told' = told /\ damage' = damage
            /\ \/ st = Tool!Throw(o) \/ st = Tool!Throw(Tool!sbSave(o))
               \/ st = Tool!SaveAndClose(Tool!sbSave(Tool!SaveAndClose(o, in)), in)
BY DEF Tool!freeFileClusters, Tool!soFreeFileClusters, Tool!Command

LEMMA SaveSuperSteps ==
  ASSUME Tool!SavesSuper
  PROVE  \E st : /\ st = Tool!State \/ st = Tool!sbSave(Tool!State)
                 /\ Tool!Step(st, left) /\ told' = told /\ damage' = damage
BY DEF Tool!SavesSuper, Tool!Command

LEMMA RefuseSteps ==
  ASSUME Tool!refuseName
  PROVE  \E at, st, w :
            /\ st = Tool!Throw(Tool!iOpen(Tool!iOpen(Tool!State, at), at))
            /\ w = IF at \in DOMAIN st.open THEN Tool!Leave(Tool!Kept(st, at), at) ELSE left
            /\ Tool!Step(st, w) /\ told' = told /\ damage' = damage
BY DEF Tool!refuseName, Tool!Walks, Tool!Opened

LEMMA NameSteps ==
  ASSUME Tool!nextName
  PROVE  \E at, found, st, w :
            /\ st = Tool!iOpen(Tool!iClose(Tool!iOpen(Tool!iOpen(Tool!State, at), at), at), found)
            /\ \/ st.thrown /\ w = Tool!Kept(st, at)
               \/ ~st.thrown /\ w = Tool!Leave(Tool!Leave(left, at), found)
            /\ Tool!Step(st, w) /\ told' = told /\ damage' = damage
BY DEF Tool!nextName, Tool!Walks, Tool!Opened

LEMMA LinkSteps ==
  ASSUME Tool!nextNameOfLink
  PROVE  \E at, st, w : /\ st = Tool!iOpen(Tool!State, at)
                        /\ \/ st.thrown /\ w = left
                           \/ ~st.thrown /\ w = Tool!Leave(left, at)
                        /\ Tool!Step(st, w) /\ told' = told /\ damage' = damage
BY DEF Tool!nextNameOfLink, Tool!Walks

LEMMA ErrandShows ==
  ASSUME AInv, Errand
  PROVE  AInv' /\ damage' = damage /\ \E st, w : Tool!Step(st, w)
<1> DEFINE Shown == \E st, w : /\ Tool!Step(st, w) /\ told' = told /\ damage' = damage
                               /\ Shows(st, told)
<1>1. PICK s : s = Tool!State /\ Shows(s, told)
  BY ShownByState
<1>2. ASSUME NEW in, NEW throws, Tool!Asks(in, throws) PROVE Shown
  <2>1. PICK o : o = Tool!iOpen(Tool!State, in)
    OBVIOUS
  <2>2. Shows(o, told)
    BY <1>1, <2>1, ShowsPrimitives
  <2>3. Shows(Tool!Throw(o), told) /\ Shows(Tool!iClose(o, in), told)
    BY <2>2, ShowsPrimitives
  <2>4. PICK st : /\ Tool!Step(st, Tool!Kept(st, in)) /\ told' = told /\ damage' = damage
                  /\ st = o \/ st = Tool!Throw(o) \/ st = Tool!iClose(o, in)
    BY <1>2, <2>1, AsksSteps
  <2>5. QED
    BY <2>2, <2>3, <2>4
<1>3. ASSUME NEW in, NEW throws, Tool!Hands(in, throws) PROVE Shown
  <2>1. PICK o : o = Tool!iOpen(Tool!State, in)
    OBVIOUS
  <2>2. PICK b, st :
           /\ b \in {o, Tool!sbSave(o), Tool!iSave(Tool!sbSave(o), in)}
           /\ Tool!Step(st, Tool!Kept(st, in)) /\ told' = told /\ damage' = damage
           /\ st = Tool!Throw(b) \/ st = Tool!SaveAndClose(b, in)
    BY <1>3, <2>1, HandsSteps
  <2>3. Shows(o, told)
    BY <1>1, <2>1, ShowsPrimitives
  <2>4. Shows(Tool!sbSave(o), told)
    BY <2>3, ShowsPrimitives
  <2>5. Shows(b, told)
    BY <2>2, <2>3, <2>4, ShowsPrimitives
  <2>6. Shows(st, told)
    BY <2>2, <2>5, ShowsPrimitives, ShowsSaveAndClose
  <2>7. QED
    BY <2>2, <2>6
<1>4. ASSUME Tool!freeFileClusters PROVE Shown
  <2>1. PICK in, o, st :
           /\ o = Tool!iOpen(Tool!State, in)
           /\ Tool!Step(st, Tool!TookBack(st, in)) /\ told' = told /\ damage' = damage
           /\ \/ st = Tool!Throw(o) \/ st = Tool!Throw(Tool!sbSave(o))
              \/ st = Tool!SaveAndClose(Tool!sbSave(Tool!SaveAndClose(o, in)), in)
    BY <1>4, FreeClustersSteps
  <2>2. Shows(o, told)
    BY <1>1, <2>1, ShowsPrimitives
  <2>3. Shows(Tool!sbSave(o), told) /\ Shows(Tool!SaveAndClose(o, in), told)
    BY <2>2, ShowsPrimitives, ShowsSaveAndClose
  <2>4. Shows(Tool!sbSave(Tool!SaveAndClose(o, in)), told)
    BY <2>3, ShowsPrimitives
  <2>5. Shows(st, told)
    BY <2>1, <2>2, <2>3, <2>4, ShowsPrimitives, ShowsSaveAndClose
  <2>6. QED
    BY <2>1, <2>5
<1>5. ASSUME Tool!SavesSuper PROVE Shown
  <2>1. PICK st : /\ st = s \/ st = Tool!sbSave(s)
                  /\ Tool!Step(st, left) /\ told' = told /\ damage' = damage
    BY <1>1, <1>5, SaveSuperSteps
  <2>2. Shows(st, told)
    BY <1>1, <2>1, ShowsPrimitives
  <2>3. QED
    BY <2>1, <2>2
<1>6. ASSUME Tool!refuseName PROVE Shown
  <2>1. PICK at, st, w : /\ st = Tool!Throw(Tool!iOpen(Tool!iOpen(Tool!State, at), at))
                         /\ Tool!Step(st, w) /\ told' = told /\ damage' = damage
    BY <1>6, RefuseSteps
  <2>2. Shows(Tool!iOpen(Tool!State, at), told)
    BY <1>1, ShowsPrimitives
  <2>3. Shows(Tool!iOpen(Tool!iOpen(Tool!State, at), at), told)
    BY <2>2, ShowsPrimitives
  <2>4. Shows(st, told)
    BY <2>1, <2>3, ShowsPrimitives
  <2>5. QED
    BY <2>1, <2>4
<1>7. ASSUME Tool!nextName PROVE Shown
  <2>1. PICK at, found, st, w :
           /\ st = Tool!iOpen(Tool!iClose(Tool!iOpen(Tool!iOpen(Tool!State, at), at), at), found)
           /\ Tool!Step(st, w) /\ told' = told /\ damage' = damage
    BY <1>7, NameSteps
  <2>2. Shows(Tool!iOpen(Tool!State, at), told)
    BY <1>1, ShowsPrimitives
  <2>3. Shows(Tool!iOpen(Tool!iOpen(Tool!State, at), at), told)
    BY <2>2, ShowsPrimitives
  <2>4. Shows(Tool!iClose(Tool!iOpen(Tool!iOpen(Tool!State, at), at), at), told)
    BY <2>3, ShowsPrimitives
  <2>5. Shows(st, told)
    BY <2>1, <2>4, ShowsPrimitives
  <2>6. QED
    BY <2>1, <2>5
<1>8. ASSUME Tool!nextNameOfLink PROVE Shown
  <2>1. PICK at, st, w : /\ st = Tool!iOpen(Tool!State, at)
                         /\ Tool!Step(st, w) /\ told' = told /\ damage' = damage
    BY <1>8, LinkSteps
  <2>2. Shows(st, told)
    BY <1>1, <2>1, ShowsPrimitives
  <2>3. QED
    BY <2>1, <2>2
<1>9. Shown
  BY <1>2, <1>3, <1>4, <1>5, <1>6, <1>7, <1>8 DEF Errand
<1>10. PICK st, w : Tool!Step(st, w) /\ told' = told /\ damage' = damage /\ Shows(st, told)
  BY <1>9
<1>11. AInv'
  BY <1>10, ShownAfter DEF AInv
<1>12. QED
  BY <1>10, <1>11

\* Every command, successful or not.
LEMMA ExecShows ==
  ASSUME AInv, Tool!exec
  PROVE  AInv'
<1> DEFINE Node(in) == Tool!NodeOf(in)
<1>1. ASSUME NEW in \in Inodes PROVE DOMAIN Node(in) = NodeFields
  BY DEF AInv, ShowsAll, IsTable, IsPool, IsPlace, Tool!NodeOf
<1>2. CASE Tool!allocInode
  BY <1>2, AllocShows
<1>3. CASE Tool!freeInode
  BY <1>3, FreeShows
<1>4. CASE Tool!setInodeAccess
  <2>1. PICK in \in Inodes, perm \in Perms, sticky \in BOOLEAN :
           Tool!ChangeInode(in, [Node(in) EXCEPT !.perm = perm, !.free = @ \/ sticky], FALSE)
    BY <1>4 DEF Tool!setInodeAccess, Inodes
  <2>2. DOMAIN [Node(in) EXCEPT !.perm = perm, !.free = @ \/ sticky] = NodeFields
    BY <1>1
  <2>3. QED
    BY <2>1, <2>2, ChangeShows
<1>5. CASE Tool!changeOwnership
  <2>1. PICK in \in Inodes, owner \in Owners :
           Tool!ChangeInode(in, [Node(in) EXCEPT !.owner = owner], FALSE)
    BY <1>5 DEF Tool!changeOwnership, Inodes
  <2>2. DOMAIN [Node(in) EXCEPT !.owner = owner] = NodeFields
    BY <1>1
  <2>3. QED
    BY <2>1, <2>2, ChangeShows
<1>6. CASE Tool!decInodeLnkcnt
  <2>1. PICK in \in Inodes :
           Tool!ChangeInode(in, [Node(in) EXCEPT !.lnkcnt = IF @ = 0 THEN 0 ELSE @ - 1], FALSE)
    BY <1>6 DEF Tool!decInodeLnkcnt, Inodes
  <2>2. DOMAIN [Node(in) EXCEPT !.lnkcnt = IF @ = 0 THEN 0 ELSE @ - 1] = NodeFields
    BY <1>1
  <2>3. QED
    BY <2>1, <2>2, ChangeShows
<1>7. CASE Tool!incInodeLnkcnt
  <2>1. PICK in \in Inodes :
           Tool!ChangeInode(in, [Node(in) EXCEPT !.lnkcnt = @ + 1], Node(in).lnkcnt = LinkMax)
    BY <1>7 DEF Tool!incInodeLnkcnt, Inodes
  <2>2. DOMAIN [Node(in) EXCEPT !.lnkcnt = @ + 1] = NodeFields
    BY <1>1
  <2>3. QED
    BY <2>1, <2>2, ChangeShows
<1>8. CASE Errand
  BY <1>8, ErrandShows
<1>9. QED
  BY <1>2, <1>3, <1>4, <1>5, <1>6, <1>7, <1>8, ExecParts

LEMMA CloseShows ==
  ASSUME AInv, Tool!soCloseDisk
  PROVE  AInv'
<1>1. table' = Tool!Saved /\ open' = <<>> /\ told' = told
  BY DEF Tool!soCloseDisk
<1>2. \A in \in Inodes : Tool!Saved[in] = Tool!NodeOf(in)
  BY DEF Tool!Saved, Inodes
<1>3. /\ DOMAIN Tool!Saved = Inodes
      /\ \A in \in Inodes : /\ DOMAIN Tool!Saved[in] = NodeFields
                            /\ Tool!Attributes(Tool!Saved[in]) = told[in]
  <2>1. DOMAIN Tool!Saved = Inodes
    BY DEF Tool!Saved, Inodes
  <2>2. ASSUME NEW in \in Inodes
        PROVE  DOMAIN Tool!NodeOf(in) = NodeFields /\ Tool!Attributes(Tool!NodeOf(in)) = told[in]
    BY DEF AInv, ShowsAll, IsTable, IsPool, IsPlace, Tool!NodeOf
  <2>3. QED
    BY <1>2, <2>1, <2>2
<1>4. DOMAIN <<>> = {}
  OBVIOUS
<1>5. Inodes' = Inodes
  BY DEF Inodes, Tool!Inodes
<1>6. QED
  BY <1>1, <1>3, <1>4, <1>5 DEF AInv, ShowsAll, IsTable, IsPool

LEMMA FreshTable ==
  /\ IsTable(Tool!fillInInodeTable) /\ DOMAIN Tool!TellAll(Tool!fillInInodeTable) = Inodes
  /\ \A in \in Inodes : Tool!Attributes(Tool!fillInInodeTable[in])
                           = Tool!TellAll(Tool!fillInInodeTable)[in]
<1>1. DOMAIN Tool!fillInInodeTable = Inodes
  BY DEF Tool!fillInInodeTable, Inodes
<1>2. ASSUME NEW in \in Inodes PROVE DOMAIN Tool!fillInInodeTable[in] = NodeFields
  BY DEF Tool!fillInInodeTable, Inodes, NodeFields
<1>3. QED
  BY <1>1, <1>2 DEF IsTable, Tool!TellAll, Inodes

LEMMA NoneOpen ==
  ASSUME NEW tab, NEW t, IsTable(tab), \A in \in Inodes : Tool!Attributes(tab[in]) = t[in]
  PROVE  ShowsAll(<<>>, tab, t)
BY DEF ShowsAll, IsPool

\* While the tool is not at work on the disk, nothing is open.
Closed == device # "open" => open = <<>>

LEMMA SessionClosed ==
  ASSUME AInv, Closed, Tool!main \/ Tool!formatDisk \/ \E outcome : Tool!Reopen(outcome)
  PROVE  Closed'
<1>1. CASE Tool!exec \/ Tool!traverse
  <2>1. ASSUME NEW st, NEW w, Tool!Step(st, w) PROVE device' = "open"
    BY <2>1 DEF Tool!Step
  <2>2. CASE Tool!exec
    <3>1. CASE Errand
      BY <2>1, <3>1, ErrandShows DEF Closed
    <3>2. CASE \/ Tool!allocInode \/ Tool!freeInode \/ Tool!setInodeAccess
               \/ Tool!changeOwnership \/ Tool!decInodeLnkcnt \/ Tool!incInodeLnkcnt
      <4>1. \E st, w : Tool!Command(st, w)
        BY <3>2 DEF Tool!allocInode, Tool!freeInode, Tool!setInodeAccess, Tool!changeOwnership,
                    Tool!decInodeLnkcnt, Tool!incInodeLnkcnt, Tool!ChangeInode
      <4>2. device' = "open"
        BY <2>1, <4>1 DEF Tool!Command
      <4>3. QED
        BY <4>2 DEF Closed
    <3>3. QED
      BY <2>2, <3>1, <3>2, ExecParts
  <2>3. CASE Tool!traverse
    BY <2>1, <2>3, TraverseParts, ErrandShows DEF Closed
  <2>4. QED
    BY <1>1, <2>2, <2>3
<1>2. CASE Tool!quit \/ Tool!killed \/ Tool!formatDisk
  BY <1>2 DEF Closed, Tool!quit, Tool!killed, Tool!formatDisk, Tool!soCloseDisk
<1>3. CASE Tool!soOpenDisk
  BY <1>3 DEF Closed, Tool!soOpenDisk
<1>4. ASSUME NEW outcome, Tool!Reopen(outcome) PROVE Closed'
  BY <1>4 DEF Closed, Tool!Reopen
<1>5. QED
  BY <1>1, <1>2, <1>3, <1>4 DEF Tool!main

LEMMA SessionShows ==
  ASSUME AInv, Closed, Tool!main \/ Tool!formatDisk \/ \E outcome : Tool!Reopen(outcome)
  PROVE  AInv'
<1>1. CASE Tool!exec
  BY <1>1, ExecShows
<1>2. CASE Tool!quit \/ Tool!formatDisk
  BY <1>2, CloseShows DEF Tool!quit, Tool!formatDisk
<1>3. Inodes' = Inodes
  BY DEF Inodes, Tool!Inodes
<1>4. CASE Tool!killed
  <2>1. ShowsAll(<<>>, table, told)
    BY NoneOpen DEF AInv, ShowsAll
  <2>2. table' = table /\ open' = <<>> /\ told' = told
    BY <1>4 DEF Tool!killed
  <2>3. QED
    BY <1>3, <2>1, <2>2 DEF AInv, ShowsAll, IsTable, IsPool
<1>5. CASE Tool!soOpenDisk
  BY <1>3, <1>5 DEF Tool!soOpenDisk, AInv, ShowsAll, IsTable, IsPool
<1>6. CASE Tool!traverse
  <2>1. CASE Errand
    BY <2>1, ErrandShows
  <2>2. CASE UNCHANGED <<device, table, open, super, superDisk, told, left, damage>>
    BY <1>3, <2>2 DEF AInv, ShowsAll, IsTable, IsPool
  <2>3. QED
    BY <1>6, <2>1, <2>2, TraverseParts
<1>7. ASSUME NEW outcome, Tool!Reopen(outcome) PROVE AInv'
  <2>1. CASE outcome = "new volume"
    <3>1. table' = Tool!fillInInodeTable /\ told' = Tool!TellAll(Tool!fillInInodeTable)
      BY <1>7, <2>1 DEF Tool!Reopen
    <3>2. open' = <<>>
      BY <1>7 DEF Tool!Reopen, Closed
    <3>3. ShowsAll(<<>>, Tool!fillInInodeTable, Tool!TellAll(Tool!fillInInodeTable))
      BY FreshTable, NoneOpen
    <3>4. QED
      BY <1>3, <3>1, <3>2, <3>3, FreshTable DEF AInv, ShowsAll, IsTable, IsPool
  <2>2. CASE outcome # "new volume"
    BY <1>3, <1>7, <2>2 DEF Tool!Reopen, AInv, ShowsAll, IsTable, IsPool
  <2>3. QED
    BY <2>1, <2>2
<1>8. QED
  BY <1>1, <1>2, <1>4, <1>5, <1>6, <1>7 DEF Tool!main

\* What a command has reported is on the disk and in the copy of whoever has the inode open,
\* whatever failed before and wherever the tool was killed.
THEOREM AttributesStay == VolumeSpec => []AttributesLast
<1> DEFINE Inv == AInv /\ Closed
<1>1. VolumeInit => Inv
  <2> SUFFICES ASSUME VolumeInit PROVE Inv
    OBVIOUS
  <2>1. /\ open = <<>> /\ table = Tool!fillInInodeTable
        /\ told = Tool!TellAll(Tool!fillInInodeTable)
    BY DEF VolumeInit, Tool!TInit
  <2>2. ShowsAll(<<>>, Tool!fillInInodeTable, Tool!TellAll(Tool!fillInInodeTable))
    BY FreshTable, NoneOpen
  <2>3. QED
    BY <2>1, <2>2, FreshTable DEF AInv, Closed
<1>2. Inv /\ [VolumeNext]_<<vars, mkvars, ttvars>> => Inv'
  <2> SUFFICES ASSUME Inv, [VolumeNext]_<<vars, mkvars, ttvars>> PROVE Inv'
    OBVIOUS
  <2>1. CASE Session \/ FormatAgain \/ OpenAgain
    BY <2>1, SessionShows, SessionClosed DEF Session, FormatAgain, OpenAgain
  <2>2. CASE UNCHANGED ttvars
    BY <2>2 DEF ttvars, AInv, ShowsAll, IsTable, IsPool, Closed, Inodes, Tool!Inodes
  <2>3. QED
    BY <2>1, <2>2 DEF VolumeNext, Format, Use
<1>3. Inv => AttributesLast
  <2> SUFFICES ASSUME AInv, NEW in \in Inodes
               PROVE  /\ Tool!Attributes(table[in]) = told[in]
                      /\ Tool!Attributes(Tool!NodeOf(in)) = told[in]
    BY DEF AttributesLast, Tool!AttributesLast, Inodes
  <2>1. QED
    BY DEF AInv, ShowsAll, Tool!NodeOf
<1>4. QED
  BY <1>1, <1>2, <1>3, PTL DEF VolumeSpec

-----------------------------------------------------------------------------
(***************************************************************************)
(* What a command does, step by step.  In state st, u counts the users of  *)
(* each inode, n are the inodes as whoever opens them sees them, D are     *)
(* those of which the copy is ahead of the disk, s and d are the           *)
(* superblock and what the disk has of it.                                 *)
(***************************************************************************)
UsersIn(pool, in) == IF in \in DOMAIN pool THEN pool[in].users ELSE 0

At(st, u, n, D, s, d) ==
    /\ IsState(st) /\ st.sb = s /\ st.sbDisk = d
    /\ u \in [Inodes -> Nat] /\ DOMAIN n = Inodes
    /\ \A in \in Inodes : /\ u[in] = UsersIn(st.open, in)
                          /\ in \in DOMAIN st.open => st.open[in].node = n[in]
                          /\ in \in D => in \in DOMAIN st.open
                          /\ in \notin D => st.table[in] = n[in]

Inc(u, in) == [u EXCEPT ![in] = @ + 1]
Dec(u, in) == [u EXCEPT ![in] = @ - 1]
Put(n, in, node) == [n EXCEPT ![in] = node]
LinkNext(n, in, v) == Put(n, in, WithNext(n[in], v))
LinkPrev(n, in, v) == Put(n, in, WithPrev(n[in], v))
Freed(n, in) == Put(n, in, WithFree(n[in]))
Seized(n, in) == Put(n, in, Tool!Occupied(n[in]))

LEMMA Incremented ==
  ASSUME NEW u \in [Inodes -> Nat], NEW a \in Inodes
  PROVE  /\ Inc(u, a) \in [Inodes -> Nat] /\ Inc(u, a)[a] = u[a] + 1
         /\ \A b \in Inodes \ {a} : Inc(u, a)[b] = u[b]
BY DEF Inc

LEMMA Decremented ==
  ASSUME NEW u \in [Inodes -> Nat], NEW a \in Inodes, u[a] > 0
  PROVE  /\ Dec(u, a) \in [Inodes -> Nat] /\ Dec(u, a)[a] = u[a] - 1
         /\ \A b \in Inodes \ {a} : Dec(u, a)[b] = u[b]
BY DEF Dec

LEMMA Cancels ==
  ASSUME NEW u \in [Inodes -> Nat], NEW a \in Inodes
  PROVE  Dec(Inc(u, a), a) = u
<1>1. PICK w : w = Inc(u, a)
  OBVIOUS
<1>2. w \in [Inodes -> Nat] /\ w[a] = u[a] + 1 /\ \A b \in Inodes \ {a} : w[b] = u[b]
  BY <1>1, Incremented
<1>3. PICK v : v = Dec(w, a)
  OBVIOUS
<1>4. v \in [Inodes -> Nat] /\ v[a] = w[a] - 1 /\ \A b \in Inodes \ {a} : v[b] = w[b]
  BY <1>2, <1>3, Decremented
<1>5. \A b \in Inodes : v[b] = u[b]
  BY <1>2, <1>4
<1>6. QED
  BY <1>1, <1>3, <1>4, <1>5

LEMMA Commutes ==
  ASSUME NEW u \in [Inodes -> Nat], NEW a \in Inodes, NEW b \in Inodes
  PROVE  Inc(Inc(u, a), b) = Inc(Inc(u, b), a)
BY DEF Inc

\* Who is used is open, and all that is open or on the disk are inodes.
LEMMA AtOpened ==
  ASSUME NEW st, NEW u, NEW n, NEW D, NEW s, NEW d, At(st, u, n, D, s, d), NEW in \in Inodes
  PROVE  /\ IsState(st) /\ st.sb = s /\ st.sbDisk = d
         /\ u[in] > 0 <=> in \in DOMAIN st.open
         /\ in \in DOMAIN st.open => st.open[in].node = n[in]
         /\ DOMAIN n[in] = NodeFields
<1>1. u[in] = UsersIn(st.open, in)
  BY DEF At
<1>2. in \in DOMAIN st.open => st.open[in].users \in Nat \ {0} /\ DOMAIN st.open[in].node = NodeFields
  BY DEF At, IsState, IsPool, IsPlace
<1>3. DOMAIN n[in] = NodeFields
  BY <1>2 DEF At, IsState, IsTable
<1>4. /\ IsState(st) /\ st.sb = s /\ st.sbDisk = d
      /\ in \in DOMAIN st.open => st.open[in].node = n[in]
  BY DEF At
<1>5. QED
  BY <1>1, <1>2, <1>3, <1>4 DEF UsersIn

LEMMA AtThrow ==
  ASSUME NEW st, NEW u, NEW n, NEW D, NEW s, NEW d, At(st, u, n, D, s, d),
         NEW r, r = Tool!Throw(st)
  PROVE  At(r, u, n, D, s, d) /\ r.thrown /\ r.open = st.open
<1>1. /\ DOMAIN r = Fields /\ r.open = st.open /\ r.table = st.table
      /\ r.sb = st.sb /\ r.sbDisk = st.sbDisk /\ r.thrown = TRUE
  BY ThrownField DEF At, IsState
<1>2. QED
  BY <1>1, ZenonT(30) DEF At, IsState

LEMMA AtOpen ==
  ASSUME NEW st, NEW u, NEW n, NEW D, NEW s, NEW d, At(st, u, n, D, s, d), ~st.thrown,
         NEW in, NEW r, r = Tool!iOpen(st, in)
  PROVE  \/ r.thrown /\ in \notin DOMAIN r.open /\ At(r, u, n, D, s, d)
         \/ ~r.thrown /\ in \in Inodes /\ At(r, Inc(u, in), n, D, s, d)
<1>1. IsState(st)
  BY DEF At
<1>2. /\ IsState(r) /\ r.table = st.table /\ r.sb = st.sb /\ r.sbDisk = st.sbDisk
      /\ r.thrown => r.open = st.open /\ in \notin DOMAIN st.open
      /\ ~r.thrown => /\ DOMAIN r.open = DOMAIN st.open \union {in}
                      /\ \A i \in DOMAIN st.open \ {in} : r.open[i] = st.open[i]
                      /\ in \in DOMAIN st.open => /\ r.open[in].users = st.open[in].users + 1
                                                  /\ r.open[in].node = st.open[in].node
                      /\ in \notin DOMAIN st.open => /\ in \in Inodes
                                                     /\ r.open[in].users = 1
                                                     /\ r.open[in].node = st.table[in]
  BY <1>1, OpenDoes
<1>3. CASE r.thrown
  <2>1. At(r, u, n, D, s, d)
    BY <1>2, <1>3 DEF At
  <2>2. QED
    BY <1>2, <1>3, <2>1
<1>4. CASE ~r.thrown
  <2>1. in \in Inodes
    BY <1>1, <1>2, <1>4 DEF IsState, IsPool
  <2>2. u \in [Inodes -> Nat] /\ DOMAIN n = Inodes /\ st.sb = s /\ st.sbDisk = d
    BY DEF At
  <2>3. PICK w : w = Inc(u, in)
    OBVIOUS
  <2>4. w \in [Inodes -> Nat] /\ w[in] = u[in] + 1 /\ \A b \in Inodes \ {in} : w[b] = u[b]
    BY <2>1, <2>2, <2>3, Incremented
  <2>5. ASSUME NEW i \in Inodes
        PROVE  /\ w[i] = UsersIn(r.open, i)
               /\ i \in DOMAIN r.open => r.open[i].node = n[i]
               /\ i \in D => i \in DOMAIN r.open
               /\ i \notin D => r.table[i] = n[i]
    <3>1. /\ u[i] = UsersIn(st.open, i)
          /\ i \in DOMAIN st.open => st.open[i].node = n[i]
          /\ i \in D => i \in DOMAIN st.open
          /\ i \notin D => st.table[i] = n[i]
      BY DEF At
    <3>2. CASE i = in
      BY <1>2, <1>4, <2>4, <3>1, <3>2 DEF UsersIn
    <3>3. CASE i # in
      BY <1>2, <1>4, <2>4, <3>1, <3>3 DEF UsersIn
    <3>4. QED
      BY <3>2, <3>3
  <2>6. At(r, w, n, D, s, d)
    BY <1>2, <2>2, <2>4, <2>5 DEF At
  <2>7. QED
    BY <1>4, <2>1, <2>3, <2>6
<1>5. QED
  BY <1>3, <1>4

LEMMA AtAssign ==
  ASSUME NEW st, NEW u, NEW n, NEW D, NEW s, NEW d, At(st, u, n, D, s, d), ~st.thrown,
         NEW in \in Inodes, u[in] > 0, NEW node, DOMAIN node = NodeFields,
         NEW r, r = Assign(st, in, node)
  PROVE  ~r.thrown /\ At(r, u, Put(n, in, node), D \union {in}, s, d)
<1>1. IsState(st) /\ in \in DOMAIN st.open
  BY AtOpened
<1>2. /\ IsState(r) /\ PoolOnly(st, r) /\ Elsewhere(st, r, in)
      /\ DOMAIN r.open = DOMAIN st.open
      /\ r.open[in].users = st.open[in].users /\ r.open[in].node = node
  BY <1>1, AssignDoes
<1>3. PICK m : m = Put(n, in, node)
  OBVIOUS
<1>4. DOMAIN m = Inodes /\ m[in] = node /\ \A i \in Inodes \ {in} : m[i] = n[i]
  BY <1>3 DEF Put, At
<1>5. ASSUME NEW i \in Inodes
      PROVE  /\ u[i] = UsersIn(r.open, i)
             /\ i \in DOMAIN r.open => r.open[i].node = m[i]
             /\ i \in D \union {in} => i \in DOMAIN r.open
             /\ i \notin D \union {in} => r.table[i] = m[i]
  <2>1. /\ u[i] = UsersIn(st.open, i)
        /\ i \in DOMAIN st.open => st.open[i].node = n[i]
        /\ i \in D => i \in DOMAIN st.open
        /\ i \notin D => st.table[i] = n[i]
    BY DEF At
  <2>2. CASE i = in
    BY <1>1, <1>2, <1>4, <2>1, <2>2 DEF UsersIn
  <2>3. CASE i # in
    BY <1>2, <1>4, <2>1, <2>3 DEF UsersIn, Elsewhere, PoolOnly
  <2>4. QED
    BY <2>2, <2>3
<1>6. u \in [Inodes -> Nat] /\ st.sb = s /\ st.sbDisk = d
  BY DEF At
<1>7. At(r, u, m, D \union {in}, s, d)
  BY <1>2, <1>4, <1>5, <1>6 DEF At, PoolOnly
<1>8. QED
  BY <1>2, <1>3, <1>7 DEF PoolOnly

LEMMA AtSetNext ==
  ASSUME NEW st, NEW u, NEW n, NEW D, NEW s, NEW d, At(st, u, n, D, s, d), ~st.thrown,
         NEW in \in Inodes, u[in] > 0, NEW v, NEW r, r = Tool!SetNext(st, in, v)
  PROVE  ~r.thrown /\ At(r, u, LinkNext(n, in, v), D \union {in}, s, d)
<1>1. IsState(st) /\ st.open[in].node = n[in] /\ DOMAIN n[in] = NodeFields
  BY AtOpened
<1>2. PICK node : node = WithNext(n[in], v)
  OBVIOUS
<1>3. DOMAIN node = NodeFields
  BY <1>1, <1>2 DEF WithNext
<1>4. r = Assign(st, in, node)
  BY <1>1, <1>2, Assignments
<1>5. QED
  BY <1>2, <1>3, <1>4, AtAssign DEF LinkNext

LEMMA AtSetPrev ==
  ASSUME NEW st, NEW u, NEW n, NEW D, NEW s, NEW d, At(st, u, n, D, s, d), ~st.thrown,
         NEW in \in Inodes, u[in] > 0, NEW v, NEW r, r = Tool!SetPrev(st, in, v)
  PROVE  ~r.thrown /\ At(r, u, LinkPrev(n, in, v), D \union {in}, s, d)
<1>1. IsState(st) /\ st.open[in].node = n[in] /\ DOMAIN n[in] = NodeFields
  BY AtOpened
<1>2. PICK node : node = WithPrev(n[in], v)
  OBVIOUS
<1>3. DOMAIN node = NodeFields
  BY <1>1, <1>2 DEF WithPrev
<1>4. r = Assign(st, in, node)
  BY <1>1, <1>2, Assignments
<1>5. QED
  BY <1>2, <1>3, <1>4, AtAssign DEF LinkPrev

LEMMA AtSetFree ==
  ASSUME NEW st, NEW u, NEW n, NEW D, NEW s, NEW d, At(st, u, n, D, s, d), ~st.thrown,
         NEW in \in Inodes, u[in] > 0, NEW r, r = Tool!SetFree(st, in)
  PROVE  ~r.thrown /\ At(r, u, Freed(n, in), D \union {in}, s, d)
<1>1. IsState(st) /\ st.open[in].node = n[in] /\ DOMAIN n[in] = NodeFields
  BY AtOpened
<1>2. PICK node : node = WithFree(n[in])
  OBVIOUS
<1>3. DOMAIN node = NodeFields
  BY <1>1, <1>2, NodesStay
<1>4. r = Assign(st, in, node)
  BY <1>1, <1>2, Assignments
<1>5. QED
  BY <1>2, <1>3, <1>4, AtAssign DEF Freed

LEMMA AtOccupy ==
  ASSUME NEW st, NEW u, NEW n, NEW D, NEW s, NEW d, At(st, u, n, D, s, d), ~st.thrown,
         s.ihead \in Inodes, u[s.ihead] > 0, NEW r, r = Tool!Occupy(st)
  PROVE  /\ ~r.thrown
         /\ At(r, u, Seized(n, s.ihead), D \union {s.ihead}, s, d)
<1>1. /\ IsState(st) /\ st.open[s.ihead].node = n[s.ihead] /\ DOMAIN n[s.ihead] = NodeFields
      /\ st.sb = s
  BY AtOpened
<1>2. PICK node : node = Tool!Occupied(n[s.ihead])
  OBVIOUS
<1>3. DOMAIN node = NodeFields
  BY <1>1, <1>2, NodesStay
<1>4. r = Assign(st, s.ihead, node)
  BY <1>1, <1>2, Assignments
<1>5. QED
  BY <1>2, <1>3, <1>4, AtAssign DEF Seized

LEMMA AtSave ==
  ASSUME NEW st, NEW u, NEW n, NEW D, NEW s, NEW d, At(st, u, n, D, s, d), ~st.thrown,
         NEW in \in Inodes, u[in] > 0, NEW r, r = Tool!iSave(st, in)
  PROVE  ~r.thrown /\ At(r, u, n, D \ {in}, s, d)
<1>1. IsState(st) /\ in \in DOMAIN st.open
  BY AtOpened
<1>2. /\ IsState(r) /\ r.open = st.open /\ r.sb = st.sb /\ r.sbDisk = st.sbDisk /\ ~r.thrown
      /\ r.table[in] = st.open[in].node
      /\ \A i \in Inodes \ {in} : r.table[i] = st.table[i]
  BY <1>1, SaveDoes
<1>3. ASSUME NEW i \in Inodes
      PROVE  /\ u[i] = UsersIn(r.open, i)
             /\ i \in DOMAIN r.open => r.open[i].node = n[i]
             /\ i \in D \ {in} => i \in DOMAIN r.open
             /\ i \notin D \ {in} => r.table[i] = n[i]
  <2>1. /\ u[i] = UsersIn(st.open, i)
        /\ i \in DOMAIN st.open => st.open[i].node = n[i]
        /\ i \in D => i \in DOMAIN st.open
        /\ i \notin D => st.table[i] = n[i]
    BY DEF At
  <2>2. CASE i = in
    BY <1>1, <1>2, <2>1, <2>2
  <2>3. CASE i # in
    BY <1>2, <2>1, <2>3
  <2>4. QED
    BY <2>2, <2>3
<1>4. u \in [Inodes -> Nat] /\ DOMAIN n = Inodes /\ st.sb = s /\ st.sbDisk = d
  BY DEF At
<1>5. QED
  BY <1>2, <1>3, <1>4 DEF At

LEMMA AtClose ==
  ASSUME NEW st, NEW u, NEW n, NEW D, NEW s, NEW d, At(st, u, n, D, s, d), ~st.thrown,
         NEW in \in Inodes, u[in] > 0, in \notin D, NEW r, r = Tool!iClose(st, in)
  PROVE  ~r.thrown /\ At(r, Dec(u, in), n, D, s, d)
<1>1. IsState(st) /\ in \in DOMAIN st.open
  BY AtOpened
<1>2. /\ IsState(r) /\ PoolOnly(st, r) /\ Elsewhere(st, r, in)
      /\ DOMAIN r.open \subseteq DOMAIN st.open
      /\ st.open[in].users > 1 => /\ in \in DOMAIN r.open
                                  /\ r.open[in].users = st.open[in].users - 1
                                  /\ r.open[in].node = st.open[in].node
      /\ ~(st.open[in].users > 1) => in \notin DOMAIN r.open
  BY <1>1, CloseDoes
<1>3. u \in [Inodes -> Nat] /\ DOMAIN n = Inodes /\ st.sb = s /\ st.sbDisk = d
  BY DEF At
<1>4. PICK w : w = Dec(u, in)
  OBVIOUS
<1>5. w \in [Inodes -> Nat] /\ w[in] = u[in] - 1 /\ \A b \in Inodes \ {in} : w[b] = u[b]
  BY <1>3, <1>4, Decremented
<1>6. ASSUME NEW i \in Inodes
      PROVE  /\ w[i] = UsersIn(r.open, i)
             /\ i \in DOMAIN r.open => r.open[i].node = n[i]
             /\ i \in D => i \in DOMAIN r.open
             /\ i \notin D => r.table[i] = n[i]
  <2>1. /\ u[i] = UsersIn(st.open, i)
        /\ i \in DOMAIN st.open => st.open[i].node = n[i]
        /\ i \in D => i \in DOMAIN st.open
        /\ i \notin D => st.table[i] = n[i]
    BY DEF At
  <2>2. CASE i = in
    <3>1. st.open[in].users \in Nat \ {0} /\ u[in] = st.open[in].users
      BY <1>1, <2>1, <2>2 DEF IsState, IsPool, IsPlace, UsersIn
    <3>2. w[i] = UsersIn(r.open, i)
      BY <1>2, <1>5, <2>2, <3>1 DEF UsersIn
    <3>3. QED
      BY <1>2, <2>1, <2>2, <3>1, <3>2 DEF PoolOnly
  <2>3. CASE i # in
    BY <1>2, <1>5, <2>1, <2>3 DEF UsersIn, Elsewhere, PoolOnly
  <2>4. QED
    BY <2>2, <2>3
<1>7. At(r, w, n, D, s, d)
  BY <1>2, <1>3, <1>5, <1>6 DEF At, PoolOnly
<1>8. QED
  BY <1>2, <1>4, <1>7 DEF PoolOnly

LEMMA AtSaveAndClose ==
  ASSUME NEW st, NEW u, NEW n, NEW D, NEW s, NEW d, At(st, u, n, D, s, d), ~st.thrown,
         NEW in \in Inodes, u[in] > 0, NEW r, r = Tool!SaveAndClose(st, in)
  PROVE  ~r.thrown /\ At(r, Dec(u, in), n, D \ {in}, s, d)
<1>1. PICK a : a = Tool!iSave(st, in)
  OBVIOUS
<1>2. ~a.thrown /\ At(a, u, n, D \ {in}, s, d)
  BY <1>1, AtSave
<1>3. r = Tool!iClose(a, in)
  BY <1>1 DEF Tool!SaveAndClose
<1>4. QED
  BY <1>2, <1>3, AtClose

\* Nobody has the inode open.
LEMMA AtCloseAgain ==
  ASSUME NEW st, NEW u, NEW n, NEW D, NEW s, NEW d, At(st, u, n, D, s, d), ~st.thrown,
         NEW in \in Inodes, ~(u[in] > 0), NEW r, r = Tool!SaveAndClose(st, in)
  PROVE  r.thrown /\ in \notin DOMAIN r.open /\ At(r, u, n, D, s, d)
<1>1. in \notin DOMAIN st.open
  BY AtOpened
<1>2. PICK a : a = Tool!iSave(st, in)
  OBVIOUS
<1>3. a = Tool!Throw(st)
  BY <1>1, <1>2 DEF Tool!iSave, Tool!IsOpen
<1>4. At(a, u, n, D, s, d) /\ a.thrown /\ a.open = st.open
  BY <1>3, AtThrow
<1>5. r = a
  BY <1>2, <1>4 DEF Tool!SaveAndClose, Tool!iClose
<1>6. QED
  BY <1>1, <1>4, <1>5

LEMMA AtSuper ==
  ASSUME NEW st, NEW u, NEW n, NEW D, NEW s, NEW d, At(st, u, n, D, s, d), ~st.thrown,
         NEW h, NEW f, NEW r, r = Tool!SetSuper(st, h, f)
  PROVE  ~r.thrown /\ At(r, u, n, D, Super(h, f), d)
<1>1. IsState(st)
  BY DEF At
<1>2. /\ IsState(r) /\ ~r.thrown /\ r.open = st.open /\ r.table = st.table
      /\ r.sb = Super(h, f) /\ r.sbDisk = st.sbDisk
  BY <1>1, SuperDoes
<1>3. QED
  BY <1>2 DEF At

LEMMA AtSaveSuper ==
  ASSUME NEW st, NEW u, NEW n, NEW D, NEW s, NEW d, At(st, u, n, D, s, d), ~st.thrown,
         NEW r, r = Tool!sbSave(st)
  PROVE  ~r.thrown /\ At(r, u, n, D, s, s)
<1>1. IsState(st)
  BY DEF At
<1>2. /\ IsState(r) /\ ~r.thrown /\ r.open = st.open /\ r.table = st.table
      /\ r.sb = st.sb /\ r.sbDisk = st.sb
  BY <1>1, SaveSuperDoes
<1>3. QED
  BY <1>2 DEF At

LEMMA SuperFields == \A h, f : Super(h, f).ihead = h /\ Super(h, f).ifree = f
BY DEF Super

\* What has thrown stays as it is.
LEMMA Rests ==
  ASSUME NEW st, st.thrown
  PROVE  /\ \A in : /\ Tool!iOpen(st, in) = st /\ Tool!iSave(st, in) = st
                    /\ Tool!iClose(st, in) = st /\ Tool!SaveAndClose(st, in) = st
                    /\ Tool!SetFree(st, in) = st
         /\ \A in, v : Tool!SetNext(st, in, v) = st /\ Tool!SetPrev(st, in, v) = st
         /\ \A h, f : Tool!SetSuper(st, h, f) = st
         /\ Tool!sbSave(st) = st
<1>1. \A in : Tool!iOpen(st, in) = st
  BY DEF Tool!iOpen
<1>2. \A in : Tool!iSave(st, in) = st
  BY DEF Tool!iSave
<1>3. \A in : Tool!iClose(st, in) = st
  BY DEF Tool!iClose
<1>4. \A in : Tool!SaveAndClose(st, in) = st
  BY <1>2, <1>3 DEF Tool!SaveAndClose
<1>5. \A in, v : Tool!SetNext(st, in, v) = st /\ Tool!SetPrev(st, in, v) = st
  BY DEF Tool!SetNext, Tool!SetPrev
<1>6. \A in : Tool!SetFree(st, in) = st
  BY DEF Tool!SetFree
<1>7. (\A h, f : Tool!SetSuper(st, h, f) = st) /\ Tool!sbSave(st) = st
  BY DEF Tool!SetSuper, Tool!sbSave
<1>8. QED
  BY <1>1, <1>2, <1>3, <1>4, <1>5, <1>6, <1>7

-----------------------------------------------------------------------------
(* soAllocInode, as it works on copies.                                    *)

\* The head is gone, and its neighbours are to be linked.
LEMMA HeadOfTwo ==
  ASSUME NEW st, NEW u, NEW n, NEW s, NEW d, At(st, u, n, {}, s, d), ~st.thrown, s.ifree = 2,
         NEW next, NEW prev, NEW r, r = Tool!NewHead(st, next, prev)
  PROVE  \/ /\ ~r.thrown /\ next \in Inodes
            /\ At(r, u, LinkNext(LinkPrev(n, next, prev), next, next), {}, Super(next, 1), d)
         \/ r.thrown /\ At(r, u, n, {}, Super(next, 1), d)
<1>1. PICK a : a = Tool!SetSuper(st, next, 1)
  OBVIOUS
<1>2. ~a.thrown /\ At(a, u, n, {}, Super(next, 1), d)
  BY <1>1, AtSuper
<1>3. PICK b : b = Tool!iOpen(a, next)
  OBVIOUS
<1>4. r = Tool!SaveAndClose(Tool!SetNext(Tool!SetPrev(b, next, prev), next, next), next)
  <2>1. st.sb = s
    BY DEF At
  <2>2. QED
    BY <1>1, <1>3, <2>1 DEF Tool!NewHead
<1>5. CASE b.thrown
  <2>1. r = b
    BY <1>4, <1>5, Rests
  <2>2. At(b, u, n, {}, Super(next, 1), d)
    BY <1>2, <1>3, <1>5, AtOpen
  <2>3. QED
    BY <1>5, <2>1, <2>2
<1>6. CASE ~b.thrown
  <2>1. next \in Inodes /\ At(b, Inc(u, next), n, {}, Super(next, 1), d)
    BY <1>2, <1>3, <1>6, AtOpen
  <2>2. u \in [Inodes -> Nat]
    BY DEF At
  <2>3. Inc(u, next)[next] > 0 /\ Dec(Inc(u, next), next) = u
    BY <2>1, <2>2, Incremented, Cancels
  <2>4. PICK c : c = Tool!SetPrev(b, next, prev)
    OBVIOUS
  <2>5. PICK e : e = Tool!SetNext(c, next, next)
    OBVIOUS
  <2>6. ~c.thrown /\ At(c, Inc(u, next), LinkPrev(n, next, prev), {} \union {next}, Super(next, 1), d)
    BY <1>6, <2>1, <2>3, <2>4, AtSetPrev
  <2>7. /\ ~e.thrown
        /\ At(e, Inc(u, next), LinkNext(LinkPrev(n, next, prev), next, next),
              ({} \union {next}) \union {next}, Super(next, 1), d)
    BY <2>1, <2>3, <2>5, <2>6, AtSetNext
  <2>8. r = Tool!SaveAndClose(e, next)
    BY <1>4, <2>4, <2>5
  <2>9. /\ ~r.thrown
        /\ At(r, u, LinkNext(LinkPrev(n, next, prev), next, next),
              (({} \union {next}) \union {next}) \ {next}, Super(next, 1), d)
    BY <2>1, <2>3, <2>7, <2>8, AtSaveAndClose
  <2>10. (({} \union {next}) \union {next}) \ {next} = {}
    OBVIOUS
  <2>11. QED
    BY <2>1, <2>9, <2>10
<1>7. QED
  BY <1>5, <1>6

LEMMA HeadOfMany ==
  ASSUME NEW st, NEW u, NEW n, NEW s, NEW d, At(st, u, n, {}, s, d), ~st.thrown,
         s.ifree # 1, s.ifree # 2, NEW next, NEW prev, NEW r, r = Tool!NewHead(st, next, prev)
  PROVE  LET s2 == Super(next, s.ifree - 1)
         IN  \/ /\ ~r.thrown /\ next \in Inodes /\ prev \in Inodes
                /\ At(r, u, LinkNext(LinkPrev(n, next, prev), prev, next), {}, s2, d)
             \/ r.thrown /\ At(r, u, n, {}, s2, d)
             \/ r.thrown /\ next \in Inodes /\ At(r, Inc(u, next), n, {}, s2, d)
<1>1. PICK s2 : s2 = Super(next, s.ifree - 1)
  OBVIOUS
<1>2. PICK a : a = Tool!SetSuper(st, next, s.ifree - 1)
  OBVIOUS
<1>3. ~a.thrown /\ At(a, u, n, {}, s2, d)
  BY <1>1, <1>2, AtSuper
<1>4. PICK b : b = Tool!iOpen(a, next)
  OBVIOUS
<1>5. PICK c : c = Tool!iOpen(b, prev)
  OBVIOUS
<1>6. r = Tool!iClose(Tool!iClose(Tool!iSave(Tool!iSave(
             Tool!SetNext(Tool!SetPrev(c, next, prev), prev, next),
             next), prev), next), prev)
  <2>1. st.sb = s
    BY DEF At
  <2>2. QED
    BY <1>2, <1>4, <1>5, <2>1 DEF Tool!NewHead
<1>7. CASE b.thrown
  <2>1. c = b
    BY <1>5, <1>7, Rests
  <2>2. r = c
    BY <1>6, <1>7, <2>1, Rests
  <2>3. At(b, u, n, {}, s2, d)
    BY <1>3, <1>4, <1>7, AtOpen
  <2>4. QED
    BY <1>1, <1>7, <2>1, <2>2, <2>3
<1>8. CASE ~b.thrown /\ c.thrown
  <2>1. next \in Inodes /\ At(b, Inc(u, next), n, {}, s2, d)
    BY <1>3, <1>4, <1>8, AtOpen
  <2>2. At(c, Inc(u, next), n, {}, s2, d)
    BY <1>5, <1>8, <2>1, AtOpen
  <2>3. r = c
    BY <1>6, <1>8, Rests
  <2>4. QED
    BY <1>1, <1>8, <2>1, <2>2, <2>3
<1>9. CASE ~b.thrown /\ ~c.thrown
  <2>1. next \in Inodes /\ At(b, Inc(u, next), n, {}, s2, d)
    BY <1>3, <1>4, <1>9, AtOpen
  <2>2. PICK w : w = Inc(Inc(u, next), prev)
    OBVIOUS
  <2>3. prev \in Inodes /\ At(c, w, n, {}, s2, d)
    BY <1>5, <1>9, <2>1, <2>2, AtOpen
  <2>4. u \in [Inodes -> Nat] /\ Inc(u, next) \in [Inodes -> Nat] /\ Inc(u, prev) \in [Inodes -> Nat]
    BY <2>1, <2>3, Incremented DEF At
  <2>5. w[next] > 0 /\ w[prev] > 0
    BY <2>1, <2>2, <2>3, <2>4, Incremented
  <2>6. Dec(w, next) = Inc(u, prev) /\ Dec(Inc(u, prev), prev) = u
    BY <2>1, <2>2, <2>3, <2>4, Commutes, Cancels
  <2>7. Inc(u, prev)[prev] > 0
    BY <2>3, <2>4, Incremented
  <2>8. PICK e : e = Tool!SetPrev(c, next, prev)
    OBVIOUS
  <2>9. ~e.thrown /\ At(e, w, LinkPrev(n, next, prev), {} \union {next}, s2, d)
    BY <1>9, <2>1, <2>3, <2>5, <2>8, AtSetPrev
  <2>10. PICK m : m = LinkNext(LinkPrev(n, next, prev), prev, next)
    OBVIOUS
  <2>11. PICK f : f = Tool!SetNext(e, prev, next)
    OBVIOUS
  <2>12. ~f.thrown /\ At(f, w, m, ({} \union {next}) \union {prev}, s2, d)
    BY <2>3, <2>5, <2>9, <2>10, <2>11, AtSetNext
  <2>13. PICK g : g = Tool!iSave(f, next)
    OBVIOUS
  <2>14. ~g.thrown /\ At(g, w, m, (({} \union {next}) \union {prev}) \ {next}, s2, d)
    BY <2>1, <2>5, <2>12, <2>13, AtSave
  <2>15. PICK h : h = Tool!iSave(g, prev)
    OBVIOUS
  <2>16. ((({} \union {next}) \union {prev}) \ {next}) \ {prev} = {}
    OBVIOUS
  <2>17. ~h.thrown /\ At(h, w, m, {}, s2, d)
    BY <2>3, <2>5, <2>14, <2>15, <2>16, AtSave
  <2>18. PICK i : i = Tool!iClose(h, next)
    OBVIOUS
  <2>19. ~i.thrown /\ At(i, Inc(u, prev), m, {}, s2, d)
    BY <2>1, <2>5, <2>6, <2>17, <2>18, AtClose
  <2>20. r = Tool!iClose(i, prev)
    BY <1>6, <2>8, <2>11, <2>13, <2>15, <2>18
  <2>21. ~r.thrown /\ At(r, u, m, {}, s2, d)
    BY <2>3, <2>6, <2>7, <2>19, <2>20, AtClose
  <2>22. QED
    BY <1>1, <2>1, <2>3, <2>10, <2>21
<1>10. QED
  BY <1>7, <1>8, <1>9

\* soAllocInode on a synchronised state: it ends in one of these ways.
AllocatedOne(r, u, n, s) == At(r, u, Seized(n, s.ihead), {}, Super(NullReference, 0), Super(NullReference, 0))

AllocatedTwo(r, u, n, s) ==
    \E next \in Inodes :
        /\ next = n[s.ihead].next
        /\ At(r, u, LinkNext(LinkPrev(Seized(n, s.ihead), next, n[s.ihead].prev), next, next), {},
              Super(next, 1), Super(next, 1))

AllocatedMany(r, u, n, s) ==
    \E next \in Inodes, prev \in Inodes :
        /\ next = n[s.ihead].next /\ prev = n[s.ihead].prev
        /\ At(r, u, LinkNext(LinkPrev(Seized(n, s.ihead), next, prev), prev, next), {},
              Super(next, s.ifree - 1), Super(next, s.ifree - 1))

Allocated(r, u, n, s) ==
    /\ ~r.thrown /\ s.ihead \in Inodes
    /\ \/ s.ifree = 1 /\ AllocatedOne(r, u, n, s)
       \/ s.ifree = 2 /\ AllocatedTwo(r, u, n, s)
       \/ s.ifree \notin {0, 1, 2} /\ AllocatedMany(r, u, n, s)

HalfAllocated(r, u, n, s, d) ==
    /\ r.thrown /\ s.ihead \in Inodes /\ s.ifree \notin {0, 1}
    /\ LET next == n[s.ihead].next
           s2 == Super(next, s.ifree - 1)
       IN  \/ At(r, u, Seized(n, s.ihead), {}, s2, d)
           \/ next \in Inodes /\ At(r, Inc(u, next), Seized(n, s.ihead), {}, s2, d)

LEMMA AllocEnds ==
  ASSUME NEW st, NEW u, NEW n, NEW s, NEW d, At(st, u, n, {}, s, d), ~st.thrown,
         NEW r, r = Tool!soAllocInode(st)
  PROVE  \/ r.thrown /\ At(r, u, n, {}, s, d)
         \/ Allocated(r, u, n, s)
         \/ HalfAllocated(r, u, n, s, d)
<1>1. st.sb = s
  BY DEF At
<1>2. CASE s.ifree = 0
  <2>1. r = Tool!Throw(st)
    BY <1>1, <1>2 DEF Tool!soAllocInode
  <2>2. QED
    BY <2>1, AtThrow
<1>3. CASE s.ifree # 0
  <2>1. PICK h : h = s.ihead
    OBVIOUS
  <2>2. PICK o : o = Tool!iOpen(st, h)
    OBVIOUS
  <2>3. PICK node : /\ node = IF Tool!IsOpen(st, h) THEN Tool!Copy(st, h) ELSE st.table[h]
                    /\ r = Tool!AllocHead(o, node)
    BY <1>1, <1>3, <2>1, <2>2 DEF Tool!soAllocInode
  <2>4. CASE o.thrown
    <3>1. r = o
      BY <2>3, <2>4 DEF Tool!AllocHead
    <3>2. At(o, u, n, {}, s, d)
      BY <2>2, <2>4, AtOpen
    <3>3. QED
      BY <2>4, <3>1, <3>2
  <2>5. CASE ~o.thrown
    <3>1. h \in Inodes /\ At(o, Inc(u, h), n, {}, s, d)
      BY <2>2, <2>5, AtOpen
    <3>2. u \in [Inodes -> Nat]
      BY DEF At
    <3>3. Inc(u, h)[h] > 0 /\ Dec(Inc(u, h), h) = u
      BY <3>1, <3>2, Incremented, Cancels
    <3>4. node = n[h]
      BY <2>3, <3>1 DEF At, Tool!IsOpen, Tool!Copy
    <3>5. PICK c : c = Tool!SaveAndClose(Tool!Occupy(o), h)
      OBVIOUS
    <3>6. PICK m : m = Seized(n, h)
      OBVIOUS
    <3>7. ~c.thrown /\ At(c, u, m, {}, s, d)
      <4>1. PICK b : b = Tool!Occupy(o)
        OBVIOUS
      <4>2. ~b.thrown /\ At(b, Inc(u, h), m, {} \union {h}, s, d)
        BY <2>1, <2>5, <3>1, <3>3, <3>6, <4>1, AtOccupy
      <4>3. ({} \union {h}) \ {h} = {}
        OBVIOUS
      <4>4. QED
        BY <3>1, <3>3, <3>5, <4>1, <4>2, <4>3, AtSaveAndClose
    <3>8. PICK e : e = Tool!NewHead(c, node.next, node.prev)
      OBVIOUS
    <3>9. r = Tool!sbSave(e)
      <4>1. o.sb = s
        BY <3>1 DEF At
      <4>2. QED
        BY <2>1, <2>3, <2>5, <3>5, <3>8, <4>1 DEF Tool!AllocHead
    <3>10. PICK next, prev : next = node.next /\ prev = node.prev
      OBVIOUS
    <3>11. CASE s.ifree = 1
      <4>1. e = Tool!SetSuper(c, NullReference, 0)
        BY <3>7, <3>8, <3>11 DEF Tool!NewHead, At
      <4>2. ~e.thrown /\ At(e, u, m, {}, Super(NullReference, 0), d)
        BY <3>7, <4>1, AtSuper
      <4>3. ~r.thrown /\ At(r, u, m, {}, Super(NullReference, 0), Super(NullReference, 0))
        BY <3>9, <4>2, AtSaveSuper
      <4>4. QED
        BY <2>1, <3>1, <3>6, <3>11, <4>3 DEF Allocated, AllocatedOne
    <3>12. CASE s.ifree = 2
      <4>1. CASE e.thrown
        <5>1. At(e, u, m, {}, Super(next, 1), d)
          BY <3>7, <3>8, <3>10, <3>12, <4>1, HeadOfTwo
        <5>2. r = e /\ s.ifree - 1 = 1
          BY <3>9, <3>12, <4>1, Rests
        <5>3. QED
          BY <2>1, <3>1, <3>4, <3>6, <3>10, <3>12, <4>1, <5>1, <5>2 DEF HalfAllocated
      <4>2. CASE ~e.thrown
        <5>1. /\ next \in Inodes
              /\ At(e, u, LinkNext(LinkPrev(m, next, prev), next, next), {}, Super(next, 1), d)
          BY <3>7, <3>8, <3>10, <3>12, <4>2, HeadOfTwo
        <5>2. /\ ~r.thrown
              /\ At(r, u, LinkNext(LinkPrev(m, next, prev), next, next), {},
                    Super(next, 1), Super(next, 1))
          BY <3>9, <4>2, <5>1, AtSaveSuper
        <5>3. AllocatedTwo(r, u, n, s)
          BY <2>1, <3>4, <3>6, <3>10, <5>1, <5>2 DEF AllocatedTwo
        <5>4. QED
          BY <2>1, <3>1, <3>12, <5>2, <5>3 DEF Allocated
      <4>3. QED
        BY <4>1, <4>2
    <3>13. CASE s.ifree # 1 /\ s.ifree # 2
      <4>1. PICK s2 : s2 = Super(next, s.ifree - 1)
        OBVIOUS
      <4>2. \/ /\ ~e.thrown /\ next \in Inodes /\ prev \in Inodes
               /\ At(e, u, LinkNext(LinkPrev(m, next, prev), prev, next), {}, s2, d)
            \/ e.thrown /\ At(e, u, m, {}, s2, d)
            \/ e.thrown /\ next \in Inodes /\ At(e, Inc(u, next), m, {}, s2, d)
        BY <3>7, <3>8, <3>10, <3>13, <4>1, HeadOfMany
      <4>3. CASE e.thrown
        <5>1. r = e
          BY <3>9, <4>3, Rests
        <5>2. QED
          BY <1>3, <2>1, <3>1, <3>4, <3>6, <3>10, <3>13, <4>1, <4>2, <4>3, <5>1 DEF HalfAllocated
      <4>4. CASE ~e.thrown
        <5>1. ~r.thrown /\ At(r, u, LinkNext(LinkPrev(m, next, prev), prev, next), {}, s2, s2)
          BY <3>9, <4>2, <4>4, AtSaveSuper
        <5>2. AllocatedMany(r, u, n, s)
          BY <2>1, <3>4, <3>6, <3>10, <4>1, <4>2, <4>4, <5>1 DEF AllocatedMany
        <5>3. QED
          BY <1>3, <2>1, <3>1, <3>13, <5>1, <5>2 DEF Allocated
      <4>5. QED
        BY <4>3, <4>4
    <3>14. QED
      BY <3>11, <3>12, <3>13
  <2>6. QED
    BY <2>4, <2>5
<1>4. QED
  BY <1>2, <1>3

-----------------------------------------------------------------------------
(* soFreeInode.                                                            *)

\* The links that soFreeInode makes, when the inode has got its mark.
LinkedAlone(n, in) == LinkPrev(LinkNext(Freed(n, in), in, in), in, in)
LinkedBesideOne(n, in, head) ==
    LinkPrev(LinkNext(LinkNext(LinkPrev(Freed(n, in), head, in), head, in), in, head), in, head)
LinkedBehind(n, in, head, tail) ==
    LinkPrev(LinkPrev(LinkNext(LinkNext(Freed(n, in), tail, in), in, head), in, tail), head, in)

\* An inode is marked, and the head of the list is open for it.
LEMMA TailOfOne ==
  ASSUME NEW st, NEW u, NEW n, NEW s, NEW d, NEW in \in Inodes, u \in [Inodes -> Nat],
         At(st, Inc(u, in), Freed(n, in), {in}, s, d), ~st.thrown,
         NEW head, NEW r, r = Tool!BesideOne(st, in, head)
  PROVE  \/ r.thrown /\ At(r, Inc(u, in), Freed(n, in), {in}, s, d)
         \/ /\ ~r.thrown /\ head \in Inodes
            /\ At(r, u, LinkedBesideOne(n, in, head), {}, s, d)
<1>1. PICK m : m = Freed(n, in)
  OBVIOUS
<1>2. PICK a : a = Tool!iOpen(st, head)
  OBVIOUS
<1>3. r = Tool!SaveAndClose(Tool!SaveAndClose(
             Tool!SetPrev(Tool!SetNext(Tool!SetNext(Tool!SetPrev(a, head, in), head, in),
                                       in, head), in, head),
             head), in)
  BY <1>2 DEF Tool!BesideOne
<1>4. CASE a.thrown
  <2>1. At(a, Inc(u, in), m, {in}, s, d)
    BY <1>1, <1>2, <1>4, AtOpen
  <2>2. r = a
    BY <1>3, <1>4, Rests
  <2>3. QED
    BY <1>1, <1>4, <2>1, <2>2
<1>5. CASE ~a.thrown
  <2>1. PICK w : w = Inc(Inc(u, in), head)
    OBVIOUS
  <2>2. head \in Inodes /\ At(a, w, m, {in}, s, d)
    BY <1>1, <1>2, <1>5, <2>1, AtOpen
  <2>3. Inc(u, in) \in [Inodes -> Nat] /\ Inc(u, head) \in [Inodes -> Nat]
    BY <2>2, Incremented
  <2>4. /\ w[in] > 0 /\ w[head] > 0 /\ Dec(w, head) = Inc(u, in)
        /\ Inc(u, in)[in] > 0 /\ Dec(Inc(u, in), in) = u
    BY <2>1, <2>2, <2>3, Incremented, Cancels
  <2>5. PICK b : b = Tool!SetPrev(a, head, in)
    OBVIOUS
  <2>6. PICK mb : mb = LinkPrev(m, head, in)
    OBVIOUS
  <2>7. ~b.thrown /\ At(b, w, mb, {in} \union {head}, s, d)
    BY <1>5, <2>2, <2>4, <2>5, <2>6, AtSetPrev
  <2>8. PICK c : c = Tool!SetNext(b, head, in)
    OBVIOUS
  <2>9. PICK mc : mc = LinkNext(mb, head, in)
    OBVIOUS
  <2>10. ~c.thrown /\ At(c, w, mc, ({in} \union {head}) \union {head}, s, d)
    BY <2>2, <2>4, <2>7, <2>8, <2>9, AtSetNext
  <2>11. PICK e : e = Tool!SetNext(c, in, head)
    OBVIOUS
  <2>12. PICK me : me = LinkNext(mc, in, head)
    OBVIOUS
  <2>13. ~e.thrown /\ At(e, w, me, (({in} \union {head}) \union {head}) \union {in}, s, d)
    BY <2>4, <2>10, <2>11, <2>12, AtSetNext
  <2>14. PICK f : f = Tool!SetPrev(e, in, head)
    OBVIOUS
  <2>15. PICK mf : mf = LinkPrev(me, in, head)
    OBVIOUS
  <2>16. ~f.thrown /\ At(f, w, mf, ((({in} \union {head}) \union {head}) \union {in}) \union {in}, s, d)
    BY <2>4, <2>13, <2>14, <2>15, AtSetPrev
  <2>17. PICK D : D = ((({in} \union {head}) \union {head}) \union {in}) \union {in}
    OBVIOUS
  <2>18. PICK g : g = Tool!SaveAndClose(f, head)
    OBVIOUS
  <2>19. ~g.thrown /\ At(g, Inc(u, in), mf, D \ {head}, s, d)
    BY <2>2, <2>4, <2>16, <2>17, <2>18, AtSaveAndClose
  <2>20. r = Tool!SaveAndClose(g, in)
    BY <1>3, <2>5, <2>8, <2>11, <2>14, <2>18
  <2>21. (D \ {head}) \ {in} = {}
    BY <2>17
  <2>22. ~r.thrown /\ At(r, u, mf, {}, s, d)
    BY <2>4, <2>19, <2>20, <2>21, AtSaveAndClose
  <2>23. mf = LinkedBesideOne(n, in, head)
    BY <1>1, <2>6, <2>9, <2>12, <2>15 DEF LinkedBesideOne
  <2>24. QED
    BY <2>2, <2>22, <2>23
<1>6. QED
  BY <1>4, <1>5

Tailed(r, v, m, s, d, in, head) ==
    \/ r.thrown /\ \E w : w[in] >= v[in] /\ At(r, w, m, {in}, s, d)
    \/ /\ ~r.thrown /\ head \in Inodes
       /\ \E tail \in Inodes, D \in SUBSET {in} :
             /\ tail = m[head].prev
             /\ At(r, v, LinkPrev(LinkPrev(LinkNext(LinkNext(m, tail, in), in, head), in, tail),
                                  head, in), D, s, d)

LEMMA TailOfMany ==
  ASSUME NEW st, NEW v, NEW m, NEW s, NEW d, NEW in \in Inodes, v[in] > 0,
         At(st, v, m, {in}, s, d), ~st.thrown,
         NEW head, NEW r, r = Tool!BehindTail(Tool!iOpen(st, head), in, head)
  PROVE  Tailed(r, v, m, s, d, in, head)
<1> USE DEF Tailed
<1>1. PICK a : a = Tool!iOpen(st, head)
  OBVIOUS
<1>2. v \in [Inodes -> Nat]
  BY DEF At
<1>3. CASE a.thrown
  <2>1. At(a, v, m, {in}, s, d)
    BY <1>1, <1>3, AtOpen
  <2>2. r = a
    BY <1>1, <1>3 DEF Tool!BehindTail
  <2>3. v[in] >= v[in]
    BY <1>2
  <2>4. QED
    BY <1>3, <2>1, <2>2, <2>3
<1>4. CASE ~a.thrown
  <2>1. head \in Inodes /\ At(a, Inc(v, head), m, {in}, s, d)
    BY <1>1, <1>4, AtOpen
  <2>2. Inc(v, head) \in [Inodes -> Nat] /\ Inc(v, head)[head] > 0 /\ Inc(v, head)[in] >= v[in]
    BY <1>2, <2>1, Incremented
  <2>3. PICK tail : tail = m[head].prev
    OBVIOUS
  <2>4. Tool!Copy(a, head).prev = tail
    <3>1. a.open[head].node = m[head]
      BY <2>1, <2>2, AtOpened
    <3>2. QED
      BY <2>3, <3>1 DEF Tool!Copy
  <2>5. PICK b : b = Tool!iOpen(a, tail)
    OBVIOUS
  <2>6. PICK h : h = Tool!SetPrev(Tool!SetPrev(Tool!SetNext(Tool!SetNext(b, tail, in), in, head),
                                               in, tail), head, in)
    OBVIOUS
  <2>7. r = Tool!SaveAndClose(Tool!SaveAndClose(h, head), tail)
    BY <1>1, <1>4, <2>4, <2>5, <2>6 DEF Tool!BehindTail, Tool!SaveEnds, Tool!BeforeHead
  <2>8. CASE b.thrown
    <3>1. At(b, Inc(v, head), m, {in}, s, d)
      BY <2>1, <2>5, <2>8, <1>4, AtOpen
    <3>2. r = b
      BY <2>6, <2>7, <2>8, Rests
    <3>3. QED
      BY <2>2, <2>8, <3>1, <3>2
  <2>9. CASE ~b.thrown
    <3>1. PICK w : w = Inc(Inc(v, head), tail)
      OBVIOUS
    <3>2. tail \in Inodes /\ At(b, w, m, {in}, s, d)
      BY <1>4, <2>1, <2>5, <2>9, <3>1, AtOpen
    <3>3. Inc(v, tail) \in [Inodes -> Nat]
      BY <1>2, <3>2, Incremented
    <3>4. w[in] > 0 /\ w[head] > 0 /\ w[tail] > 0
      <4>1. w \in [Inodes -> Nat] /\ w[tail] = Inc(v, head)[tail] + 1
            /\ \A i \in Inodes \ {tail} : w[i] = Inc(v, head)[i]
        BY <2>2, <3>1, <3>2, Incremented
      <4>2. Inc(v, head)[in] > 0
        BY <1>2, <2>2
      <4>3. QED
        BY <2>1, <2>2, <3>2, <4>1, <4>2
    <3>5. Dec(w, head) = Inc(v, tail) /\ Dec(Inc(v, tail), tail) = v /\ Inc(v, tail)[tail] > 0
      BY <1>2, <2>1, <3>1, <3>2, <3>3, Incremented, Commutes, Cancels
    <3>6. PICK c : c = Tool!SetNext(b, tail, in)
      OBVIOUS
    <3>7. PICK mc : mc = LinkNext(m, tail, in)
      OBVIOUS
    <3>8. ~c.thrown /\ At(c, w, mc, {in} \union {tail}, s, d)
      BY <2>9, <3>2, <3>4, <3>6, <3>7, AtSetNext
    <3>9. PICK e : e = Tool!SetNext(c, in, head)
      OBVIOUS
    <3>10. PICK me : me = LinkNext(mc, in, head)
      OBVIOUS
    <3>11. ~e.thrown /\ At(e, w, me, ({in} \union {tail}) \union {in}, s, d)
      BY <3>4, <3>8, <3>9, <3>10, AtSetNext
    <3>12. PICK f : f = Tool!SetPrev(e, in, tail)
      OBVIOUS
    <3>13. PICK mf : mf = LinkPrev(me, in, tail)
      OBVIOUS
    <3>14. ~f.thrown /\ At(f, w, mf, (({in} \union {tail}) \union {in}) \union {in}, s, d)
      BY <3>4, <3>11, <3>12, <3>13, AtSetPrev
    <3>15. PICK mh : mh = LinkPrev(mf, head, in)
      OBVIOUS
    <3>16. h = Tool!SetPrev(f, head, in)
      BY <2>6, <3>6, <3>9, <3>12
    <3>17. /\ ~h.thrown
           /\ At(h, w, mh, ((({in} \union {tail}) \union {in}) \union {in}) \union {head}, s, d)
      BY <2>1, <3>4, <3>14, <3>15, <3>16, AtSetPrev
    <3>18. PICK D : D = ((({in} \union {tail}) \union {in}) \union {in}) \union {head}
      OBVIOUS
    <3>19. PICK g : g = Tool!SaveAndClose(h, head)
      OBVIOUS
    <3>20. ~g.thrown /\ At(g, Inc(v, tail), mh, D \ {head}, s, d)
      BY <2>1, <3>4, <3>5, <3>17, <3>18, <3>19, AtSaveAndClose
    <3>21. PICK E : E = (D \ {head}) \ {tail}
      OBVIOUS
    <3>22. E \in SUBSET {in}
      BY <3>18, <3>21
    <3>23. r = Tool!SaveAndClose(g, tail)
      BY <2>7, <3>19
    <3>24. ~r.thrown /\ At(r, v, mh, E, s, d)
      BY <3>2, <3>5, <3>20, <3>21, <3>23, AtSaveAndClose
    <3>25. mh = LinkPrev(LinkPrev(LinkNext(LinkNext(m, tail, in), in, head), in, tail), head, in)
      BY <3>7, <3>10, <3>13, <3>15
    <3>26. QED
      BY <2>1, <2>3, <3>2, <3>22, <3>24, <3>25
  <2>10. QED
    BY <2>8, <2>9
<1>5. QED
  BY <1>3, <1>4

\* soFreeInode on a synchronised state: it ends in one of these ways.
FreedAlone(r, u, n, in) == At(r, u, LinkedAlone(n, in), {}, Super(in, 1), Super(in, 1))

\* The inode that is closed once more loses a user, if it has one.
FreedBesideOne(r, u, n, s, in) ==
    LET m == LinkedBesideOne(n, in, s.ihead)
    IN  /\ s.ihead \in Inodes
        /\ \/ ~r.thrown /\ u[in] > 0 /\ At(r, Dec(u, in), m, {}, Super(s.ihead, 2), Super(s.ihead, 2))
           \/ /\ r.thrown /\ u[in] = 0 /\ in \notin DOMAIN r.open
              /\ At(r, u, m, {}, Super(s.ihead, 2), Super(s.ihead, 2))

FreedBehind(r, u, n, s, in) ==
    /\ s.ihead \in Inodes
    /\ \E tail \in Inodes :
          /\ tail = Freed(n, in)[s.ihead].prev
          /\ At(r, u, LinkedBehind(n, in, s.ihead, tail), {},
                Super(s.ihead, s.ifree + 1), Super(s.ihead, s.ifree + 1))

FreedOne(r, u, n, s, in) ==
    /\ in \in Inodes
    /\ \/ s.ifree = 0 /\ ~r.thrown /\ FreedAlone(r, u, n, in)
       \/ s.ifree = 1 /\ FreedBesideOne(r, u, n, s, in)
       \/ s.ifree \notin {0, 1} /\ ~r.thrown /\ FreedBehind(r, u, n, s, in)

HalfFreed(r, u, s, d, in) ==
    /\ r.thrown /\ in \in Inodes
    /\ \E w, m : w[in] > u[in] /\ At(r, w, m, {in}, s, d)

LEMMA FreeEnds ==
  ASSUME NEW st, NEW u, NEW n, NEW s, NEW d, At(st, u, n, {}, s, d), ~st.thrown,
         NEW in, NEW r, r = Tool!soFreeInode(st, in)
  PROVE  \/ r.thrown /\ in \notin DOMAIN r.open /\ At(r, u, n, {}, s, d)
         \/ FreedOne(r, u, n, s, in)
         \/ HalfFreed(r, u, s, d, in)
<1>1. PICK o : o = Tool!iOpen(st, in)
  OBVIOUS
<1>2. PICK a : a = Tool!SetFree(o, in)
  OBVIOUS
<1>3. PICK b : b = Tool!AtTail(a, in)
  OBVIOUS
<1>4. r = Tool!SaveAndClose(Tool!sbSave(Tool!CountFree(b)), in)
  BY <1>1, <1>2, <1>3 DEF Tool!soFreeInode
<1>5. ASSUME b.thrown PROVE r = b
  BY <1>4, <1>5, Rests DEF Tool!CountFree
<1>6. CASE o.thrown
  <2>1. a = o /\ in \notin DOMAIN o.open /\ At(o, u, n, {}, s, d)
    BY <1>1, <1>2, <1>6, AtOpen, Rests
  <2>2. b = a
    <3>1. Tool!SetPrev(Tool!SetNext(Tool!SetSuper(a, in, 0), in, in), in, in) = a
      BY <1>6, <2>1, Rests
    <3>2. \A head : Tool!BesideOne(a, in, head) = a
      BY <1>6, <2>1, Rests DEF Tool!BesideOne
    <3>3. \A head : Tool!BehindTail(Tool!iOpen(a, head), in, head) = a
      BY <1>6, <2>1, Rests DEF Tool!BehindTail
    <3>4. QED
      BY <1>3, <3>1, <3>2, <3>3 DEF Tool!AtTail
  <2>3. QED
    BY <1>5, <1>6, <2>1, <2>2
<1>7. CASE ~o.thrown
  <2>1. in \in Inodes /\ At(o, Inc(u, in), n, {}, s, d)
    BY <1>1, <1>7, AtOpen
  <2>2. u \in [Inodes -> Nat]
    BY DEF At
  <2>3. PICK v : v = Inc(u, in)
    OBVIOUS
  <2>4. v \in [Inodes -> Nat] /\ v[in] = u[in] + 1 /\ v[in] > 0 /\ v[in] > u[in] /\ Dec(v, in) = u
    BY <2>1, <2>2, <2>3, Incremented, Cancels
  <2>5. PICK m : m = Freed(n, in)
    OBVIOUS
  <2>6. ~a.thrown /\ At(a, v, m, {in}, s, d)
    <3>1. {} \union {in} = {in}
      OBVIOUS
    <3>2. QED
      BY <1>2, <1>7, <2>1, <2>3, <2>4, <2>5, <3>1, AtSetFree
  <2>7. a.sb = s
    BY <2>6 DEF At
  \* Counting, saving the superblock, saving and closing the inode.
  <2>8. PICK e : e = Tool!sbSave(Tool!CountFree(b))
    OBVIOUS
  <2>9. ASSUME NEW w, NEW mb, NEW D, NEW s1, ~b.thrown, At(b, w, mb, D, s1, d)
        PROVE  ~e.thrown /\ At(e, w, mb, D, Super(s1.ihead, s1.ifree + 1), Super(s1.ihead, s1.ifree + 1))
    <3>1. PICK c : c = Tool!SetSuper(b, s1.ihead, s1.ifree + 1)
      OBVIOUS
    <3>2. c = Tool!CountFree(b)
      BY <2>9, <3>1 DEF Tool!CountFree, At
    <3>3. ~c.thrown /\ At(c, w, mb, D, Super(s1.ihead, s1.ifree + 1), d)
      BY <2>9, <3>1, AtSuper
    <3>4. QED
      BY <2>8, <3>2, <3>3, AtSaveSuper
  <2>10. r = Tool!SaveAndClose(e, in)
    BY <1>4, <2>8
  <2>11. CASE s.ifree = 0
    <3>1. PICK c : c = Tool!SetSuper(a, in, 0)
      OBVIOUS
    <3>2. ~c.thrown /\ At(c, v, m, {in}, Super(in, 0), d)
      BY <2>6, <3>1, AtSuper
    <3>3. PICK f : f = Tool!SetNext(c, in, in)
      OBVIOUS
    <3>4. ~f.thrown /\ At(f, v, LinkNext(m, in, in), {in} \union {in}, Super(in, 0), d)
      BY <2>1, <2>4, <3>2, <3>3, AtSetNext
    <3>5. b = Tool!SetPrev(f, in, in)
      BY <1>3, <2>7, <2>11, <3>1, <3>3 DEF Tool!AtTail
    <3>6. PICK D : D = ({in} \union {in}) \union {in}
      OBVIOUS
    <3>7. ~b.thrown /\ At(b, v, LinkedAlone(n, in), D, Super(in, 0), d)
      BY <2>1, <2>4, <2>5, <3>4, <3>5, <3>6, AtSetPrev DEF LinkedAlone
    <3>8. Super(in, 0).ihead = in /\ Super(in, 0).ifree + 1 = 1
      BY SuperFields
    <3>9. ~e.thrown /\ At(e, v, LinkedAlone(n, in), D, Super(in, 1), Super(in, 1))
      BY <2>9, <3>7, <3>8
    <3>10. D \ {in} = {}
      BY <3>6
    <3>11. ~r.thrown /\ FreedAlone(r, u, n, in)
      BY <2>1, <2>4, <2>10, <3>9, <3>10, AtSaveAndClose DEF FreedAlone
    <3>12. QED
      BY <2>1, <2>11, <3>11 DEF FreedOne
  <2>12. CASE s.ifree = 1
    <3>1. b = Tool!BesideOne(a, in, s.ihead)
      BY <1>3, <2>7, <2>12 DEF Tool!AtTail
    <3>2. \/ b.thrown /\ At(b, v, m, {in}, s, d)
          \/ /\ ~b.thrown /\ s.ihead \in Inodes
             /\ At(b, u, LinkedBesideOne(n, in, s.ihead), {}, s, d)
      BY <2>1, <2>2, <2>3, <2>5, <2>6, <3>1, TailOfOne
    <3>3. CASE b.thrown
      BY <1>5, <2>1, <2>4, <3>2, <3>3 DEF HalfFreed
    <3>4. CASE ~b.thrown
      <4>1. PICK mb : mb = LinkedBesideOne(n, in, s.ihead)
        OBVIOUS
      <4>2. ~e.thrown /\ At(e, u, mb, {}, Super(s.ihead, 2), Super(s.ihead, 2))
        <5>1. s.ifree + 1 = 2
          BY <2>12
        <5>2. QED
          BY <2>9, <3>2, <3>4, <4>1, <5>1
      <4>3. CASE u[in] > 0
        <5>1. {} \ {in} = {}
          OBVIOUS
        <5>2. ~r.thrown /\ At(r, Dec(u, in), mb, {}, Super(s.ihead, 2), Super(s.ihead, 2))
          BY <2>1, <2>10, <4>2, <4>3, <5>1, AtSaveAndClose
        <5>3. FreedBesideOne(r, u, n, s, in)
          BY <3>2, <3>4, <4>1, <4>3, <5>2 DEF FreedBesideOne
        <5>4. QED
          BY <2>1, <2>12, <5>3 DEF FreedOne
      <4>4. CASE ~(u[in] > 0)
        <5>1. r.thrown /\ in \notin DOMAIN r.open /\ At(r, u, mb, {}, Super(s.ihead, 2), Super(s.ihead, 2))
          BY <2>1, <2>10, <4>2, <4>4, AtCloseAgain
        <5>2. u[in] = 0
          BY <2>1, <2>2, <4>4
        <5>3. FreedBesideOne(r, u, n, s, in)
          BY <3>2, <3>4, <4>1, <5>1, <5>2 DEF FreedBesideOne
        <5>4. QED
          BY <2>1, <2>12, <5>3 DEF FreedOne
      <4>5. QED
        BY <4>3, <4>4
    <3>5. QED
      BY <3>3, <3>4
  <2>13. CASE s.ifree # 0 /\ s.ifree # 1
    <3>1. b = Tool!BehindTail(Tool!iOpen(a, s.ihead), in, s.ihead)
      BY <1>3, <2>7, <2>13 DEF Tool!AtTail
    <3>2. Tailed(b, v, m, s, d, in, s.ihead)
      BY <2>1, <2>4, <2>6, <3>1, TailOfMany
    <3>3. CASE b.thrown
      <4>1. PICK w : w[in] >= v[in] /\ At(b, w, m, {in}, s, d)
        BY <3>2, <3>3 DEF Tailed
      <4>2. w[in] > u[in]
        <5>1. w \in [Inodes -> Nat]
          BY <4>1 DEF At
        <5>2. QED
          BY <2>1, <2>2, <2>4, <4>1, <5>1
      <4>3. QED
        BY <1>5, <2>1, <3>3, <4>1, <4>2 DEF HalfFreed
    <3>4. CASE ~b.thrown
      <4>1. PICK tail \in Inodes, D \in SUBSET {in} :
               /\ tail = m[s.ihead].prev
               /\ At(b, v, LinkPrev(LinkPrev(LinkNext(LinkNext(m, tail, in), in, s.ihead), in, tail),
                                    s.ihead, in), D, s, d)
        BY <3>2, <3>4 DEF Tailed
      <4>2. At(b, v, LinkedBehind(n, in, s.ihead, tail), D, s, d)
        BY <2>5, <4>1 DEF LinkedBehind
      <4>3. PICK s2 : s2 = Super(s.ihead, s.ifree + 1)
        OBVIOUS
      <4>4. ~e.thrown /\ At(e, v, LinkedBehind(n, in, s.ihead, tail), D, s2, s2)
        BY <2>9, <3>4, <4>2, <4>3
      <4>5. D \ {in} = {}
        OBVIOUS
      <4>6. ~r.thrown /\ At(r, u, LinkedBehind(n, in, s.ihead, tail), {}, s2, s2)
        BY <2>1, <2>4, <2>10, <4>4, <4>5, AtSaveAndClose
      <4>7. FreedBehind(r, u, n, s, in)
        BY <2>5, <3>2, <3>4, <4>1, <4>3, <4>6 DEF FreedBehind, Tailed, Tailed
      <4>8. QED
        BY <2>1, <2>13, <4>6, <4>7 DEF FreedOne
    <3>5. QED
      BY <3>3, <3>4
  <2>14. QED
    BY <2>11, <2>12, <2>13
<1>8. QED
  BY <1>6, <1>7

-----------------------------------------------------------------------------
(***************************************************************************)
(* HandlesAccounted.  As long as no command has stopped in the middle, the *)
(* copies are what the disk has, and so is the superblock (but for an      *)
(* allocation that took an inode in use for the head: then no later        *)
(* command gets hold of a head); and the users of each inode are those     *)
(* that commands have left.                                                *)
(***************************************************************************)
Whole == damage \intersect {"half allocated", "half freed"} = {}

Used == [in \in Inodes |-> UsersIn(open, in)]

Even ==
    /\ \A in \in DOMAIN open : open[in].node = table[in]
    /\ super.ifree \in Nat /\ superDisk.ifree \in Nat
    /\ super = superDisk \/ (super.ihead = Time /\ super.ifree # 0)
    /\ left = Used

Failing == device # "open" => left = [in \in Inodes |-> 0]

LEMMA ToolAssumed ==
  /\ ITotal \in Nat \ {0} /\ NullReference \notin Inodes /\ Time \notin Inodes
BY VolumeAssumption DEF Tool!TesttoolAssumption, Inodes, Tool!Inodes

LEMMA EvenState ==
  ASSUME AInv, Even
  PROVE  /\ At(Tool!State, left, table, {}, super, superDisk) /\ ~Tool!State.thrown
         /\ left \in [Inodes -> Nat]
<1>1. PICK st : st = Tool!State
  OBVIOUS
<1>2. /\ DOMAIN st = Fields /\ st.open = open /\ st.table = table
      /\ st.sb = super /\ st.sbDisk = superDisk /\ st.thrown = FALSE
  BY <1>1, StateFields
<1>3. IsState(st) /\ DOMAIN table = Inodes
  BY <1>2 DEF AInv, ShowsAll, IsState, IsTable
<1>4. left \in [Inodes -> Nat] /\ \A in \in Inodes : left[in] = UsersIn(st.open, in)
  <2>1. ASSUME NEW in \in Inodes PROVE UsersIn(open, in) \in Nat
    BY <1>2, <1>3 DEF UsersIn, IsState, IsPool, IsPlace
  <2>2. QED
    BY <1>2, <2>1 DEF Used, Even
<1>5. At(st, left, table, {}, super, superDisk)
  BY <1>2, <1>3, <1>4 DEF At, Even
<1>6. QED
  BY <1>1, <1>2, <1>4, <1>5

\* The ledger a command ends with is what there is of users.
LEMMA EvenAfter ==
  ASSUME NEW st, NEW w, Tool!Step(st, w), NEW m, NEW s, NEW d, At(st, w, m, {}, s, d),
         s.ifree \in Nat, d.ifree \in Nat, s = d \/ (s.ihead = Time /\ s.ifree # 0)
  PROVE  Even'
<1>1. open' = st.open /\ table' = st.table /\ super' = s /\ superDisk' = d /\ left' = w
  BY DEF Tool!Step, At
<1>2. /\ DOMAIN st.open \subseteq Inodes /\ w \in [Inodes -> Nat]
      /\ \A i \in Inodes : /\ w[i] = UsersIn(st.open, i)
                           /\ i \in DOMAIN st.open => st.open[i].node = st.table[i]
  BY DEF At, IsState, IsPool
<1>3. \A i \in DOMAIN open' : open'[i].node = table'[i]
  BY <1>1, <1>2
<1>4. Inodes' = Inodes
  BY DEF Inodes, Tool!Inodes
<1>5. w = [i \in Inodes |-> UsersIn(st.open, i)]
  BY <1>2
<1>6. left' = Used'
  BY <1>1, <1>4, <1>5 DEF Used, UsersIn
<1>7. QED
  BY <1>1, <1>3, <1>6 DEF Even

\* What a command leaves of the users when it ends in st.
LEMMA Ledgers ==
  ASSUME NEW st, NEW in
  PROVE  /\ ~(st.thrown /\ in \in DOMAIN st.open) => Tool!Kept(st, in) = left
         /\ st.thrown /\ in \in DOMAIN st.open => Tool!Kept(st, in) = Inc(left, in)
         /\ st.thrown => Tool!TookBack(st, in) = Tool!Kept(st, in)
         /\ ~st.thrown => Tool!TookBack(st, in) = Dec(left, in)
BY DEF Tool!Kept, Tool!TookBack, Tool!Leave, Inc, Dec

\* The tool is at work on the disk.
LEMMA StepFailing ==
  ASSUME NEW st, NEW w, Tool!Step(st, w)
  PROVE  Failing'
BY DEF Tool!Step, Failing

LEMMA Occupies ==
  ASSUME NEW n, DOMAIN n = Inodes, NEW h \in Inodes, DOMAIN n[h] = NodeFields,
         Seized(n, h)[h] = n[h]
  PROVE  n[h].next = Time
<1>1. n[h] = Tool!Occupied(n[h])
  BY DEF Seized, Put
<1>2. Tool!Occupied(n[h]).next = Time
  BY DEF Tool!Occupied, NodeFields
<1>3. QED
  BY <1>1, <1>2

LEMMA AllocEven ==
  ASSUME AInv, Whole => Even, Tool!allocInode
  PROVE  Failing' /\ (Whole' => Even')
<1>1. PICK st : /\ st = Tool!soAllocInode(Tool!State)
                /\ Tool!Step(st, left)
                /\ damage' = damage \union Tool!Damage(st.thrown /\ st.table # table, "half allocated")
  BY DEF Tool!allocInode, Tool!Command
<1>2. Failing'
  BY <1>1, StepFailing
<1>3. ASSUME Whole' PROVE Even'
  <2>1. Whole /\ ~(st.thrown /\ st.table # table)
    BY <1>1, <1>3 DEF Whole, Tool!Damage
  <2>2. Even
    BY <2>1
  <2>3. PICK u : u = left
    OBVIOUS
  <2>4. At(Tool!State, u, table, {}, super, superDisk) /\ ~Tool!State.thrown
    BY <2>2, <2>3, EvenState
  <2>5. \/ st.thrown /\ At(st, u, table, {}, super, superDisk)
        \/ Allocated(st, u, table, super)
        \/ HalfAllocated(st, u, table, super, superDisk)
    BY <1>1, <2>4, AllocEnds
  <2>6. ASSUME NEW m, NEW s, NEW d, At(st, u, m, {}, s, d),
               s.ifree \in Nat, d.ifree \in Nat, s = d \/ (s.ihead = Time /\ s.ifree # 0)
        PROVE  Even'
    BY <1>1, <2>3, <2>6, EvenAfter
  <2>7. CASE st.thrown /\ At(st, u, table, {}, super, superDisk)
    BY <2>2, <2>6, <2>7 DEF Even
  <2>8. CASE Allocated(st, u, table, super)
    <3>1. CASE super.ifree = 1 /\ AllocatedOne(st, u, table, super)
      <4>1. Super(NullReference, 0).ifree \in Nat
        BY SuperFields
      <4>2. QED
        BY <2>6, <3>1, <4>1 DEF AllocatedOne
    <3>2. CASE super.ifree = 2 /\ AllocatedTwo(st, u, table, super)
      <4>1. \A x : Super(x, 1).ifree \in Nat
        BY SuperFields
      <4>2. QED
        BY <2>6, <3>2, <4>1 DEF AllocatedTwo
    <3>3. CASE super.ifree \notin {0, 1, 2} /\ AllocatedMany(st, u, table, super)
      <4>1. super.ifree - 1 \in Nat
        <5>1. PICK f : f = super.ifree
          OBVIOUS
        <5>2. f \in Nat
          BY <2>2, <5>1 DEF Even
        <5>3. f # 0
          BY <3>3, <5>1
        <5>4. f - 1 \in Nat
          BY <5>2, <5>3
        <5>5. QED
          BY <5>1, <5>4
      <4>2. \A x : Super(x, super.ifree - 1).ifree \in Nat
        BY <4>1, SuperFields
      <4>3. QED
        BY <2>6, <3>3, <4>2 DEF AllocatedMany
    <3>4. QED
      BY <2>8, <3>1, <3>2, <3>3 DEF Allocated
  <2>9. CASE HalfAllocated(st, u, table, super, superDisk)
    <3>1. PICK h, next, s2 :
             h = super.ihead /\ next = table[h].next /\ s2 = Super(next, super.ifree - 1)
      OBVIOUS
    <3>2. /\ st.thrown /\ h \in Inodes /\ super.ifree \notin {0, 1}
          /\ \/ At(st, u, Seized(table, h), {}, s2, superDisk)
             \/ next \in Inodes /\ At(st, Inc(u, next), Seized(table, h), {}, s2, superDisk)
      BY <2>9, <3>1 DEF HalfAllocated
    <3>3. st.table = table
      BY <2>1, <3>2
    <3>4. Seized(table, h)[h] = table[h]
      BY <3>2, <3>3 DEF At
    <3>5. next = Time
      BY <3>1, <3>2, <3>4, Occupies DEF AInv, ShowsAll, IsTable
    <3>6. At(st, u, Seized(table, h), {}, s2, superDisk)
      BY <3>2, <3>5, ToolAssumed
    <3>7. s2.ihead = Time /\ s2.ifree \in Nat /\ s2.ifree # 0 /\ superDisk.ifree \in Nat
      <4>1. s2.ihead = next /\ s2.ifree = super.ifree - 1
        BY <3>1, SuperFields
      <4>2. PICK f : f = super.ifree
        OBVIOUS
      <4>3. f \in Nat /\ superDisk.ifree \in Nat
        BY <2>2, <4>2 DEF Even
      <4>4. f # 0 /\ f # 1
        BY <3>2, <4>2
      <4>5. f - 1 \in Nat /\ f - 1 # 0
        BY <4>3, <4>4
      <4>6. QED
        BY <3>5, <4>1, <4>2, <4>3, <4>5
    <3>8. QED
      BY <2>6, <3>6, <3>7
  <2>10. QED
    BY <2>5, <2>7, <2>8, <2>9
<1>4. QED
  BY <1>2, <1>3

LEMMA FreeEven ==
  ASSUME AInv, Whole => Even, Tool!freeInode
  PROVE  Failing' /\ (Whole' => Even')
<1>1. PICK in : \E st \in {Tool!soFreeInode(Tool!State, in)} :
         /\ Tool!Step(st, IF super.ifree = 1 THEN Tool!TookBack(st, in) ELSE Tool!Kept(st, in))
         /\ damage' = damage
              \union Tool!Damage(st.open # open /\ st.sbDisk = superDisk, "half freed")
              \union Tool!Damage(st.sbDisk # superDisk /\ Tool!NodeOf(in).free, "freed twice")
  BY DEF Tool!freeInode, Tool!Command
<1>2. PICK st, w :
         /\ st = Tool!soFreeInode(Tool!State, in) /\ Tool!Step(st, w)
         /\ w = IF super.ifree = 1 THEN Tool!TookBack(st, in) ELSE Tool!Kept(st, in)
         /\ damage' = damage
              \union Tool!Damage(st.open # open /\ st.sbDisk = superDisk, "half freed")
              \union Tool!Damage(st.sbDisk # superDisk /\ Tool!NodeOf(in).free, "freed twice")
  BY <1>1
<1>3. Failing'
  BY <1>2, StepFailing
<1>4. ASSUME Whole' PROVE Even'
  <2>1. Whole /\ ~(st.open # open /\ st.sbDisk = superDisk)
    BY <1>2, <1>4 DEF Whole, Tool!Damage
  <2>2. Even
    BY <2>1
  <2>3. PICK u : u = left
    OBVIOUS
  <2>4. At(Tool!State, u, table, {}, super, superDisk) /\ ~Tool!State.thrown
    BY <2>2, <2>3, EvenState
  <2>5. \/ st.thrown /\ in \notin DOMAIN st.open /\ At(st, u, table, {}, super, superDisk)
        \/ FreedOne(st, u, table, super, in)
        \/ HalfFreed(st, u, super, superDisk, in)
    BY <1>2, <2>4, FreeEnds
  \* No more is left open of the inode than there was.
  <2>6. ASSUME NEW m, NEW s, NEW d, At(st, u, m, {}, s, d), st.thrown => in \notin DOMAIN st.open,
               ~st.thrown => super.ifree # 1,
               s.ifree \in Nat, d.ifree \in Nat, s = d \/ (s.ihead = Time /\ s.ifree # 0)
        PROVE  Even'
    <3>1. Tool!Kept(st, in) = left /\ (st.thrown => Tool!TookBack(st, in) = left)
      BY <2>6, Ledgers
    <3>2. w = left
      BY <1>2, <2>6, <3>1
    <3>3. QED
      BY <1>2, <2>3, <2>6, <3>2, EvenAfter
  <2>7. CASE st.thrown /\ in \notin DOMAIN st.open /\ At(st, u, table, {}, super, superDisk)
    BY <2>2, <2>6, <2>7 DEF Even
  <2>8. CASE FreedOne(st, u, table, super, in)
    <3>1. CASE super.ifree = 0 /\ ~st.thrown /\ FreedAlone(st, u, table, in)
      <4>1. Super(in, 1).ifree \in Nat
        BY SuperFields
      <4>2. QED
        BY <2>6, <3>1, <4>1 DEF FreedAlone
    <3>2. CASE super.ifree = 1 /\ FreedBesideOne(st, u, table, super, in)
      <4>1. PICK m, s2 : m = LinkedBesideOne(table, in, super.ihead) /\ s2 = Super(super.ihead, 2)
        OBVIOUS
      <4>2. s2.ifree \in Nat
        BY <4>1, SuperFields
      <4>3. /\ super.ihead \in Inodes
            /\ \/ ~st.thrown /\ u[in] > 0 /\ At(st, Dec(u, in), m, {}, s2, s2)
               \/ st.thrown /\ u[in] = 0 /\ in \notin DOMAIN st.open /\ At(st, u, m, {}, s2, s2)
        BY <3>2, <4>1 DEF FreedBesideOne
      <4>4. CASE ~st.thrown /\ u[in] > 0 /\ At(st, Dec(u, in), m, {}, s2, s2)
        <5>1. w = Dec(u, in)
          BY <1>2, <2>3, <3>2, <4>4, Ledgers
        <5>2. QED
          BY <1>2, <4>2, <4>4, <5>1, EvenAfter
      <4>5. CASE st.thrown /\ u[in] = 0 /\ in \notin DOMAIN st.open /\ At(st, u, m, {}, s2, s2)
        BY <2>6, <4>2, <4>5
      <4>6. QED
        BY <4>3, <4>4, <4>5
    <3>3. CASE super.ifree \notin {0, 1} /\ ~st.thrown /\ FreedBehind(st, u, table, super, in)
      <4>1. PICK s2 : s2 = Super(super.ihead, super.ifree + 1)
        OBVIOUS
      <4>2. s2.ifree \in Nat
        <5>1. PICK f : f = super.ifree
          OBVIOUS
        <5>2. s2.ifree = f + 1
          BY <4>1, <5>1, SuperFields
        <5>3. f \in Nat
          BY <2>2, <5>1 DEF Even
        <5>4. f + 1 \in Nat
          BY <5>3
        <5>5. QED
          BY <5>2, <5>4
      <4>3. \E m : At(st, u, m, {}, s2, s2)
        BY <3>3, <4>1 DEF FreedBehind
      <4>4. QED
        BY <2>6, <3>3, <4>2, <4>3
    <3>4. QED
      BY <2>8, <3>1, <3>2, <3>3 DEF FreedOne
  <2>9. CASE HalfFreed(st, u, super, superDisk, in)
    <3>1. PICK v, m : in \in Inodes /\ v[in] > u[in] /\ At(st, v, m, {in}, super, superDisk)
      BY <2>9 DEF HalfFreed
    <3>2. st.sbDisk = superDisk /\ v[in] = UsersIn(st.open, in)
      BY <3>1 DEF At
    <3>3. u[in] = UsersIn(open, in)
      BY <2>2, <2>3, <3>1 DEF Used, Even
    <3>4. v[in] \in Nat /\ u[in] \in Nat
      BY <2>4, <3>1 DEF At
    <3>5. st.open # open
      BY <3>1, <3>2, <3>3, <3>4
    <3>6. QED
      BY <2>1, <3>2, <3>5
  <2>10. QED
    BY <2>5, <2>7, <2>8, <2>9
<1>5. QED
  BY <1>3, <1>4

\* The first step of every command on an inode.
LEMMA OpensEven ==
  ASSUME AInv, Even, NEW in, NEW o, o = Tool!iOpen(Tool!State, in)
  PROVE  \/ o.thrown /\ in \notin DOMAIN o.open /\ At(o, left, table, {}, super, superDisk)
         \/ ~o.thrown /\ in \in Inodes /\ At(o, Inc(left, in), table, {}, super, superDisk)
<1>1. At(Tool!State, left, table, {}, super, superDisk) /\ ~Tool!State.thrown
  BY EvenState
<1>2. QED
  BY <1>1, AtOpen

\* What has opened the inode once and throws leaves a user of it.
LEMMA ThrowsKeeps ==
  ASSUME NEW st, NEW in \in Inodes, NEW u \in [Inodes -> Nat], NEW m, NEW s, NEW d,
         At(st, Inc(u, in), m, {}, s, d)
  PROVE  in \in DOMAIN st.open
<1>1. PICK w : w = Inc(u, in)
  OBVIOUS
<1>2. w[in] > 0
  BY <1>1, Incremented
<1>3. QED
  BY <1>1, <1>2, AtOpened

\* What has opened the inode once, and saves and closes it, leaves none.
LEMMA ClosesEven ==
  ASSUME NEW st, NEW in \in Inodes, NEW u \in [Inodes -> Nat], NEW m, NEW D, NEW s, NEW d,
         At(st, Inc(u, in), m, D, s, d), ~st.thrown
  PROVE  /\ LET r == Tool!SaveAndClose(st, in) IN ~r.thrown /\ At(r, u, m, D \ {in}, s, d)
         /\ D = {} => LET r == Tool!iClose(st, in) IN ~r.thrown /\ At(r, u, m, {}, s, d)
<1>1. PICK w : w = Inc(u, in)
  OBVIOUS
<1>2. w[in] > 0 /\ Dec(w, in) = u
  <2>1. w[in] = u[in] + 1 /\ u[in] \in Nat
    BY <1>1, Incremented
  <2>2. QED
    BY <1>1, <2>1, Cancels
<1>3. At(st, w, m, D, s, d)
  BY <1>1
<1>4. PICK r : r = Tool!SaveAndClose(st, in)
  OBVIOUS
<1>5. ~r.thrown /\ At(r, Dec(w, in), m, D \ {in}, s, d)
  BY <1>2, <1>3, <1>4, AtSaveAndClose
<1>6. ASSUME D = {}
      PROVE  ~Tool!iClose(st, in).thrown /\ At(Tool!iClose(st, in), u, m, {}, s, d)
  <2>1. At(st, w, m, {}, s, d) /\ in \notin {}
    BY <1>3, <1>6
  <2>2. PICK c : c = Tool!iClose(st, in)
    OBVIOUS
  <2>3. ~c.thrown /\ At(c, Dec(w, in), m, {}, s, d)
    BY <1>2, <2>1, <2>2, AtClose
  <2>4. QED
    BY <1>2, <2>2, <2>3
<1>7. QED
  BY <1>2, <1>4, <1>5, <1>6

\* A change of an inode is on the disk, or the disk is as it was.
LEMMA ChangeEnds ==
  ASSUME AInv, Even, NEW in \in Inodes, NEW node, DOMAIN node = NodeFields, NEW throws \in BOOLEAN,
         Tool!ChangeInode(in, node, throws)
  PROVE  \E st, w : /\ Tool!Step(st, w)
                    /\ \/ At(st, w, table, {}, super, superDisk)
                       \/ At(st, w, Put(table, in, node), {}, super, superDisk)
<1>1. PICK o : o = Tool!iOpen(Tool!State, in)
  OBVIOUS
<1>2. PICK st : st = Tool!Change(o, in, node, throws) /\ Tool!Step(st, Tool!Kept(st, in))
  BY <1>1 DEF Tool!ChangeInode, Tool!Command
<1>3. \/ o.thrown /\ in \notin DOMAIN o.open /\ At(o, left, table, {}, super, superDisk)
      \/ ~o.thrown /\ At(o, Inc(left, in), table, {}, super, superDisk)
  BY <1>1, OpensEven
<1>4. left \in [Inodes -> Nat]
  BY EvenState
<1>5. CASE o.thrown /\ in \notin DOMAIN o.open /\ At(o, left, table, {}, super, superDisk)
  <2>1. st = o
    BY <1>2, <1>5 DEF Tool!Change
  <2>2. Tool!Kept(st, in) = left
    BY <1>5, <2>1, Ledgers
  <2>3. QED
    BY <1>2, <1>5, <2>1, <2>2
<1>6. CASE ~o.thrown /\ At(o, Inc(left, in), table, {}, super, superDisk) /\ throws
  <2>1. st = Tool!Throw(o)
    BY <1>2, <1>6 DEF Tool!Change
  <2>2. At(st, Inc(left, in), table, {}, super, superDisk) /\ st.thrown
    BY <1>6, <2>1, AtThrow
  <2>3. Tool!Kept(st, in) = Inc(left, in)
    BY <1>4, <2>2, ThrowsKeeps, Ledgers
  <2>4. QED
    BY <1>2, <2>2, <2>3
<1>7. CASE ~o.thrown /\ At(o, Inc(left, in), table, {}, super, superDisk) /\ ~throws
  <2>1. PICK a : a = Assign(o, in, node)
    OBVIOUS
  <2>2. st = Tool!SaveAndClose(a, in)
    BY <1>2, <1>7, <2>1 DEF Tool!Change, Assign
  <2>3. PICK w : w = Inc(left, in)
    OBVIOUS
  <2>4. w[in] > 0
    BY <1>4, <2>3, Incremented
  <2>5. At(o, w, table, {}, super, superDisk) /\ ~o.thrown
    BY <1>7, <2>3
  <2>6. ~a.thrown /\ At(a, w, Put(table, in, node), {} \union {in}, super, superDisk)
    BY <2>1, <2>4, <2>5, AtAssign
  <2>7. ~st.thrown /\ At(st, left, Put(table, in, node), ({} \union {in}) \ {in}, super, superDisk)
    BY <1>4, <2>2, <2>3, <2>6, ClosesEven
  <2>8. ({} \union {in}) \ {in} = {}
    OBVIOUS
  <2>9. Tool!Kept(st, in) = left
    BY <2>7, Ledgers
  <2>10. QED
    BY <1>2, <2>7, <2>8, <2>9
<1>8. QED
  BY <1>3, <1>5, <1>6, <1>7

\* An errand leaves the inodes as they were, and the superblock as it was or saved.
Quiet(st, w) ==
    /\ Tool!Step(st, w)
    /\ \E d \in {super, superDisk} : At(st, w, table, {}, super, d)

LEMMA AsksEnds ==
  ASSUME AInv, Even, NEW in, NEW throws, Tool!Asks(in, throws)
  PROVE  \E st, w : Quiet(st, w)
<1>1. PICK o : o = Tool!iOpen(Tool!State, in)
  OBVIOUS
<1>2. PICK st : /\ Tool!Step(st, Tool!Kept(st, in))
                /\ \/ o.thrown /\ st = o
                   \/ ~o.thrown /\ st = Tool!Throw(o)
                   \/ ~o.thrown /\ st = Tool!iClose(o, in)
  BY <1>1, AsksSteps
<1>3. \/ o.thrown /\ in \notin DOMAIN o.open /\ At(o, left, table, {}, super, superDisk)
      \/ ~o.thrown /\ in \in Inodes /\ At(o, Inc(left, in), table, {}, super, superDisk)
  BY <1>1, OpensEven
<1>4. left \in [Inodes -> Nat]
  BY EvenState
<1>5. CASE o.thrown /\ st = o
  <2>1. Tool!Kept(st, in) = left
    BY <1>3, <1>5, Ledgers
  <2>2. QED
    BY <1>2, <1>3, <1>5, <2>1 DEF Quiet
<1>6. CASE ~o.thrown /\ st = Tool!Throw(o)
  <2>1. At(st, Inc(left, in), table, {}, super, superDisk) /\ st.thrown /\ in \in Inodes
    BY <1>3, <1>6, AtThrow
  <2>2. Tool!Kept(st, in) = Inc(left, in)
    BY <1>4, <2>1, ThrowsKeeps, Ledgers
  <2>3. QED
    BY <1>2, <2>1, <2>2 DEF Quiet
<1>7. CASE ~o.thrown /\ st = Tool!iClose(o, in)
  <2>1. ~st.thrown /\ At(st, left, table, {}, super, superDisk)
    BY <1>3, <1>4, <1>7, ClosesEven
  <2>2. Tool!Kept(st, in) = left
    BY <2>1, Ledgers
  <2>3. QED
    BY <1>2, <2>1, <2>2 DEF Quiet
<1>8. QED
  BY <1>2, <1>5, <1>6, <1>7

LEMMA HandsEnds ==
  ASSUME AInv, Even, NEW in, NEW throws, Tool!Hands(in, throws)
  PROVE  \E st, w : Quiet(st, w)
<1>1. PICK o : o = Tool!iOpen(Tool!State, in)
  OBVIOUS
<1>2. PICK b, st : /\ b \in {o, Tool!sbSave(o), Tool!iSave(Tool!sbSave(o), in)}
                   /\ Tool!Step(st, Tool!Kept(st, in))
                   /\ st = Tool!Throw(b) \/ st = Tool!SaveAndClose(b, in)
  BY <1>1, HandsSteps
<1>3. \/ o.thrown /\ in \notin DOMAIN o.open /\ At(o, left, table, {}, super, superDisk)
      \/ ~o.thrown /\ in \in Inodes /\ At(o, Inc(left, in), table, {}, super, superDisk)
  BY <1>1, OpensEven
<1>4. left \in [Inodes -> Nat]
  BY EvenState
<1>5. CASE o.thrown /\ in \notin DOMAIN o.open /\ At(o, left, table, {}, super, superDisk)
  <2>1. b = o
    <3>1. Tool!sbSave(o) = o
      BY <1>5, Rests
    <3>2. Tool!iSave(o, in) = o
      BY <1>5, Rests
    <3>3. QED
      BY <1>2, <3>1, <3>2
  <2>2. st.thrown /\ in \notin DOMAIN st.open /\ At(st, left, table, {}, super, superDisk)
    <3>1. CASE st = Tool!Throw(o)
      BY <1>5, <3>1, AtThrow
    <3>2. CASE st = Tool!SaveAndClose(o, in)
      <4>1. st = o
        BY <1>5, <3>2, Rests
      <4>2. QED
        BY <1>5, <4>1
    <3>3. QED
      BY <1>2, <2>1, <3>1, <3>2
  <2>3. Tool!Kept(st, in) = left
    BY <2>2, Ledgers
  <2>4. QED
    BY <1>2, <2>2, <2>3 DEF Quiet
<1>6. CASE ~o.thrown /\ in \in Inodes /\ At(o, Inc(left, in), table, {}, super, superDisk)
  <2>1. PICK w : w = Inc(left, in)
    OBVIOUS
  <2>2. ~b.thrown /\ \E d \in {super, superDisk} : At(b, w, table, {}, super, d)
    <3>1. PICK v : v = Tool!sbSave(o)
      OBVIOUS
    <3>2. At(o, w, table, {}, super, superDisk) /\ ~o.thrown
      BY <1>6, <2>1
    <3>3. ~v.thrown /\ At(v, w, table, {}, super, super)
      BY <3>1, <3>2, AtSaveSuper
    <3>4. CASE b = Tool!iSave(v, in)
      <4>1. w[in] > 0
        BY <1>4, <1>6, <2>1, Incremented
      <4>2. ~b.thrown /\ At(b, w, table, {} \ {in}, super, super)
        BY <1>6, <3>3, <3>4, <4>1, AtSave
      <4>3. {} \ {in} = {}
        OBVIOUS
      <4>4. QED
        BY <4>2, <4>3
    <3>5. QED
      BY <1>2, <3>1, <3>2, <3>3, <3>4
  <2>3. PICK d : d \in {super, superDisk} /\ At(b, w, table, {}, super, d)
    BY <2>2
  <2>4. CASE st = Tool!Throw(b)
    <3>1. At(st, w, table, {}, super, d) /\ st.thrown
      BY <2>3, <2>4, AtThrow
    <3>2. At(st, Inc(left, in), table, {}, super, d)
      BY <2>1, <3>1
    <3>3. Tool!Kept(st, in) = Inc(left, in)
      BY <1>4, <1>6, <3>1, <3>2, ThrowsKeeps, Ledgers
    <3>4. QED
      BY <1>2, <2>3, <3>2, <3>3 DEF Quiet
  <2>5. CASE st = Tool!SaveAndClose(b, in)
    <3>1. At(b, Inc(left, in), table, {}, super, d)
      BY <2>1, <2>3
    <3>2. ~st.thrown /\ At(st, left, table, {} \ {in}, super, d)
      BY <1>4, <1>6, <2>2, <2>5, <3>1, ClosesEven
    <3>3. {} \ {in} = {}
      OBVIOUS
    <3>4. Tool!Kept(st, in) = left
      BY <3>2, Ledgers
    <3>5. QED
      BY <1>2, <2>3, <3>2, <3>3, <3>4 DEF Quiet
  <2>6. QED
    BY <1>2, <2>4, <2>5
<1>7. QED
  BY <1>3, <1>5, <1>6

\* soFreeFileClusters gives back the user that the command has taken, and the command one more.
LEMMA FreeClustersEnds ==
  ASSUME AInv, Even, Tool!freeFileClusters
  PROVE  \E st, w : Quiet(st, w)
<1>1. PICK in, o, st :
         /\ o = Tool!iOpen(Tool!State, in)
         /\ Tool!Step(st, Tool!TookBack(st, in))
         /\ \/ st = Tool!Throw(o) \/ st = Tool!Throw(Tool!sbSave(o))
            \/ st = Tool!SaveAndClose(Tool!sbSave(Tool!SaveAndClose(o, in)), in)
  BY FreeClustersSteps
<1>2. \/ o.thrown /\ in \notin DOMAIN o.open /\ At(o, left, table, {}, super, superDisk)
      \/ ~o.thrown /\ in \in Inodes /\ At(o, Inc(left, in), table, {}, super, superDisk)
  BY <1>1, OpensEven
<1>3. left \in [Inodes -> Nat]
  BY EvenState
<1>4. CASE o.thrown /\ in \notin DOMAIN o.open /\ At(o, left, table, {}, super, superDisk)
  <2>1. Tool!sbSave(o) = o /\ Tool!SaveAndClose(o, in) = o
    BY <1>4, Rests
  <2>2. st = o \/ st = Tool!Throw(o)
    BY <1>1, <2>1
  <2>3. st.thrown /\ in \notin DOMAIN st.open /\ At(st, left, table, {}, super, superDisk)
    BY <1>4, <2>2, AtThrow
  <2>4. Tool!TookBack(st, in) = left
    BY <2>3, Ledgers
  <2>5. QED
    BY <1>1, <2>3, <2>4 DEF Quiet
<1>5. CASE ~o.thrown /\ in \in Inodes /\ At(o, Inc(left, in), table, {}, super, superDisk)
  <2>1. CASE st = Tool!Throw(o) \/ st = Tool!Throw(Tool!sbSave(o))
    <3>1. PICK v : v = Tool!sbSave(o)
      OBVIOUS
    <3>2. At(v, Inc(left, in), table, {}, super, super)
      BY <1>5, <3>1, AtSaveSuper
    <3>3. st.thrown /\ \E d \in {super, superDisk} : At(st, Inc(left, in), table, {}, super, d)
      <4>1. CASE st = Tool!Throw(o)
        BY <1>5, <4>1, AtThrow
      <4>2. CASE st = Tool!Throw(v)
        BY <3>2, <4>2, AtThrow
      <4>3. QED
        BY <2>1, <3>1, <4>1, <4>2
    <3>4. Tool!TookBack(st, in) = Inc(left, in)
      BY <1>3, <1>5, <3>3, ThrowsKeeps, Ledgers
    <3>5. QED
      BY <1>1, <3>3, <3>4 DEF Quiet
  <2>2. CASE st = Tool!SaveAndClose(Tool!sbSave(Tool!SaveAndClose(o, in)), in)
    <3>1. PICK a, b : a = Tool!SaveAndClose(o, in) /\ b = Tool!sbSave(a)
      OBVIOUS
    <3>2. ~a.thrown /\ At(a, left, table, {} \ {in}, super, superDisk)
      BY <1>3, <1>5, <3>1, ClosesEven
    <3>3. {} \ {in} = {}
      OBVIOUS
    <3>4. ~b.thrown /\ At(b, left, table, {}, super, super)
      BY <3>1, <3>2, <3>3, AtSaveSuper
    <3>5. CASE left[in] > 0
      <4>1. ~st.thrown /\ At(st, Dec(left, in), table, {} \ {in}, super, super)
        BY <1>5, <2>2, <3>1, <3>4, <3>5, AtSaveAndClose
      <4>2. Tool!TookBack(st, in) = Dec(left, in)
        BY <4>1, Ledgers
      <4>3. QED
        BY <1>1, <3>3, <4>1, <4>2 DEF Quiet
    <3>6. CASE ~(left[in] > 0)
      <4>1. st.thrown /\ in \notin DOMAIN st.open /\ At(st, left, table, {}, super, super)
        BY <1>5, <2>2, <3>1, <3>4, <3>6, AtCloseAgain
      <4>2. Tool!TookBack(st, in) = left
        BY <4>1, Ledgers
      <4>3. QED
        BY <1>1, <4>1, <4>2 DEF Quiet
    <3>7. QED
      BY <3>5, <3>6
  <2>3. QED
    BY <1>1, <2>1, <2>2
<1>6. QED
  BY <1>2, <1>4, <1>5

\* traversePath opens the directory twice; the second time there is a place for it.
LEMMA OpenedTwice ==
  ASSUME AInv, Even, NEW at, NEW o, o = Tool!iOpen(Tool!iOpen(Tool!State, at), at)
  PROVE  \/ o.thrown /\ at \notin DOMAIN o.open /\ At(o, left, table, {}, super, superDisk)
         \/ /\ ~o.thrown /\ at \in Inodes /\ Inc(left, at) \in [Inodes -> Nat]
            /\ At(o, Inc(Inc(left, at), at), table, {}, super, superDisk)
<1>1. PICK a : a = Tool!iOpen(Tool!State, at)
  OBVIOUS
<1>2. \/ a.thrown /\ at \notin DOMAIN a.open /\ At(a, left, table, {}, super, superDisk)
      \/ ~a.thrown /\ at \in Inodes /\ At(a, Inc(left, at), table, {}, super, superDisk)
  BY <1>1, OpensEven
<1>3. left \in [Inodes -> Nat]
  BY EvenState
<1>4. CASE a.thrown /\ at \notin DOMAIN a.open /\ At(a, left, table, {}, super, superDisk)
  <2>1. o = a
    BY <1>1, <1>4, Rests
  <2>2. QED
    BY <1>4, <2>1
<1>5. CASE ~a.thrown /\ at \in Inodes /\ At(a, Inc(left, at), table, {}, super, superDisk)
  <2>1. PICK w : w = Inc(left, at)
    OBVIOUS
  <2>2. At(a, w, table, {}, super, superDisk) /\ w \in [Inodes -> Nat]
    BY <1>3, <1>5, <2>1, Incremented
  <2>3. \/ o.thrown /\ at \notin DOMAIN o.open /\ At(o, w, table, {}, super, superDisk)
        \/ ~o.thrown /\ At(o, Inc(w, at), table, {}, super, superDisk)
    BY <1>1, <1>5, <2>2, AtOpen
  <2>4. At(o, w, table, {}, super, superDisk) => at \in DOMAIN o.open
    BY <1>3, <1>5, <2>1, ThrowsKeeps
  <2>5. QED
    BY <1>5, <2>1, <2>2, <2>3, <2>4
<1>6. QED
  BY <1>2, <1>4, <1>5

LEMMA RefuseEnds ==
  ASSUME AInv, Even, Tool!refuseName
  PROVE  \E st, w : Quiet(st, w)
<1>1. PICK at, st, w :
         /\ st = Tool!Throw(Tool!iOpen(Tool!iOpen(Tool!State, at), at))
         /\ w = IF at \in DOMAIN st.open THEN Tool!Leave(Tool!Kept(st, at), at) ELSE left
         /\ Tool!Step(st, w)
  BY RefuseSteps
<1>2. PICK o : o = Tool!iOpen(Tool!iOpen(Tool!State, at), at)
  OBVIOUS
<1>3. CASE o.thrown /\ at \notin DOMAIN o.open /\ At(o, left, table, {}, super, superDisk)
  <2>1. At(st, left, table, {}, super, superDisk) /\ st.open = o.open
    BY <1>1, <1>2, <1>3, AtThrow
  <2>2. w = left
    BY <1>1, <1>3, <2>1
  <2>3. QED
    BY <1>1, <2>1, <2>2 DEF Quiet
<1>4. CASE /\ ~o.thrown /\ at \in Inodes /\ Inc(left, at) \in [Inodes -> Nat]
           /\ At(o, Inc(Inc(left, at), at), table, {}, super, superDisk)
  <2>1. At(st, Inc(Inc(left, at), at), table, {}, super, superDisk) /\ st.thrown
    BY <1>1, <1>2, <1>4, AtThrow
  <2>2. at \in DOMAIN st.open
    BY <1>4, <2>1, ThrowsKeeps
  <2>3. Tool!Kept(st, at) = Inc(left, at)
    BY <2>1, <2>2, Ledgers
  <2>4. w = Inc(Inc(left, at), at)
    BY <1>1, <2>2, <2>3 DEF Tool!Leave, Inc
  <2>5. QED
    BY <1>1, <2>1, <2>4 DEF Quiet
<1>5. QED
  BY <1>2, <1>3, <1>4, OpenedTwice

LEMMA NameEnds ==
  ASSUME AInv, Even, Tool!nextName
  PROVE  \E st, w : Quiet(st, w)
<1>1. PICK at, found, st, w :
         /\ st = Tool!iOpen(Tool!iClose(Tool!iOpen(Tool!iOpen(Tool!State, at), at), at), found)
         /\ \/ st.thrown /\ w = Tool!Kept(st, at)
            \/ ~st.thrown /\ w = Tool!Leave(Tool!Leave(left, at), found)
         /\ Tool!Step(st, w)
  BY NameSteps
<1>2. PICK o, c : o = Tool!iOpen(Tool!iOpen(Tool!State, at), at) /\ c = Tool!iClose(o, at)
  OBVIOUS
<1>3. st = Tool!iOpen(c, found)
  BY <1>1, <1>2
<1>4. CASE o.thrown /\ at \notin DOMAIN o.open /\ At(o, left, table, {}, super, superDisk)
  <2>1. c = o
    BY <1>2, <1>4, Rests
  <2>2. st = o
    BY <1>3, <1>4, <2>1, Rests
  <2>3. w = left
    BY <1>1, <1>4, <2>2, Ledgers
  <2>4. QED
    BY <1>1, <1>4, <2>2, <2>3 DEF Quiet
<1>5. CASE /\ ~o.thrown /\ at \in Inodes /\ Inc(left, at) \in [Inodes -> Nat]
           /\ At(o, Inc(Inc(left, at), at), table, {}, super, superDisk)
  <2>1. PICK v : v = Inc(left, at)
    OBVIOUS
  <2>2. v \in [Inodes -> Nat] /\ At(o, Inc(v, at), table, {}, super, superDisk)
    BY <1>5, <2>1
  <2>3. ~c.thrown /\ At(c, v, table, {}, super, superDisk)
    BY <1>2, <1>5, <2>2, ClosesEven
  <2>4. \/ st.thrown /\ At(st, v, table, {}, super, superDisk)
        \/ ~st.thrown /\ At(st, Inc(v, found), table, {}, super, superDisk)
    BY <1>3, <2>3, AtOpen
  <2>5. CASE st.thrown /\ At(st, v, table, {}, super, superDisk)
    <3>1. left \in [Inodes -> Nat] /\ At(st, Inc(left, at), table, {}, super, superDisk)
      BY <2>1, <2>5, EvenState
    <3>2. at \in DOMAIN st.open
      BY <1>5, <3>1, ThrowsKeeps
    <3>3. w = v
      BY <1>1, <2>1, <2>5, <3>2, Ledgers
    <3>4. QED
      BY <1>1, <2>5, <3>3 DEF Quiet
  <2>6. CASE ~st.thrown /\ At(st, Inc(v, found), table, {}, super, superDisk)
    <3>1. w = Inc(v, found)
      BY <1>1, <2>1, <2>6 DEF Tool!Leave, Inc
    <3>2. QED
      BY <1>1, <2>6, <3>1 DEF Quiet
  <2>7. QED
    BY <2>4, <2>5, <2>6
<1>6. QED
  BY <1>2, <1>4, <1>5, OpenedTwice

LEMMA LinkEnds ==
  ASSUME AInv, Even, Tool!nextNameOfLink
  PROVE  \E st, w : Quiet(st, w)
<1>1. PICK at, st, w : /\ st = Tool!iOpen(Tool!State, at)
                       /\ \/ st.thrown /\ w = left
                          \/ ~st.thrown /\ w = Tool!Leave(left, at)
                       /\ Tool!Step(st, w)
  BY LinkSteps
<1>2. Tool!Leave(left, at) = Inc(left, at)
  BY DEF Tool!Leave, Inc
<1>3. At(st, w, table, {}, super, superDisk)
  BY <1>1, <1>2, OpensEven
<1>4. QED
  BY <1>1, <1>3 DEF Quiet

LEMMA ErrandEnds ==
  ASSUME AInv, Even, Errand
  PROVE  \E st, w : Quiet(st, w)
<1>1. CASE Tool!SavesSuper
  <2>1. PICK s : s = Tool!State
    OBVIOUS
  <2>2. PICK st : Tool!Step(st, left) /\ (st = s \/ st = Tool!sbSave(s))
    BY <1>1, <2>1, SaveSuperSteps
  <2>3. At(s, left, table, {}, super, superDisk) /\ ~s.thrown
    BY <2>1, EvenState
  <2>4. \E d \in {super, superDisk} : At(st, left, table, {}, super, d)
    BY <2>2, <2>3, AtSaveSuper
  <2>5. QED
    BY <2>2, <2>4 DEF Quiet
<1>2. QED
  BY <1>1, AsksEnds, HandsEnds, FreeClustersEnds, RefuseEnds, NameEnds, LinkEnds DEF Errand

\* What a step of the tool leaves undisturbed.
LEMMA WholeBefore ==
  ASSUME damage \subseteq damage', Whole'
  PROVE  Whole
BY DEF Whole

LEMMA ChangeEven ==
  ASSUME AInv, Whole => Even, damage \subseteq damage', NEW in \in Inodes,
         NEW node, DOMAIN node = NodeFields, NEW throws \in BOOLEAN,
         Tool!ChangeInode(in, node, throws)
  PROVE  Failing' /\ (Whole' => Even')
<1>1. \E st, w : Tool!Step(st, w)
  BY DEF Tool!ChangeInode, Tool!Command
<1>2. Failing'
  BY <1>1, StepFailing
<1>3. ASSUME Whole' PROVE Even'
  <2>1. Even
    BY <1>3, WholeBefore
  <2>2. PICK st, w, m : Tool!Step(st, w) /\ At(st, w, m, {}, super, superDisk)
    BY <2>1, ChangeEnds
  <2>3. /\ super.ifree \in Nat /\ superDisk.ifree \in Nat
        /\ super = superDisk \/ (super.ihead = Time /\ super.ifree # 0)
    BY <2>1 DEF Even
  <2>4. QED
    BY <2>2, <2>3, EvenAfter
<1>4. QED
  BY <1>2, <1>3

LEMMA ErrandEven ==
  ASSUME AInv, Whole => Even, Errand
  PROVE  Failing' /\ (Whole' => Even')
<1>1. damage' = damage /\ \E st, w : Tool!Step(st, w)
  BY ErrandShows
<1>2. Failing'
  BY <1>1, StepFailing
<1>3. ASSUME Whole' PROVE Even'
  <2>1. Even
    BY <1>1, <1>3, WholeBefore
  <2>2. PICK st, w : Quiet(st, w)
    BY <2>1, ErrandEnds
  <2>3. PICK d : d \in {super, superDisk} /\ Tool!Step(st, w) /\ At(st, w, table, {}, super, d)
    BY <2>2 DEF Quiet
  <2>4. /\ super.ifree \in Nat /\ d.ifree \in Nat
        /\ super = d \/ (super.ihead = Time /\ super.ifree # 0)
    BY <2>1, <2>3 DEF Even
  <2>5. QED
    BY <2>3, <2>4, EvenAfter
<1>4. QED
  BY <1>2, <1>3

LEMMA ExecEven ==
  ASSUME AInv, Whole => Even, Tool!exec
  PROVE  Failing' /\ (Whole' => Even')
<1> DEFINE Node(in) == Tool!NodeOf(in)
<1>1. ASSUME NEW in \in Inodes PROVE DOMAIN Node(in) = NodeFields
  BY DEF AInv, ShowsAll, IsTable, IsPool, IsPlace, Tool!NodeOf
<1>2. CASE Tool!allocInode
  BY <1>2, AllocEven
<1>3. CASE Tool!freeInode
  BY <1>3, FreeEven
<1>4. CASE Tool!setInodeAccess
  <2>1. PICK in \in Inodes, perm \in Perms, sticky \in BOOLEAN :
           /\ Tool!ChangeInode(in, [Node(in) EXCEPT !.perm = perm, !.free = @ \/ sticky], FALSE)
           /\ damage \subseteq damage'
    BY <1>4 DEF Tool!setInodeAccess, Inodes
  <2>2. DOMAIN [Node(in) EXCEPT !.perm = perm, !.free = @ \/ sticky] = NodeFields
    BY <1>1
  <2>3. QED
    BY <2>1, <2>2, ChangeEven
<1>5. CASE Tool!changeOwnership
  <2>1. PICK in \in Inodes, owner \in Owners :
           Tool!ChangeInode(in, [Node(in) EXCEPT !.owner = owner], FALSE) /\ damage' = damage
    BY <1>5 DEF Tool!changeOwnership, Inodes
  <2>2. DOMAIN [Node(in) EXCEPT !.owner = owner] = NodeFields
    BY <1>1
  <2>3. QED
    BY <2>1, <2>2, ChangeEven
<1>6. CASE Tool!decInodeLnkcnt
  <2>1. PICK in \in Inodes :
           /\ Tool!ChangeInode(in, [Node(in) EXCEPT !.lnkcnt = IF @ = 0 THEN 0 ELSE @ - 1], FALSE)
           /\ damage' = damage
    BY <1>6 DEF Tool!decInodeLnkcnt, Inodes
  <2>2. DOMAIN [Node(in) EXCEPT !.lnkcnt = IF @ = 0 THEN 0 ELSE @ - 1] = NodeFields
    BY <1>1
  <2>3. QED
    BY <2>1, <2>2, ChangeEven
<1>7. CASE Tool!incInodeLnkcnt
  <2>1. PICK in \in Inodes :
           /\ Tool!ChangeInode(in, [Node(in) EXCEPT !.lnkcnt = @ + 1], Node(in).lnkcnt = LinkMax)
           /\ damage' = damage
    BY <1>7 DEF Tool!incInodeLnkcnt, Inodes
  <2>2. DOMAIN [Node(in) EXCEPT !.lnkcnt = @ + 1] = NodeFields
    BY <1>1
  <2>3. QED
    BY <2>1, <2>2, ChangeEven
<1>8. CASE Errand
  BY <1>8, ErrandEven
<1>9. QED
  BY <1>2, <1>3, <1>4, <1>5, <1>6, <1>7, <1>8, ExecParts

\* Nothing is open, and nothing was left.
LEMMA NoneEven ==
  ASSUME open' = <<>>, left' = [in \in Inodes |-> 0], super' = superDisk', super'.ifree \in Nat
  PROVE  Even'
<1>1. DOMAIN open' = {}
  OBVIOUS
<1>2. Inodes' = Inodes
  BY DEF Inodes, Tool!Inodes
<1>3. \A in \in Inodes : UsersIn(open', in) = 0
  BY <1>1 DEF UsersIn
<1>4. left' = Used'
  BY <1>2, <1>3 DEF Used, UsersIn
<1>5. QED
  BY <1>1, <1>4 DEF Even

LEMMA NoneLeft ==
  ASSUME left' = [in \in Inodes |-> 0]
  PROVE  Failing'
<1>1. Inodes' = Inodes
  BY DEF Inodes, Tool!Inodes
<1>2. QED
  BY <1>1 DEF Failing

LEMMA SessionEven ==
  ASSUME AInv, Closed, Failing, Whole => Even,
         Tool!main \/ Tool!formatDisk \/ \E outcome : Tool!Reopen(outcome)
  PROVE  Failing' /\ (Whole' => Even')
<1>1. CASE Tool!exec
  BY <1>1, ExecEven
<1>2. CASE Tool!soCloseDisk
  <2>1. /\ superDisk' = super /\ super' = super /\ open' = <<>> /\ damage' = damage
        /\ left' = [in \in Inodes |-> 0]
    BY <1>2 DEF Tool!soCloseDisk, Inodes
  <2>2. QED
    BY <2>1, NoneEven, NoneLeft DEF Whole, Even
<1>3. CASE Tool!killed
  <2>1. /\ superDisk' = superDisk /\ super' = superDisk /\ open' = <<>> /\ damage' = damage
        /\ left' = [in \in Inodes |-> 0]
    BY <1>3 DEF Tool!killed, Inodes
  <2>2. QED
    BY <2>1, NoneEven, NoneLeft DEF Whole, Even
<1>4. Inodes' = Inodes
  BY DEF Inodes, Tool!Inodes
<1>5. CASE Tool!soOpenDisk
  <2>1. UNCHANGED <<table, open, super, superDisk, left, damage>> /\ device' = "open"
    BY <1>5 DEF Tool!soOpenDisk
  <2>2. QED
    BY <1>4, <2>1 DEF Failing, Whole, Even, Used, UsersIn
<1>6. ASSUME NEW outcome, Tool!Reopen(outcome) PROVE Failing' /\ (Whole' => Even')
  <2>1. open' = <<>> /\ left' = [in \in Inodes |-> 0]
    BY <1>6 DEF Tool!Reopen, Closed, Failing
  <2>2. Failing'
    BY <2>1, NoneLeft
  <2>3. CASE outcome = "new volume"
    <3>1. super' = Tool!fillInSuperBlock /\ superDisk' = Tool!fillInSuperBlock
      BY <1>6, <2>3 DEF Tool!Reopen
    <3>2. Tool!fillInSuperBlock.ifree \in Nat
      <4>1. Tool!fillInSuperBlock.ifree = ITotal - 1
        BY DEF Tool!fillInSuperBlock
      <4>2. ITotal \in Nat \ {0}
        BY ToolAssumed
      <4>3. QED
        BY <4>1, <4>2
    <3>3. Even'
      BY <2>1, <3>1, <3>2, NoneEven
    <3>4. QED
      BY <2>2, <3>3
  <2>4. CASE outcome # "new volume"
    <3>1. UNCHANGED <<table, open, super, superDisk, left, damage>>
      BY <1>6, <2>4 DEF Tool!Reopen
    <3>2. QED
      BY <1>4, <2>2, <3>1 DEF Whole, Even, Used, UsersIn
  <2>5. QED
    BY <2>3, <2>4
<1>7. CASE Tool!traverse
  <2>1. CASE Errand
    BY <2>1, ErrandEven
  <2>2. CASE UNCHANGED <<device, table, open, super, superDisk, told, left, damage>>
    BY <1>4, <2>2 DEF Failing, Whole, Even, Used, UsersIn
  <2>3. QED
    BY <1>7, <2>1, <2>2, TraverseParts
<1>8. QED
  BY <1>1, <1>2, <1>3, <1>5, <1>6, <1>7 DEF Tool!main, Tool!quit, Tool!formatDisk

LEMMA EvenAtFirst ==
  ASSUME VolumeInit
  PROVE  AInv /\ Closed /\ Failing /\ Even
<1>1. /\ open = <<>> /\ table = Tool!fillInInodeTable
      /\ told = Tool!TellAll(Tool!fillInInodeTable)
      /\ super = Tool!fillInSuperBlock /\ superDisk = Tool!fillInSuperBlock
      /\ left = [in \in Inodes |-> 0]
  BY DEF VolumeInit, Tool!TInit, Inodes
<1>2. ShowsAll(<<>>, Tool!fillInInodeTable, Tool!TellAll(Tool!fillInInodeTable))
  BY FreshTable, NoneOpen
<1>3. AInv /\ Closed
  BY <1>1, <1>2, FreshTable DEF AInv, Closed
<1>4. Failing
  BY <1>1 DEF Failing
<1>5. super.ifree \in Nat
  <2>1. super.ifree = ITotal - 1
    BY <1>1 DEF Tool!fillInSuperBlock
  <2>2. ITotal \in Nat \ {0}
    BY ToolAssumed
  <2>3. QED
    BY <2>1, <2>2
<1>6. DOMAIN open = {} /\ \A in \in Inodes : UsersIn(open, in) = 0
  BY <1>1 DEF UsersIn
<1>7. left = Used
  BY <1>1, <1>6 DEF Used
<1>8. Even
  BY <1>1, <1>5, <1>6, <1>7 DEF Even
<1>9. QED
  BY <1>3, <1>4, <1>8

\* Unless a command has stopped in the middle, the users of every inode are those that commands
\* have left: failed commands one each, traversePath what it opens, less what soFreeInode beside a
\* single free inode and freeFileClusters have closed too often.
THEOREM HandlesCounted == VolumeSpec => []HandlesAccounted
<1> DEFINE Inv == AInv /\ Closed /\ Failing /\ (Whole => Even)
<1>1. VolumeInit => Inv
  BY EvenAtFirst
<1>2. Inv /\ [VolumeNext]_<<vars, mkvars, ttvars>> => Inv'
  <2> SUFFICES ASSUME Inv, [VolumeNext]_<<vars, mkvars, ttvars>> PROVE Inv'
    OBVIOUS
  <2>1. CASE Session \/ FormatAgain \/ OpenAgain
    BY <2>1, SessionShows, SessionClosed, SessionEven DEF Session, FormatAgain, OpenAgain
  <2>2. CASE UNCHANGED ttvars
    BY <2>2 DEF ttvars, AInv, ShowsAll, IsTable, IsPool, Closed, Inodes, Tool!Inodes,
                Failing, Whole, Even, Used, UsersIn
  <2>3. QED
    BY <2>1, <2>2 DEF VolumeNext, Format, Use
<1>3. Inv => HandlesAccounted
  BY DEF HandlesAccounted, Tool!HandlesAccounted, Whole, Even, Used, UsersIn, Inodes
<1>4. QED
  BY <1>1, <1>2, <1>3, PTL DEF VolumeSpec

-----------------------------------------------------------------------------
(***************************************************************************)
(* ImplementsInodeList.  As long as the list is not damaged, one chain of  *)
(* free inodes begins at the head that the superblock has, and ends at the *)
(* head's predecessor: so no inode in use is ever taken for the head, and  *)
(* each command does on the disk what InodeList does at once.              *)
(***************************************************************************)
Frees(tab) == [in \in Inodes |-> tab[in].free]
Nexts(tab) == [in \in Inodes |-> tab[in].next]
Prevs(tab) == [in \in Inodes |-> tab[in].prev]

\* q runs through k inodes that are marked free, from h on.
Chain(q, f, n, p, h, k) ==
    /\ k \in Nat /\ q \in [1 .. k -> Inodes]
    /\ \A i, j \in 1 .. k : q[i] = q[j] => i = j
    /\ \A i \in 1 .. k : f[q[i]] = TRUE
    /\ k > 0 => h = q[1] /\ p[q[1]] = q[k]
    /\ \A i \in 1 .. k - 1 : n[q[i]] = q[i + 1]

Linked(tab, s) ==
    /\ Frees(tab) \in [Inodes -> BOOLEAN]
    /\ \E q : Chain(q, Frees(tab), Nexts(tab), Prevs(tab), s.ihead, s.ifree)

Unharmed == damage = {}
Chained == super = superDisk /\ Linked(table, super)

LEMMA NoChain ==
  ASSUME NEW f, NEW n, NEW p, NEW h
  PROVE  \E q : Chain(q, f, n, p, h, 0)
<1>1. PICK q : q = [i \in 1 .. 0 |-> 0]
  OBVIOUS
<1>2. 1 .. 0 = {} /\ 1 .. 0 - 1 = {}
  OBVIOUS
<1>3. Chain(q, f, n, p, h, 0)
  BY <1>1, <1>2 DEF Chain
<1>4. QED
  BY <1>3

LEMMA ChainEnds ==
  ASSUME NEW q, NEW f, NEW n, NEW p, NEW h, NEW k, Chain(q, f, n, p, h, k), k # 0
  PROVE  /\ h \in Inodes /\ h = q[1] /\ p[h] = q[k] /\ p[h] \in Inodes
         /\ k # 1 => n[h] = q[2] /\ n[h] \in Inodes
         /\ k \in Nat
<1>1. k \in Nat /\ 1 \in 1 .. k /\ k \in 1 .. k
  BY DEF Chain
<1>2. k # 1 => 1 \in 1 .. k - 1 /\ 2 \in 1 .. k
  BY <1>1
<1>3. h = q[1] /\ p[q[1]] = q[k] /\ q \in [1 .. k -> Inodes] /\ f[q[1]] = TRUE
  BY <1>1 DEF Chain
<1>4. k # 1 => n[q[1]] = q[2]
  <2>1. \A i \in 1 .. k - 1 : n[q[i]] = q[i + 1]
    BY DEF Chain
  <2>2. QED
    BY <1>2, <2>1
<1>5. QED
  BY <1>1, <1>2, <1>3, <1>4

\* The head leaves the chain, or an inode comes behind the tail.
LEMMA ChainRest ==
  ASSUME NEW q, NEW f, NEW n, NEW p, NEW h, NEW k, Chain(q, f, n, p, h, k), k # 0, k # 1,
         NEW f2, \A i \in Inodes \ {h} : f2[i] = f[i],
         NEW n2, \A i \in Inodes \ {h, p[h]} : n2[i] = n[i],
         NEW p2, p2[n[h]] = p[h]
  PROVE  \E r : Chain(r, f2, n2, p2, n[h], k - 1)
<1>1. PICK r : r = [i \in 1 .. k - 1 |-> q[i + 1]]
  OBVIOUS
<1>2. /\ k \in Nat /\ q \in [1 .. k -> Inodes] /\ (k > 0 => h = q[1] /\ p[q[1]] = q[k])
      /\ \A i, j \in 1 .. k : q[i] = q[j] => i = j
      /\ \A i \in 1 .. k : f[q[i]] = TRUE
      /\ \A i \in 1 .. k - 1 : n[q[i]] = q[i + 1]
  BY DEF Chain
<1>3. k \in Nat /\ k > 1 /\ k - 1 \in Nat /\ k - 1 > 0 /\ k > 0 /\ 1 \in 1 .. k - 1
  BY <1>2
<1>4. h = q[1] /\ n[h] = q[1 + 1] /\ p[h] = q[k] /\ 1 + 1 = 2
  BY <1>2, <1>3
<1>5. \A i \in 1 .. k - 1 : i + 1 \in 1 .. k /\ i + 1 # 1 /\ r[i] = q[i + 1]
  BY <1>1, <1>3
<1>6. r \in [1 .. k - 1 -> Inodes]
  BY <1>1, <1>2, <1>5
<1>7. ASSUME NEW i \in 1 .. k - 1, NEW j \in 1 .. k - 1, r[i] = r[j] PROVE i = j
  <2>1. i + 1 = j + 1
    BY <1>2, <1>5, <1>7
  <2>2. QED
    BY <2>1
<1>8. ASSUME NEW i \in 1 .. k - 1 PROVE f2[r[i]] = TRUE
  <2>1. q[i + 1] # h /\ q[i + 1] \in Inodes
    BY <1>2, <1>3, <1>5
  <2>2. QED
    BY <1>2, <1>5, <2>1
<1>9. n[h] = r[1] /\ p2[r[1]] = r[k - 1]
  <2>1. r[1] = q[2] /\ r[k - 1] = q[k]
    BY <1>3, <1>5
  <2>2. QED
    BY <1>4, <2>1
<1>10. ASSUME NEW i \in 1 .. (k - 1) - 1 PROVE n2[r[i]] = r[i + 1]
  <2>1. i \in 1 .. k - 1 /\ i + 1 \in 1 .. k - 1 /\ i + 1 \in 1 .. k /\ i + 1 # 1 /\ i + 1 # k
    BY <1>3
  <2>2. 1 \in 1 .. k /\ k \in 1 .. k
    BY <1>3
  <2>3. q[i + 1] # h /\ q[i + 1] # p[h] /\ q[i + 1] \in Inodes
    BY <1>2, <1>4, <2>1, <2>2
  <2>4. n[q[i + 1]] = q[(i + 1) + 1]
    BY <1>2, <2>1
  <2>5. r[i] = q[i + 1] /\ r[i + 1] = q[(i + 1) + 1]
    BY <1>5, <2>1
  <2>6. QED
    BY <2>3, <2>4, <2>5
<1>11. Chain(r, f2, n2, p2, n[h], k - 1)
  BY <1>3, <1>6, <1>7, <1>8, <1>9, <1>10 DEF Chain
<1>12. QED
  BY <1>11

Marked(f, in) == f[in] = TRUE

LEMMA ChainLonger ==
  ASSUME NEW q, NEW f, NEW n, NEW p, NEW h, NEW k, Chain(q, f, n, p, h, k), k # 0,
         NEW in \in Inodes, ~Marked(f, in),
         NEW f2, Marked(f2, in), \A i \in Inodes \ {in} : f2[i] = f[i],
         NEW n2, n2[p[h]] = in, \A i \in Inodes \ {in, p[h]} : n2[i] = n[i],
         NEW p2, p2[h] = in
  PROVE  \E r : Chain(r, f2, n2, p2, h, k + 1)
<1>1. PICK r : r = [i \in 1 .. k + 1 |-> IF i = k + 1 THEN in ELSE q[i]]
  OBVIOUS
<1>2. /\ k \in Nat /\ q \in [1 .. k -> Inodes] /\ (k > 0 => h = q[1] /\ p[q[1]] = q[k])
      /\ \A i, j \in 1 .. k : q[i] = q[j] => i = j
      /\ \A i \in 1 .. k : f[q[i]] = TRUE
      /\ \A i \in 1 .. k - 1 : n[q[i]] = q[i + 1]
  BY DEF Chain
<1>3. k > 0 /\ h = q[1] /\ p[h] = q[k]
  BY <1>2
<1>4. k > 0 /\ k + 1 \in Nat /\ k + 1 > 0 /\ k + 1 \in 1 .. k + 1 /\ 1 \in 1 .. k /\ k \in 1 .. k
  BY <1>2
<1>5. \A i \in 1 .. k : i \in 1 .. k + 1 /\ i # k + 1
  BY <1>2
<1>6. r[k + 1] = in /\ \A i \in 1 .. k : r[i] = q[i]
  BY <1>1, <1>4, <1>5
<1>7. \A i \in 1 .. k + 1 : i = k + 1 \/ i \in 1 .. k
  BY <1>2
<1>8. r \in [1 .. k + 1 -> Inodes]
  <2>1. \A i \in 1 .. k + 1 : r[i] \in Inodes
    BY <1>2, <1>6, <1>7
  <2>2. QED
    BY <1>1, <2>1
<1>9. ASSUME NEW i \in 1 .. k PROVE q[i] # in /\ q[i] \in Inodes
  <2>1. f[q[i]] = TRUE
    BY <1>2
  <2>2. q[i] # in
    BY <2>1, Zenon DEF Marked
  <2>3. q[i] \in Inodes
    BY <1>2
  <2>4. QED
    BY <2>2, <2>3
<1>10. ASSUME NEW i \in 1 .. k + 1, NEW j \in 1 .. k + 1, r[i] = r[j] PROVE i = j
  BY <1>2, <1>6, <1>7, <1>9, <1>10
<1>11. ASSUME NEW i \in 1 .. k + 1 PROVE f2[r[i]] = TRUE
  BY <1>2, <1>6, <1>7, <1>9 DEF Marked
<1>12. h = r[1] /\ p2[r[1]] = r[k + 1]
  BY <1>2, <1>4, <1>6
<1>13. ASSUME NEW i \in 1 .. (k + 1) - 1 PROVE n2[r[i]] = r[i + 1]
  <2>1. i \in 1 .. k
    BY <1>2
  <2>2. CASE i = k
    BY <1>3, <1>4, <1>6, <2>2
  <2>3. CASE i # k
    <3>1. i \in 1 .. k - 1 /\ i + 1 \in 1 .. k
      BY <1>2, <2>1, <2>3
    <3>2. q[i] # p[h]
      BY <1>2, <1>3, <1>4, <2>1, <2>3
    <3>3. n2[q[i]] = q[i + 1]
      BY <1>2, <1>9, <2>1, <3>1, <3>2
    <3>4. QED
      BY <1>6, <2>1, <3>1, <3>3
  <2>4. QED
    BY <2>2, <2>3
<1>14. Chain(r, f2, n2, p2, h, k + 1)
  BY <1>4, <1>8, <1>10, <1>11, <1>12, <1>13 DEF Chain
<1>15. QED
  BY <1>14

LEMMA ChainAlone ==
  ASSUME NEW f, NEW n, NEW p, NEW in \in Inodes, f[in] = TRUE, p[in] = in
  PROVE  \E r : Chain(r, f, n, p, in, 1)
<1>1. PICK r : r = [i \in 1 .. 1 |-> in]
  OBVIOUS
<1>2. 1 .. 1 = {1} /\ 1 .. 1 - 1 = {}
  OBVIOUS
<1>3. r \in [1 .. 1 -> Inodes] /\ r[1] = in
  BY <1>1, <1>2
<1>4. Chain(r, f, n, p, in, 1)
  BY <1>2, <1>3 DEF Chain
<1>5. QED
  BY <1>4

\* What an assignment to a node does to the fields of the table.
LEMMA PutFields ==
  ASSUME NEW n, IsTable(n), NEW in \in Inodes, NEW node, DOMAIN node = NodeFields,
         NEW m, m = Put(n, in, node)
  PROVE  /\ IsTable(m) /\ m[in] = node
         /\ Frees(m) = Put(Frees(n), in, node.free)
         /\ Nexts(m) = Put(Nexts(n), in, node.next)
         /\ Prevs(m) = Put(Prevs(n), in, node.prev)
<1>1. DOMAIN m = Inodes /\ m[in] = node /\ \A i \in Inodes \ {in} : m[i] = n[i]
  BY DEF Put, IsTable
<1>2. \A i \in Inodes : m[i] = IF i = in THEN node ELSE n[i]
  BY <1>1
<1>3. IsTable(m)
  BY <1>1 DEF IsTable
<1>4. Frees(m) = Put(Frees(n), in, node.free)
  <2>1. Frees(m) = [Frees(n) EXCEPT ![in] = node.free]
    BY <1>2 DEF Frees
  <2>2. QED
    BY <2>1 DEF Put
<1>5. Nexts(m) = Put(Nexts(n), in, node.next)
  <2>1. Nexts(m) = [Nexts(n) EXCEPT ![in] = node.next]
    BY <1>2 DEF Nexts
  <2>2. QED
    BY <2>1 DEF Put
<1>6. Prevs(m) = Put(Prevs(n), in, node.prev)
  <2>1. Prevs(m) = [Prevs(n) EXCEPT ![in] = node.prev]
    BY <1>2 DEF Prevs
  <2>2. QED
    BY <2>1 DEF Put
<1>7. QED
  BY <1>1, <1>3, <1>4, <1>5, <1>6

LEMMA SameField ==
  ASSUME NEW n, NEW in \in Inodes
  PROVE  /\ Put(Frees(n), in, n[in].free) = Frees(n)
         /\ Put(Nexts(n), in, n[in].next) = Nexts(n)
         /\ Put(Prevs(n), in, n[in].prev) = Prevs(n)
<1>1. Put(Frees(n), in, n[in].free) = Frees(n)
  BY DEF Frees, Put
<1>2. Put(Nexts(n), in, n[in].next) = Nexts(n)
  BY DEF Nexts, Put
<1>3. Put(Prevs(n), in, n[in].prev) = Prevs(n)
  BY DEF Prevs, Put
<1>4. QED
  BY <1>1, <1>2, <1>3

LEMMA LinkNextFields ==
  ASSUME NEW n, IsTable(n), NEW in \in Inodes, NEW v, NEW m, m = LinkNext(n, in, v)
  PROVE  /\ IsTable(m) /\ Frees(m) = Frees(n) /\ Prevs(m) = Prevs(n)
         /\ Nexts(m) = Put(Nexts(n), in, v)
<1>1. PICK node : node = WithNext(n[in], v)
  OBVIOUS
<1>2. DOMAIN n[in] = NodeFields
  BY DEF IsTable
<1>3. DOMAIN node = NodeFields /\ node.next = v /\ node.prev = n[in].prev /\ node.free = n[in].free
  BY <1>1, <1>2 DEF WithNext, NodeFields
<1>4. m = Put(n, in, node)
  BY <1>1 DEF LinkNext
<1>5. /\ IsTable(m)
      /\ Frees(m) = Put(Frees(n), in, node.free)
      /\ Nexts(m) = Put(Nexts(n), in, node.next)
      /\ Prevs(m) = Put(Prevs(n), in, node.prev)
  BY <1>3, <1>4, PutFields
<1>6. QED
  BY <1>3, <1>5, SameField

LEMMA LinkPrevFields ==
  ASSUME NEW n, IsTable(n), NEW in \in Inodes, NEW v, NEW m, m = LinkPrev(n, in, v)
  PROVE  /\ IsTable(m) /\ Frees(m) = Frees(n) /\ Nexts(m) = Nexts(n)
         /\ Prevs(m) = Put(Prevs(n), in, v)
<1>1. PICK node : node = WithPrev(n[in], v)
  OBVIOUS
<1>2. DOMAIN n[in] = NodeFields
  BY DEF IsTable
<1>3. DOMAIN node = NodeFields /\ node.prev = v /\ node.next = n[in].next /\ node.free = n[in].free
  BY <1>1, <1>2 DEF WithPrev, NodeFields
<1>4. m = Put(n, in, node)
  BY <1>1 DEF LinkPrev
<1>5. /\ IsTable(m)
      /\ Frees(m) = Put(Frees(n), in, node.free)
      /\ Nexts(m) = Put(Nexts(n), in, node.next)
      /\ Prevs(m) = Put(Prevs(n), in, node.prev)
  BY <1>3, <1>4, PutFields
<1>6. QED
  BY <1>3, <1>5, SameField

LEMMA FreedFields ==
  ASSUME NEW n, IsTable(n), NEW in \in Inodes, NEW m, m = Freed(n, in)
  PROVE  /\ IsTable(m) /\ Frees(m) = Put(Frees(n), in, TRUE)
         /\ Nexts(m) = Nexts(n) /\ Prevs(m) = Prevs(n)
<1>1. PICK node : node = WithFree(n[in])
  OBVIOUS
<1>2. DOMAIN n[in] = NodeFields
  BY DEF IsTable
<1>3. DOMAIN node = NodeFields /\ node.prev = n[in].prev /\ node.next = n[in].next /\ node.free = TRUE
  BY <1>1, <1>2 DEF WithFree, NodeFields
<1>4. m = Put(n, in, node)
  BY <1>1 DEF Freed
<1>5. /\ IsTable(m)
      /\ Frees(m) = Put(Frees(n), in, node.free)
      /\ Nexts(m) = Put(Nexts(n), in, node.next)
      /\ Prevs(m) = Put(Prevs(n), in, node.prev)
  BY <1>3, <1>4, PutFields
<1>6. Put(Frees(n), in, node.free) = Put(Frees(n), in, TRUE)
  <2>1. node.free = TRUE
    BY <1>3
  <2>2. QED
    BY <2>1, Zenon
<1>7. Nexts(m) = Nexts(n) /\ Prevs(m) = Prevs(n)
  BY <1>3, <1>5, SameField
<1>8. QED
  BY <1>5, <1>6, <1>7

LEMMA SeizedFields ==
  ASSUME NEW n, IsTable(n), NEW in \in Inodes, NEW m, m = Seized(n, in)
  PROVE  /\ IsTable(m) /\ m[in].free = FALSE
         /\ Frees(m) = Put(Frees(n), in, FALSE)
         /\ Nexts(m) = Put(Nexts(n), in, Time)
         /\ Prevs(m) = Put(Prevs(n), in, Time)
<1>1. PICK node : node = Tool!Occupied(n[in])
  OBVIOUS
<1>2. DOMAIN n[in] = NodeFields
  BY DEF IsTable
<1>3. DOMAIN node = NodeFields /\ node.prev = Time /\ node.next = Time /\ node.free = FALSE
  BY <1>1, <1>2 DEF Tool!Occupied, NodeFields
<1>4. m = Put(n, in, node)
  BY <1>1 DEF Seized
<1>5. /\ IsTable(m) /\ m[in] = node
      /\ Frees(m) = Put(Frees(n), in, node.free)
      /\ Nexts(m) = Put(Nexts(n), in, node.next)
      /\ Prevs(m) = Put(Prevs(n), in, node.prev)
  BY <1>3, <1>4, PutFields
<1>6. Put(Frees(n), in, node.free) = Put(Frees(n), in, FALSE)
  <2>1. node.free = FALSE
    BY <1>3
  <2>2. QED
    BY <2>1, Zenon
<1>7. QED
  BY <1>3, <1>5, <1>6

\* The disk has the fields, when nothing is ahead of it.
LEMMA FieldsOnDisk ==
  ASSUME NEW st, NEW u, NEW m, NEW s, NEW d, At(st, u, m, {}, s, d)
  PROVE  /\ Frees(st.table) = Frees(m) /\ Nexts(st.table) = Nexts(m) /\ Prevs(st.table) = Prevs(m)
<1>1. \A i \in Inodes : st.table[i] = m[i]
  BY DEF At
<1>2. QED
  BY <1>1 DEF Frees, Nexts, Prevs

\* Steps on the disk that are InodeList's.
ListVars == <<Frees(table), Nexts(table), Prevs(table), superDisk.ihead, superDisk.ifree>>

LEMMA ListsAllocOfOne ==
  ASSUME NEW h, NEW k \in Nat, h = superDisk.ihead, k = superDisk.ifree, k = 1,
         Frees(table)' = Put(Frees(table), h, FALSE), superDisk'.ifree = k - 1,
         superDisk'.ihead = NullReference,
         Nexts(table)' = Put(Nexts(table), h, Time),
         Prevs(table)' = Put(Prevs(table), h, Time)
  PROVE  Tool!List!Next
<1>1. Tool!List!Occupy
  <2>1. k > 0
    OBVIOUS
  <2>2. QED
    BY <2>1 DEF Tool!List!Occupy, Frees, Inodes, Put
<1>2. Tool!List!AllocOfOne
  BY <1>1 DEF Tool!List!AllocOfOne, Nexts, Prevs, Inodes, Put
<1>3. QED
  BY <1>2 DEF Tool!List!Next, Tool!List!soAllocInode

LEMMA ListsAllocOfTwo ==
  ASSUME NEW h, NEW k \in Nat, h = superDisk.ihead, k = superDisk.ifree, k = 2,
         NEW x, x = Nexts(table)[h], NEW t, t = Prevs(table)[h],
         Frees(table)' = Put(Frees(table), h, FALSE), superDisk'.ifree = k - 1,
         superDisk'.ihead = x,
         Nexts(table)' = Put(Put(Nexts(table), h, Time), x, x),
         Prevs(table)' = Put(Put(Prevs(table), h, Time), x, t)
  PROVE  Tool!List!Next
<1>1. Tool!List!Occupy
  <2>1. k > 0
    OBVIOUS
  <2>2. QED
    BY <2>1 DEF Tool!List!Occupy, Frees, Inodes, Put
<1>2. Tool!List!tail = t
  BY DEF Tool!List!tail, Prevs, Inodes
<1>3. Tool!List!AllocOfTwo
  BY <1>1, <1>2 DEF Tool!List!AllocOfTwo, Nexts, Prevs, Inodes, Put
<1>4. QED
  BY <1>3 DEF Tool!List!Next, Tool!List!soAllocInode

LEMMA ListsAllocOfMany ==
  ASSUME NEW h, NEW k \in Nat, h = superDisk.ihead, k = superDisk.ifree, k > 2,
         NEW x, x = Nexts(table)[h], NEW t, t = Prevs(table)[h],
         Frees(table)' = Put(Frees(table), h, FALSE), superDisk'.ifree = k - 1,
         superDisk'.ihead = x,
         Nexts(table)' = Put(Put(Nexts(table), h, Time), t, x),
         Prevs(table)' = Put(Put(Prevs(table), h, Time), x, t)
  PROVE  Tool!List!Next
<1>1. Tool!List!Occupy
  <2>1. k > 0
    OBVIOUS
  <2>2. QED
    BY <2>1 DEF Tool!List!Occupy, Frees, Inodes, Put
<1>2. Tool!List!tail = t
  BY DEF Tool!List!tail, Prevs, Inodes
<1>3. Tool!List!AllocOfMany
  BY <1>1, <1>2 DEF Tool!List!AllocOfMany, Nexts, Prevs, Inodes, Put
<1>4. QED
  BY <1>3 DEF Tool!List!Next, Tool!List!soAllocInode

LEMMA ListsRelease ==
  ASSUME NEW k \in Nat, k = superDisk.ifree, NEW in \in Inodes, ~Frees(table)[in],
         Frees(table)' = Put(Frees(table), in, TRUE), superDisk'.ifree = k + 1
  PROVE  Tool!List!Release(in) /\ in \in Tool!List!Inodes
<1>1. Tool!List!Release(in)
  BY DEF Tool!List!Release, Frees, Inodes, Put
<1>2. in \in Tool!List!Inodes
  BY DEF Tool!List!Inodes, Inodes, Tool!Inodes
<1>3. QED
  BY <1>1, <1>2

LEMMA ListsFreeToNone ==
  ASSUME NEW k \in Nat, k = superDisk.ifree, k = 0, NEW in \in Inodes, ~Frees(table)[in],
         Frees(table)' = Put(Frees(table), in, TRUE), superDisk'.ifree = k + 1,
         superDisk'.ihead = in,
         Nexts(table)' = Put(Nexts(table), in, in),
         Prevs(table)' = Put(Prevs(table), in, in)
  PROVE  Tool!List!Next
<1>1. Tool!List!Release(in) /\ in \in Tool!List!Inodes
  BY ListsRelease
<1>2. Tool!List!FreeToNone(in)
  BY <1>1 DEF Tool!List!FreeToNone, Nexts, Prevs, Inodes, Put
<1>3. QED
  BY <1>1, <1>2 DEF Tool!List!Next, Tool!List!soFreeInode

LEMMA ListsFreeToOne ==
  ASSUME NEW h, NEW k \in Nat, h = superDisk.ihead, k = superDisk.ifree, k = 1,
         NEW in \in Inodes, ~Frees(table)[in],
         Frees(table)' = Put(Frees(table), in, TRUE), superDisk'.ifree = k + 1,
         superDisk'.ihead = h,
         Nexts(table)' = Put(Put(Nexts(table), h, in), in, h),
         Prevs(table)' = Put(Put(Prevs(table), h, in), in, h)
  PROVE  Tool!List!Next
<1>1. Tool!List!Release(in) /\ in \in Tool!List!Inodes
  BY ListsRelease
<1>2. Tool!List!FreeToOne(in)
  BY <1>1 DEF Tool!List!FreeToOne, Nexts, Prevs, Inodes, Put
<1>3. QED
  BY <1>1, <1>2 DEF Tool!List!Next, Tool!List!soFreeInode

LEMMA ListsFreeToMany ==
  ASSUME NEW h, NEW k \in Nat, h = superDisk.ihead, k = superDisk.ifree, k > 1,
         NEW in \in Inodes, ~Frees(table)[in], NEW t, t = Prevs(table)[h],
         Frees(table)' = Put(Frees(table), in, TRUE), superDisk'.ifree = k + 1,
         superDisk'.ihead = h,
         Nexts(table)' = Put(Put(Nexts(table), t, in), in, h),
         Prevs(table)' = Put(Put(Prevs(table), in, t), h, in)
  PROVE  Tool!List!Next
<1>1. Tool!List!Release(in) /\ in \in Tool!List!Inodes
  BY ListsRelease
<1>2. Tool!List!tail = t
  BY DEF Tool!List!tail, Prevs, Inodes
<1>3. Tool!List!FreeToMany(in)
  BY <1>1, <1>2 DEF Tool!List!FreeToMany, Nexts, Prevs, Inodes, Put
<1>4. QED
  BY <1>1, <1>3 DEF Tool!List!Next, Tool!List!soFreeInode

\* A command has ended, with nothing ahead of the disk.
LEMMA SoundAfter ==
  ASSUME NEW st, NEW w, Tool!Step(st, w), NEW u, NEW m, NEW s, At(st, u, m, {}, s, s),
         Frees(m) \in [Inodes -> BOOLEAN],
         \E q : Chain(q, Frees(m), Nexts(m), Prevs(m), s.ihead, s.ifree)
  PROVE  /\ Chained' /\ superDisk' = s
         /\ Frees(table)' = Frees(m) /\ Nexts(table)' = Nexts(m) /\ Prevs(table)' = Prevs(m)
<1>1. table' = st.table /\ super' = s /\ superDisk' = s
  BY DEF Tool!Step, At
<1>2. Inodes' = Inodes
  BY DEF Inodes, Tool!Inodes
<1>3. Frees(st.table) = Frees(m) /\ Nexts(st.table) = Nexts(m) /\ Prevs(st.table) = Prevs(m)
  BY FieldsOnDisk
<1>4. Frees(table)' = Frees(m) /\ Nexts(table)' = Nexts(m) /\ Prevs(table)' = Prevs(m)
  BY <1>1, <1>2, <1>3 DEF Frees, Nexts, Prevs
<1>5. Linked(table, super)'
  BY <1>1, <1>2, <1>4 DEF Linked, Chain
<1>6. QED
  BY <1>1, <1>4, <1>5 DEF Chained

LEMMA AllocatedSound ==
  ASSUME IsTable(table), Chained, NEW st, NEW w, Tool!Step(st, w), NEW u,
         Allocated(st, u, table, super), super.ifree # 0
  PROVE  Chained' /\ Tool!List!Next
<1>1. PICK f, n, p, h, k : /\ f = Frees(table) /\ n = Nexts(table) /\ p = Prevs(table)
                           /\ h = super.ihead /\ k = super.ifree
  OBVIOUS
<1>2. f \in [Inodes -> BOOLEAN] /\ h = superDisk.ihead /\ k = superDisk.ifree
  BY <1>1 DEF Chained, Linked
<1>3. PICK q : Chain(q, f, n, p, h, k)
  BY <1>1 DEF Chained, Linked
<1>4. k # 0 /\ h \in Inodes /\ p[h] \in Inodes /\ k \in Nat /\ (k # 1 => n[h] \in Inodes)
  <2>1. k # 0
    BY <1>1
  <2>2. QED
    BY <1>3, <2>1, ChainEnds
<1>5. n[h] = table[h].next /\ p[h] = table[h].prev
  BY <1>1, <1>4 DEF Nexts, Prevs
<1>6. PICK m : m = Seized(table, h)
  OBVIOUS
<1>7. /\ IsTable(m) /\ Frees(m) = Put(f, h, FALSE)
      /\ Nexts(m) = Put(n, h, Time) /\ Prevs(m) = Put(p, h, Time)
  <2>1. /\ IsTable(m) /\ Frees(m) = Put(Frees(table), h, FALSE)
        /\ Nexts(m) = Put(Nexts(table), h, Time) /\ Prevs(m) = Put(Prevs(table), h, Time)
    BY <1>4, <1>6, SeizedFields
  <2>2. QED
    BY <1>1, <2>1
<1>8. Frees(m) \in [Inodes -> BOOLEAN]
  BY <1>2, <1>7 DEF Put
<1>9. CASE k = 1 /\ AllocatedOne(st, u, table, super)
  <2>1. PICK s2 : s2 = Super(NullReference, 0)
    OBVIOUS
  <2>2. s2.ihead = NullReference /\ s2.ifree = 0
    BY <2>1, SuperFields
  <2>3. At(st, u, m, {}, s2, s2)
    BY <1>1, <1>6, <1>9, <2>1 DEF AllocatedOne
  <2>4. \E r : Chain(r, Frees(m), Nexts(m), Prevs(m), s2.ihead, s2.ifree)
    BY <2>2, NoChain
  <2>5. /\ Chained' /\ superDisk' = s2
        /\ Frees(table)' = Frees(m) /\ Nexts(table)' = Nexts(m) /\ Prevs(table)' = Prevs(m)
    BY <1>8, <2>3, <2>4, SoundAfter
  <2>6. superDisk'.ifree = k - 1 /\ superDisk'.ihead = NullReference
    BY <1>9, <2>2, <2>5
  <2>7. /\ Frees(table)' = Put(Frees(table), h, FALSE)
        /\ Nexts(table)' = Put(Nexts(table), h, Time)
        /\ Prevs(table)' = Put(Prevs(table), h, Time)
    BY <1>1, <1>7, <2>5
  <2>9. Tool!List!Next
    BY <1>2, <1>4, <1>9, <2>6, <2>7, ListsAllocOfOne
  <2>10. QED
    BY <2>5, <2>9
<1>10. CASE k = 2 /\ AllocatedTwo(st, u, table, super)
  <2>1. PICK x, t, s2 : x = n[h] /\ t = p[h] /\ s2 = Super(x, 1)
    OBVIOUS
  <2>2. s2.ihead = x /\ s2.ifree = 1
    BY <2>1, SuperFields
  <2>3. x \in Inodes /\ t \in Inodes /\ x = t /\ x # h /\ x = q[2]
    <3>1. n[h] = q[2] /\ p[h] = q[2] /\ q[1] = h
      <4>1. k # 0 /\ k # 1
        BY <1>10
      <4>2. n[h] = q[2] /\ p[h] = q[k]
        BY <1>3, <4>1, ChainEnds
      <4>3. q[1] = h
        BY <1>3, <1>10 DEF Chain
      <4>4. QED
        BY <1>10, <4>2, <4>3
    <3>2. 1 \in 1 .. 2 /\ 2 \in 1 .. 2
      OBVIOUS
    <3>3. q[1] # q[2]
      BY <1>3, <1>10, <3>2 DEF Chain
    <3>4. QED
      BY <1>4, <1>10, <2>1, <3>1, <3>3
  <2>4. PICK m2, m3 : m2 = LinkPrev(m, x, t) /\ m3 = LinkNext(m2, x, x)
    OBVIOUS
  <2>5. At(st, u, m3, {}, s2, s2)
    BY <1>1, <1>5, <1>6, <1>10, <2>1, <2>4 DEF AllocatedTwo
  <2>6. IsTable(m2) /\ Frees(m2) = Frees(m) /\ Nexts(m2) = Nexts(m)
        /\ Prevs(m2) = Put(Prevs(m), x, t)
    <3>1. IsTable(m)
      BY <1>7
    <3>2. QED
      BY <2>3, <2>4, <3>1, LinkPrevFields, ZenonT(30)
  <2>7. Frees(m3) = Frees(m2) /\ Prevs(m3) = Prevs(m2) /\ Nexts(m3) = Put(Nexts(m2), x, x)
    <3>1. IsTable(m2)
      BY <2>6
    <3>2. QED
      BY <2>3, <2>4, <3>1, LinkNextFields, SMTT(30)
  <2>8. /\ Frees(m3) = Put(f, h, FALSE)
        /\ Nexts(m3) = Put(Put(n, h, Time), x, x)
        /\ Prevs(m3) = Put(Put(p, h, Time), x, t)
    BY <1>7, <2>6, <2>7
  <2>9. Frees(m3)[x] = f[x] /\ f[x] = TRUE
    <3>1. 2 \in 1 .. 2 /\ q[2] = x
      BY <2>3
    <3>2. f[x] = TRUE
      BY <1>3, <1>10, <3>1 DEF Chain
    <3>3. Frees(m3)[x] = f[x]
      BY <1>2, <2>3, <2>8 DEF Put
    <3>4. QED
      BY <3>2, <3>3
  <2>10. Frees(m3)[x] = TRUE
    BY <2>9, Zenon
  <2>11. Prevs(m3)[x] = x
    BY <1>1, <2>3, <2>8 DEF Prevs, Put
  <2>12. \E r : Chain(r, Frees(m3), Nexts(m3), Prevs(m3), s2.ihead, s2.ifree)
    BY <2>2, <2>3, <2>10, <2>11, ChainAlone
  <2>13. Frees(m3) \in [Inodes -> BOOLEAN]
    BY <1>8, <2>6, <2>7
  <2>14. /\ Chained' /\ superDisk' = s2
         /\ Frees(table)' = Frees(m3) /\ Nexts(table)' = Nexts(m3) /\ Prevs(table)' = Prevs(m3)
    BY <2>5, <2>12, <2>13, SoundAfter
  <2>15. superDisk'.ifree = k - 1 /\ superDisk'.ihead = x
    BY <1>10, <2>2, <2>14
  <2>16. /\ Frees(table)' = Put(Frees(table), h, FALSE)
         /\ Nexts(table)' = Put(Put(Nexts(table), h, Time), x, x)
         /\ Prevs(table)' = Put(Put(Prevs(table), h, Time), x, t)
         /\ x = Nexts(table)[h] /\ t = Prevs(table)[h]
    BY <1>1, <2>1, <2>8, <2>14
  <2>17. Tool!List!Next
    BY <1>2, <1>4, <1>10, <2>15, <2>16, ListsAllocOfTwo
  <2>18. QED
    BY <2>14, <2>17
<1>11. CASE k # 0 /\ k # 1 /\ k # 2 /\ AllocatedMany(st, u, table, super)
  <2>1. PICK x, t, s2 : x = n[h] /\ t = p[h] /\ s2 = Super(x, k - 1)
    OBVIOUS
  <2>2. s2.ihead = x /\ s2.ifree = k - 1
    BY <2>1, SuperFields
  <2>3. x \in Inodes /\ t \in Inodes
    BY <1>4, <1>11, <2>1
  <2>4. PICK m2, m3 : m2 = LinkPrev(m, x, t) /\ m3 = LinkNext(m2, t, x)
    OBVIOUS
  <2>5. At(st, u, m3, {}, s2, s2)
    BY <1>1, <1>5, <1>6, <1>11, <2>1, <2>4 DEF AllocatedMany
  <2>6. IsTable(m2) /\ Frees(m2) = Frees(m) /\ Nexts(m2) = Nexts(m)
        /\ Prevs(m2) = Put(Prevs(m), x, t)
    <3>1. IsTable(m)
      BY <1>7
    <3>2. QED
      BY <2>3, <2>4, <3>1, LinkPrevFields, SMTT(30)
  <2>7. Frees(m3) = Frees(m2) /\ Prevs(m3) = Prevs(m2) /\ Nexts(m3) = Put(Nexts(m2), t, x)
    <3>1. IsTable(m2)
      BY <2>6
    <3>2. QED
      BY <2>3, <2>4, <3>1, LinkNextFields, SMTT(30)
  <2>8. /\ Frees(m3) = Put(f, h, FALSE)
        /\ Nexts(m3) = Put(Put(n, h, Time), t, x)
        /\ Prevs(m3) = Put(Put(p, h, Time), x, t)
    BY <1>7, <2>6, <2>7
  <2>9. \A i \in Inodes \ {h} : Frees(m3)[i] = f[i]
    BY <1>2, <2>8 DEF Put
  <2>10. \A i \in Inodes \ {h, p[h]} : Nexts(m3)[i] = n[i]
    BY <1>1, <2>1, <2>8 DEF Nexts, Put
  <2>11. Prevs(m3)[n[h]] = p[h]
    BY <1>1, <2>1, <2>3, <2>8 DEF Prevs, Put
  <2>12. \E r : Chain(r, Frees(m3), Nexts(m3), Prevs(m3), s2.ihead, s2.ifree)
    BY <1>3, <1>11, <2>1, <2>2, <2>9, <2>10, <2>11, ChainRest
  <2>13. Frees(m3) \in [Inodes -> BOOLEAN]
    BY <1>8, <2>6, <2>7
  <2>14. /\ Chained' /\ superDisk' = s2
         /\ Frees(table)' = Frees(m3) /\ Nexts(table)' = Nexts(m3) /\ Prevs(table)' = Prevs(m3)
    BY <2>5, <2>12, <2>13, SoundAfter
  <2>15. superDisk'.ifree = k - 1 /\ superDisk'.ihead = x
    BY <2>2, <2>14
  <2>16. k > 2
    BY <1>4, <1>11
  <2>17. /\ Frees(table)' = Put(Frees(table), h, FALSE)
         /\ Nexts(table)' = Put(Put(Nexts(table), h, Time), t, x)
         /\ Prevs(table)' = Put(Put(Prevs(table), h, Time), x, t)
         /\ x = Nexts(table)[h] /\ t = Prevs(table)[h]
    BY <1>1, <2>1, <2>8, <2>14
  <2>18. Tool!List!Next
    BY <1>2, <1>4, <2>15, <2>16, <2>17, ListsAllocOfMany
  <2>19. QED
    BY <2>14, <2>18
<1>12. QED
  BY <1>1, <1>9, <1>10, <1>11 DEF Allocated

\* Every step on an undamaged list is one of InodeList's, or none.
Listed == Tool!List!Next \/ UNCHANGED ListVars

\* A command that has changed nothing on the disk that InodeList knows of.
LEMMA SameLists ==
  ASSUME Chained, NEW st, NEW w, Tool!Step(st, w), NEW u, NEW m,
         At(st, u, m, {}, super, superDisk),
         Frees(m) = Frees(table), Nexts(m) = Nexts(table), Prevs(m) = Prevs(table)
  PROVE  Chained' /\ Listed
<1>1. PICK s : s = super
  OBVIOUS
<1>2. At(st, u, m, {}, s, s)
  BY <1>1 DEF Chained
<1>3. /\ Frees(m) \in [Inodes -> BOOLEAN]
      /\ \E q : Chain(q, Frees(m), Nexts(m), Prevs(m), s.ihead, s.ifree)
  BY <1>1 DEF Chained, Linked
<1>4. /\ Chained' /\ superDisk' = s
      /\ Frees(table)' = Frees(m) /\ Nexts(table)' = Nexts(m) /\ Prevs(table)' = Prevs(m)
  BY <1>2, <1>3, SoundAfter
<1>5. superDisk' = superDisk
  BY <1>1, <1>4 DEF Chained
<1>6. UNCHANGED ListVars
  BY <1>4, <1>5 DEF ListVars
<1>7. QED
  BY <1>4, <1>6 DEF Listed

LEMMA AllocSound ==
  ASSUME AInv, Unharmed => Even /\ Chained, Tool!allocInode, Unharmed'
  PROVE  Chained' /\ Listed
<1>1. PICK st : /\ st = Tool!soAllocInode(Tool!State)
                /\ Tool!Step(st, left)
                /\ damage' = damage \union Tool!Damage(st.thrown /\ st.table # table, "half allocated")
  BY DEF Tool!allocInode, Tool!Command
<1>2. Unharmed /\ ~(st.thrown /\ st.table # table)
  <2>1. "half allocated" \notin damage' /\ damage \subseteq damage'
    BY <1>1 DEF Unharmed
  <2>2. Unharmed
    BY <2>1 DEF Unharmed
  <2>3. QED
    BY <1>1, <2>1, <2>2 DEF Tool!Damage
<1>3. Even /\ Chained /\ IsTable(table)
  BY <1>2 DEF AInv, ShowsAll
<1>4. PICK u : u = left
  OBVIOUS
<1>5. At(Tool!State, u, table, {}, super, superDisk) /\ ~Tool!State.thrown
  BY <1>3, <1>4, EvenState
<1>6. \/ st.thrown /\ At(st, u, table, {}, super, superDisk)
      \/ Allocated(st, u, table, super)
      \/ HalfAllocated(st, u, table, super, superDisk)
  BY <1>1, <1>5, AllocEnds
<1>7. CASE st.thrown /\ At(st, u, table, {}, super, superDisk)
  BY <1>1, <1>3, <1>7, SameLists
<1>8. CASE Allocated(st, u, table, super)
  <2>1. super.ifree # 0
    BY <1>8 DEF Allocated
  <2>2. QED
    BY <1>1, <1>3, <1>8, <2>1, AllocatedSound DEF Listed
<1>9. CASE HalfAllocated(st, u, table, super, superDisk)
  <2>1. PICK h, x, s2 : h = super.ihead /\ x = table[h].next /\ s2 = Super(x, super.ifree - 1)
    OBVIOUS
  <2>2. /\ st.thrown /\ h \in Inodes /\ super.ifree \notin {0, 1}
        /\ \/ At(st, u, Seized(table, h), {}, s2, superDisk)
           \/ x \in Inodes /\ At(st, Inc(u, x), Seized(table, h), {}, s2, superDisk)
    BY <1>9, <2>1 DEF HalfAllocated
  <2>3. st.table = table
    BY <1>2, <2>2
  <2>4. Seized(table, h)[h] = table[h]
    BY <2>2, <2>3 DEF At
  <2>5. x = Time
    BY <1>3, <2>1, <2>2, <2>4, Occupies DEF IsTable
  \* But the head is linked to another inode.
  <2>6. PICK q : Chain(q, Frees(table), Nexts(table), Prevs(table), super.ihead, super.ifree)
    BY <1>3 DEF Chained, Linked
  <2>7. Nexts(table)[h] \in Inodes
    <3>1. super.ifree # 0 /\ super.ifree # 1
      BY <2>2
    <3>2. QED
      BY <2>1, <2>6, <3>1, ChainEnds
  <2>8. x \in Inodes
    BY <2>1, <2>2, <2>7 DEF Nexts
  <2>9. QED
    BY <2>5, <2>8, ToolAssumed
<1>10. QED
  BY <1>6, <1>7, <1>8, <1>9

\* The inode that is freed is marked; it is none of those in the chain.
LEMMA FreedSound ==
  ASSUME IsTable(table), Chained, NEW st, NEW lg, Tool!Step(st, lg), NEW in, NEW u,
         FreedOne(st, u, table, super, in), table[in].free # TRUE
  PROVE  Chained' /\ Tool!List!Next
<1>1. PICK f, n, p, h, k : /\ f = Frees(table) /\ n = Nexts(table) /\ p = Prevs(table)
                           /\ h = super.ihead /\ k = super.ifree
  OBVIOUS
<1>2. f \in [Inodes -> BOOLEAN] /\ h = superDisk.ihead /\ k = superDisk.ifree
  BY <1>1 DEF Chained, Linked
<1>3. PICK q : Chain(q, f, n, p, h, k)
  BY <1>1 DEF Chained, Linked
<1>4. k \in Nat /\ in \in Inodes
  BY <1>3 DEF Chain, FreedOne
<1>5. f[in] # TRUE
  <2>1. f[in] = table[in].free
    BY <1>1, <1>4 DEF Frees
  <2>2. QED
    BY <2>1, Zenon
<1>6. ~Frees(table)[in]
  <2>1. f[in] \in BOOLEAN
    BY <1>2, <1>4
  <2>2. f[in] = FALSE
    BY <1>5, <2>1, Zenon
  <2>3. ~f[in]
    BY <2>2, Zenon
  <2>4. QED
    BY <1>1, <2>3, Zenon
<1>7. PICK m : m = Freed(table, in)
  OBVIOUS
<1>8. /\ IsTable(m) /\ Frees(m) = Put(f, in, TRUE) /\ Nexts(m) = n /\ Prevs(m) = p
  <2>1. /\ IsTable(m) /\ Frees(m) = Put(Frees(table), in, TRUE)
        /\ Nexts(m) = Nexts(table) /\ Prevs(m) = Prevs(table)
    BY <1>4, <1>7, FreedFields
  <2>2. QED
    BY <1>1, <2>1
<1>9. Frees(m) \in [Inodes -> BOOLEAN] /\ Frees(m)[in] = TRUE
      /\ \A i \in Inodes \ {in} : Frees(m)[i] = f[i]
  <2>1. PICK F : F = Put(f, in, TRUE)
    OBVIOUS
  <2>2. F \in [Inodes -> BOOLEAN]
    BY <1>2, <2>1 DEF Put
  <2>3. \A i \in Inodes \ {in} : F[i] = f[i]
    BY <1>2, <2>1 DEF Put
  <2>4. F[in] = TRUE
    BY <1>2, <1>4, <2>1 DEF Put
  <2>5. QED
    BY <1>8, <2>1, <2>2, <2>3, <2>4, Zenon
<1>10. CASE k = 0 /\ FreedAlone(st, u, table, in)
  <2>1. PICK s2 : s2 = Super(in, 1)
    OBVIOUS
  <2>2. s2.ihead = in /\ s2.ifree = 1
    BY <2>1, SuperFields
  <2>3. PICK m2, m3 : m2 = LinkNext(m, in, in) /\ m3 = LinkPrev(m2, in, in)
    OBVIOUS
  <2>4. At(st, u, m3, {}, s2, s2)
    BY <1>7, <1>10, <2>1, <2>3 DEF FreedAlone, LinkedAlone
  <2>5. IsTable(m2) /\ Frees(m2) = Frees(m) /\ Prevs(m2) = Prevs(m) /\ Nexts(m2) = Put(Nexts(m), in, in)
    <3>1. IsTable(m)
      BY <1>8
    <3>2. QED
      BY <1>4, <2>3, <3>1, LinkNextFields, SMTT(30)
  <2>6. Frees(m3) = Frees(m2) /\ Nexts(m3) = Nexts(m2) /\ Prevs(m3) = Put(Prevs(m2), in, in)
    <3>1. IsTable(m2)
      BY <2>5
    <3>2. QED
      BY <1>4, <2>3, <3>1, LinkPrevFields, SMTT(30)
  <2>7. Frees(m3) = Frees(m) /\ Nexts(m3) = Put(n, in, in) /\ Prevs(m3) = Put(p, in, in)
    BY <1>8, <2>5, <2>6
  <2>8. Prevs(m3)[in] = in
    BY <1>1, <1>4, <2>7 DEF Prevs, Put
  <2>9. Frees(m3)[in] = TRUE
    BY <1>9, <2>7, Zenon
  <2>10. \E r : Chain(r, Frees(m3), Nexts(m3), Prevs(m3), s2.ihead, s2.ifree)
    BY <1>4, <2>2, <2>8, <2>9, ChainAlone
  <2>11. Frees(m3) \in [Inodes -> BOOLEAN]
    BY <1>9, <2>7
  <2>12. /\ Chained' /\ superDisk' = s2
         /\ Frees(table)' = Frees(m3) /\ Nexts(table)' = Nexts(m3) /\ Prevs(table)' = Prevs(m3)
    BY <2>4, <2>10, <2>11, SoundAfter
  <2>13. superDisk'.ifree = k + 1 /\ superDisk'.ihead = in
    BY <1>10, <2>2, <2>12
  <2>14. /\ Frees(table)' = Put(Frees(table), in, TRUE)
         /\ Nexts(table)' = Put(Nexts(table), in, in)
         /\ Prevs(table)' = Put(Prevs(table), in, in)
    BY <1>1, <1>8, <2>7, <2>12
  <2>15. Tool!List!Next
    BY <1>2, <1>4, <1>6, <1>10, <2>13, <2>14, ListsFreeToNone
  <2>16. QED
    BY <2>12, <2>15
<1>11. ASSUME k # 0 PROVE h \in Inodes /\ p[h] \in Inodes /\ h # in /\ p[h] # in
  <2>1. h \in Inodes /\ h = q[1] /\ p[h] = q[k] /\ p[h] \in Inodes
    BY <1>3, <1>11, ChainEnds
  <2>2. 1 \in 1 .. k /\ k \in 1 .. k
    BY <1>4, <1>11
  <2>3. f[q[1]] = TRUE /\ f[q[k]] = TRUE
    BY <1>3, <2>2 DEF Chain
  <2>4. q[1] # in /\ q[k] # in
    BY <1>5, <2>3, Zenon
  <2>5. QED
    BY <2>1, <2>4
<1>12. ASSUME NEW s2, NEW w, NEW m2, At(st, w, m2, {}, s2, s2), k # 0,
              s2.ihead = h, s2.ifree = k + 1,
              Frees(m2) = Frees(m), Nexts(m2)[p[h]] = in,
              \A i \in Inodes \ {in, p[h]} : Nexts(m2)[i] = n[i],
              Prevs(m2)[h] = in
       PROVE  /\ Chained' /\ superDisk'.ihead = h /\ superDisk'.ifree = k + 1
              /\ Frees(table)' = Put(Frees(table), in, TRUE)
              /\ Nexts(table)' = Nexts(m2) /\ Prevs(table)' = Prevs(m2)
  <2>1. Frees(m2)[in] = TRUE /\ \A i \in Inodes \ {in} : Frees(m2)[i] = f[i]
    BY <1>9, <1>12, Zenon
  <2>2. \E r : Chain(r, Frees(m2), Nexts(m2), Prevs(m2), h, k + 1)
    <3>1. PICK g, v, w2 : g = Frees(m2) /\ v = Nexts(m2) /\ w2 = Prevs(m2)
      OBVIOUS
    <3>2. k # 0 /\ v[p[h]] = in /\ (\A i \in Inodes \ {in, p[h]} : v[i] = n[i]) /\ w2[h] = in
      BY <1>12, <3>1
    <3>3. Marked(g, in) /\ ~Marked(f, in) /\ \A i \in Inodes \ {in} : g[i] = f[i]
      BY <1>5, <2>1, <3>1, Zenon DEF Marked
    <3>4. in \in Inodes
      BY <1>4
    <3>5. \E r : Chain(r, g, v, w2, h, k + 1)
      BY <1>3, <3>2, <3>3, <3>4, ChainLonger
    <3>6. QED
      BY <3>1, <3>5
  <2>3. Frees(m2) \in [Inodes -> BOOLEAN]
    BY <1>9, <1>12
  <2>4. \E r : Chain(r, Frees(m2), Nexts(m2), Prevs(m2), s2.ihead, s2.ifree)
    BY <1>12, <2>2
  <2>5. /\ Chained' /\ superDisk' = s2
        /\ Frees(table)' = Frees(m2) /\ Nexts(table)' = Nexts(m2) /\ Prevs(table)' = Prevs(m2)
    BY <1>12, <2>3, <2>4, SoundAfter
  <2>6. Frees(table)' = Put(Frees(table), in, TRUE)
    BY <1>1, <1>8, <1>12, <2>5
  <2>7. QED
    BY <1>12, <2>5, <2>6
<1>13. CASE k = 1 /\ FreedBesideOne(st, u, table, super, in)
  <2>1. PICK s2 : s2 = Super(h, 2)
    OBVIOUS
  <2>2. s2.ihead = h /\ s2.ifree = k + 1
    BY <1>13, <2>1, SuperFields
  <2>3. PICK m2, m3, m4, m5 : /\ m2 = LinkPrev(m, h, in) /\ m3 = LinkNext(m2, h, in)
                              /\ m4 = LinkNext(m3, in, h) /\ m5 = LinkPrev(m4, in, h)
    OBVIOUS
  <2>4. \E w : At(st, w, m5, {}, s2, s2)
    BY <1>1, <1>7, <1>13, <2>1, <2>3 DEF FreedBesideOne, LinkedBesideOne
  <2>5. h \in Inodes /\ h # in /\ p[h] = h
    <3>1. k # 0
      BY <1>13
    <3>2. h = q[1] /\ p[h] = q[k]
      BY <1>3, <3>1, ChainEnds
    <3>3. QED
      BY <1>11, <1>13, <3>1, <3>2
  <2>6. IsTable(m2) /\ Frees(m2) = Frees(m) /\ Nexts(m2) = Nexts(m) /\ Prevs(m2) = Put(Prevs(m), h, in)
    <3>1. IsTable(m)
      BY <1>8
    <3>2. QED
      BY <2>3, <2>5, <3>1, LinkPrevFields, SMTT(30)
  <2>7. IsTable(m3) /\ Frees(m3) = Frees(m2) /\ Prevs(m3) = Prevs(m2) /\ Nexts(m3) = Put(Nexts(m2), h, in)
    <3>1. IsTable(m2)
      BY <2>6
    <3>2. QED
      BY <2>3, <2>5, <3>1, LinkNextFields, SMTT(30)
  <2>8. IsTable(m4) /\ Frees(m4) = Frees(m3) /\ Prevs(m4) = Prevs(m3) /\ Nexts(m4) = Put(Nexts(m3), in, h)
    <3>1. IsTable(m3)
      BY <2>7
    <3>2. QED
      BY <1>4, <2>3, <3>1, LinkNextFields, SMTT(30)
  <2>9. Frees(m5) = Frees(m4) /\ Nexts(m5) = Nexts(m4) /\ Prevs(m5) = Put(Prevs(m4), in, h)
    <3>1. IsTable(m4)
      BY <2>8
    <3>2. QED
      BY <1>4, <2>3, <3>1, LinkPrevFields, SMTT(30)
  <2>10. /\ Frees(m5) = Frees(m)
         /\ Nexts(m5) = Put(Put(n, h, in), in, h)
         /\ Prevs(m5) = Put(Put(p, h, in), in, h)
    BY <1>8, <2>6, <2>7, <2>8, <2>9
  <2>11. Nexts(m5)[p[h]] = in /\ \A i \in Inodes \ {in, p[h]} : Nexts(m5)[i] = n[i]
    BY <1>1, <2>5, <2>10 DEF Nexts, Put
  <2>12. Prevs(m5)[h] = in
    BY <1>1, <2>5, <2>10 DEF Prevs, Put
  <2>13. k # 0
    BY <1>13
  <2>14. /\ Chained' /\ superDisk'.ihead = h /\ superDisk'.ifree = k + 1
         /\ Frees(table)' = Put(Frees(table), in, TRUE)
         /\ Nexts(table)' = Nexts(m5) /\ Prevs(table)' = Prevs(m5)
    <3>1. Frees(m5) = Frees(m)
      BY <2>10
    <3>2. QED
      BY <1>12, <2>2, <2>4, <2>11, <2>12, <2>13, <3>1
  <2>15. /\ Nexts(table)' = Put(Put(Nexts(table), h, in), in, h)
         /\ Prevs(table)' = Put(Put(Prevs(table), h, in), in, h)
    BY <1>1, <2>10, <2>14
  <2>16. Tool!List!Next
    BY <1>2, <1>4, <1>6, <1>13, <2>14, <2>15, ListsFreeToOne
  <2>17. QED
    BY <2>14, <2>16
<1>14. CASE k # 0 /\ k # 1 /\ FreedBehind(st, u, table, super, in)
  <2>1. PICK s2 : s2 = Super(h, k + 1)
    OBVIOUS
  <2>2. s2.ihead = h /\ s2.ifree = k + 1
    BY <2>1, SuperFields
  <2>3. PICK t : t = p[h]
    OBVIOUS
  <2>4. h \in Inodes /\ t \in Inodes /\ h # in /\ t # in
    BY <1>11, <1>14, <2>3
  <2>5. t = Prevs(m)[h] /\ t = m[h].prev /\ t = Prevs(table)[h]
    BY <1>1, <1>8, <2>3, <2>4 DEF Prevs
  <2>6. PICK m2, m3, m4, m5 : /\ m2 = LinkNext(m, t, in) /\ m3 = LinkNext(m2, in, h)
                              /\ m4 = LinkPrev(m3, in, t) /\ m5 = LinkPrev(m4, h, in)
    OBVIOUS
  <2>7. At(st, u, m5, {}, s2, s2)
    BY <1>1, <1>7, <1>14, <2>1, <2>5, <2>6 DEF FreedBehind, LinkedBehind
  <2>8. IsTable(m2) /\ Frees(m2) = Frees(m) /\ Prevs(m2) = Prevs(m) /\ Nexts(m2) = Put(Nexts(m), t, in)
    <3>1. IsTable(m)
      BY <1>8
    <3>2. QED
      BY <2>4, <2>6, <3>1, LinkNextFields, SMTT(30)
  <2>9. IsTable(m3) /\ Frees(m3) = Frees(m2) /\ Prevs(m3) = Prevs(m2) /\ Nexts(m3) = Put(Nexts(m2), in, h)
    <3>1. IsTable(m2)
      BY <2>8
    <3>2. QED
      BY <1>4, <2>6, <3>1, LinkNextFields, SMTT(30)
  <2>10. IsTable(m4) /\ Frees(m4) = Frees(m3) /\ Nexts(m4) = Nexts(m3) /\ Prevs(m4) = Put(Prevs(m3), in, t)
    <3>1. IsTable(m3)
      BY <2>9
    <3>2. QED
      BY <1>4, <2>6, <3>1, LinkPrevFields, SMTT(30)
  <2>11. Frees(m5) = Frees(m4) /\ Nexts(m5) = Nexts(m4) /\ Prevs(m5) = Put(Prevs(m4), h, in)
    <3>1. IsTable(m4)
      BY <2>10
    <3>2. QED
      BY <2>4, <2>6, <3>1, LinkPrevFields, SMTT(30)
  <2>12. /\ Frees(m5) = Frees(m)
         /\ Nexts(m5) = Put(Put(n, t, in), in, h)
         /\ Prevs(m5) = Put(Put(p, in, t), h, in)
    BY <1>8, <2>8, <2>9, <2>10, <2>11
  <2>13. Nexts(m5)[p[h]] = in /\ \A i \in Inodes \ {in, p[h]} : Nexts(m5)[i] = n[i]
    BY <1>1, <2>3, <2>4, <2>12 DEF Nexts, Put
  <2>14. Prevs(m5)[h] = in
    BY <1>1, <2>4, <2>12 DEF Prevs, Put
  <2>15. /\ Chained' /\ superDisk'.ihead = h /\ superDisk'.ifree = k + 1
         /\ Frees(table)' = Put(Frees(table), in, TRUE)
         /\ Nexts(table)' = Nexts(m5) /\ Prevs(table)' = Prevs(m5)
    <3>1. Frees(m5) = Frees(m) /\ k # 0
      BY <1>14, <2>12
    <3>2. QED
      BY <1>12, <2>2, <2>7, <2>13, <2>14, <3>1
  <2>16. /\ Nexts(table)' = Put(Put(Nexts(table), t, in), in, h)
         /\ Prevs(table)' = Put(Put(Prevs(table), in, t), h, in)
    BY <1>1, <2>12, <2>15
  <2>17. k > 1
    BY <1>4, <1>14
  <2>18. Tool!List!Next
    BY <1>2, <1>4, <1>6, <2>5, <2>15, <2>16, <2>17, ListsFreeToMany
  <2>19. QED
    BY <2>15, <2>18
<1>15. QED
  BY <1>1, <1>10, <1>13, <1>14 DEF FreedOne

LEMMA FreedCounts ==
  ASSUME NEW st, NEW u, NEW n, NEW s, NEW in, FreedOne(st, u, n, s, in), s.ifree \in Nat
  PROVE  st.sbDisk # s
<1>1. PICK k : k = s.ifree
  OBVIOUS
<1>2. ASSUME NEW w, NEW m, NEW h, NEW j, At(st, w, m, {}, Super(h, j), Super(h, j)), j # k
      PROVE  st.sbDisk # s
  <2>1. st.sbDisk.ifree = j
    BY <1>2, SuperFields DEF At
  <2>2. QED
    BY <1>1, <1>2, <2>1
<1>3. CASE k = 0 /\ FreedAlone(st, u, n, in)
  BY <1>2, <1>3 DEF FreedAlone
<1>4. CASE k = 1 /\ FreedBesideOne(st, u, n, s, in)
  BY <1>2, <1>4 DEF FreedBesideOne
<1>5. CASE FreedBehind(st, u, n, s, in)
  <2>1. k + 1 # k
    BY <1>1
  <2>2. QED
    BY <1>1, <1>2, <1>5, <2>1 DEF FreedBehind
<1>6. QED
  BY <1>1, <1>3, <1>4, <1>5 DEF FreedOne

LEMMA FreeSound ==
  ASSUME AInv, Unharmed => Even /\ Chained, Tool!freeInode, Unharmed'
  PROVE  Chained' /\ Listed
<1>1. PICK in : \E st \in {Tool!soFreeInode(Tool!State, in)} :
         /\ Tool!Step(st, IF super.ifree = 1 THEN Tool!TookBack(st, in) ELSE Tool!Kept(st, in))
         /\ damage' = damage
              \union Tool!Damage(st.open # open /\ st.sbDisk = superDisk, "half freed")
              \union Tool!Damage(st.sbDisk # superDisk /\ Tool!NodeOf(in).free, "freed twice")
  BY DEF Tool!freeInode, Tool!Command
<1>2. PICK st, lg :
         /\ st = Tool!soFreeInode(Tool!State, in) /\ Tool!Step(st, lg)
         /\ damage' = damage
              \union Tool!Damage(st.open # open /\ st.sbDisk = superDisk, "half freed")
              \union Tool!Damage(st.sbDisk # superDisk /\ Tool!NodeOf(in).free, "freed twice")
  BY <1>1
<1>3. /\ Unharmed
      /\ ~(st.open # open /\ st.sbDisk = superDisk)
      /\ ~(st.sbDisk # superDisk /\ Tool!NodeOf(in).free)
  <2>1. "half freed" \notin damage' /\ "freed twice" \notin damage'
    BY DEF Unharmed
  <2>2. damage \subseteq damage'
    BY <1>2
  <2>3. Unharmed
    BY <2>2 DEF Unharmed
  <2>4. QED
    BY <1>2, <2>1, <2>3 DEF Tool!Damage
<1>4. Even /\ Chained /\ IsTable(table)
  BY <1>3 DEF AInv, ShowsAll
<1>5. PICK u : u = left
  OBVIOUS
<1>6. At(Tool!State, u, table, {}, super, superDisk) /\ ~Tool!State.thrown
  BY <1>4, <1>5, EvenState
<1>7. \/ st.thrown /\ in \notin DOMAIN st.open /\ At(st, u, table, {}, super, superDisk)
      \/ FreedOne(st, u, table, super, in)
      \/ HalfFreed(st, u, super, superDisk, in)
  BY <1>2, <1>6, FreeEnds
<1>8. CASE At(st, u, table, {}, super, superDisk)
  BY <1>2, <1>4, <1>8, SameLists
<1>9. CASE FreedOne(st, u, table, super, in)
  <2>1. in \in Inodes /\ super.ifree \in Nat /\ super = superDisk
    BY <1>4, <1>9 DEF FreedOne, Even, Chained
  <2>2. st.sbDisk # superDisk
    BY <1>9, <2>1, FreedCounts
  <2>3. ~Tool!NodeOf(in).free
    BY <1>3, <2>2
  <2>4. Tool!NodeOf(in) = table[in]
    BY <1>4 DEF Tool!NodeOf, Even
  <2>5. table[in].free # TRUE
    BY <2>3, <2>4
  <2>6. QED
    BY <1>2, <1>4, <1>9, <2>5, FreedSound DEF Listed
<1>10. CASE HalfFreed(st, u, super, superDisk, in)
  <2>1. PICK w, m : in \in Inodes /\ w[in] > u[in] /\ At(st, w, m, {in}, super, superDisk)
    BY <1>10 DEF HalfFreed
  <2>2. st.sbDisk = superDisk /\ w[in] = UsersIn(st.open, in)
    BY <2>1 DEF At
  <2>3. u[in] = UsersIn(open, in)
    BY <1>4, <1>5, <2>1 DEF Used, Even
  <2>4. w[in] \in Nat /\ u[in] \in Nat
    BY <1>6, <2>1 DEF At
  <2>5. st.open # open
    BY <2>1, <2>2, <2>3, <2>4
  <2>6. QED
    BY <1>3, <2>2, <2>5
<1>11. QED
  BY <1>7, <1>8, <1>9, <1>10

\* A change of an inode that leaves it where it is in the list.
LEMMA ChangeSound ==
  ASSUME AInv, Even, Chained, NEW in \in Inodes, NEW node, DOMAIN node = NodeFields,
         node.next = table[in].next, node.prev = table[in].prev, node.free = table[in].free,
         NEW throws \in BOOLEAN, Tool!ChangeInode(in, node, throws)
  PROVE  Chained' /\ Listed
<1>1. PICK m : m = Put(table, in, node)
  OBVIOUS
<1>2. PICK st, w : /\ Tool!Step(st, w)
                   /\ \/ At(st, w, table, {}, super, superDisk)
                      \/ At(st, w, m, {}, super, superDisk)
  BY <1>1, ChangeEnds
<1>3. IsTable(table)
  BY DEF AInv, ShowsAll
<1>4. /\ Frees(m) = Put(Frees(table), in, node.free)
      /\ Nexts(m) = Put(Nexts(table), in, node.next)
      /\ Prevs(m) = Put(Prevs(table), in, node.prev)
  BY <1>1, <1>3, PutFields
<1>5. Frees(m) = Frees(table) /\ Nexts(m) = Nexts(table) /\ Prevs(m) = Prevs(table)
  BY <1>4, SameField
<1>6. QED
  BY <1>2, <1>5, SameLists

LEMMA ErrandSound ==
  ASSUME AInv, Even, Chained, Errand
  PROVE  Chained' /\ Listed
<1>1. PICK st, w : Quiet(st, w)
  BY ErrandEnds
<1>2. super = superDisk
  BY DEF Chained
<1>3. At(st, w, table, {}, super, superDisk) /\ Tool!Step(st, w)
  BY <1>1, <1>2 DEF Quiet
<1>4. QED
  BY <1>3, SameLists

\* The disk is as it was, and the superblock that is open is that of the disk.
LEMMA SameDisk ==
  ASSUME Chained, \A in \in Inodes : table'[in] = table[in], super' = super, superDisk' = superDisk
  PROVE  Chained' /\ Listed
<1>1. Inodes' = Inodes
  BY DEF Inodes, Tool!Inodes
<1>2. Frees(table)' = Frees(table) /\ Nexts(table)' = Nexts(table) /\ Prevs(table)' = Prevs(table)
  BY <1>1 DEF Frees, Nexts, Prevs
<1>3. Linked(table, super)'
  BY <1>1, <1>2 DEF Chained, Linked, Chain
<1>4. UNCHANGED ListVars
  BY <1>2 DEF ListVars
<1>5. QED
  BY <1>3, <1>4 DEF Chained, Listed

LEMMA ExecSound ==
  ASSUME AInv, Unharmed => Even /\ Chained, Tool!exec, Unharmed'
  PROVE  Chained' /\ Listed
<1> DEFINE Node(in) == Tool!NodeOf(in)
           Slight(in, throws, node) ==
              /\ Tool!ChangeInode(in, node, throws)
              /\ \/ \E owner : node = [Node(in) EXCEPT !.owner = owner]
                 \/ \E lnkcnt : node = [Node(in) EXCEPT !.lnkcnt = lnkcnt]
<1>1. ASSUME Unharmed
      PROVE  /\ Even /\ Chained /\ IsTable(table)
             /\ \A in \in Inodes : DOMAIN Node(in) = NodeFields /\ Node(in) = table[in]
  <2>1. Even /\ Chained /\ IsTable(table)
    BY <1>1 DEF AInv, ShowsAll
  <2>2. ASSUME NEW in \in Inodes PROVE DOMAIN Node(in) = NodeFields /\ Node(in) = table[in]
    BY <2>1 DEF Tool!NodeOf, Even, IsTable
  <2>3. QED
    BY <2>1, <2>2
<1>2. ASSUME damage \subseteq damage' PROVE Unharmed
  BY <1>2 DEF Unharmed
<1>3. CASE Tool!allocInode
  BY <1>3, AllocSound
<1>4. CASE Tool!freeInode
  BY <1>4, FreeSound
<1>5. CASE Tool!setInodeAccess
  <2>1. PICK in \in Inodes, perm \in Perms, sticky \in BOOLEAN :
           /\ Tool!ChangeInode(in, [Node(in) EXCEPT !.perm = perm, !.free = @ \/ sticky], FALSE)
           /\ damage' = damage \union Tool!Damage(sticky /\ table' # table /\ ~Node(in).free,
                                                  "marked free")
    BY <1>5 DEF Tool!setInodeAccess, Inodes
  <2>2. ~(sticky /\ table' # table /\ ~Node(in).free)
    <3>1. "marked free" \notin damage'
      BY DEF Unharmed
    <3>2. QED
      BY <2>1, <3>1 DEF Tool!Damage
  <2>3. /\ Even /\ Chained /\ IsTable(table)
        /\ DOMAIN Node(in) = NodeFields /\ Node(in) = table[in]
    BY <1>1, <1>2, <2>1
  <2>4. PICK node : node = [Node(in) EXCEPT !.perm = perm, !.free = @ \/ sticky]
    OBVIOUS
  <2>5. /\ DOMAIN node = NodeFields /\ node.next = table[in].next /\ node.prev = table[in].prev
        /\ node.free = (table[in].free \/ sticky)
    BY <2>3, <2>4 DEF NodeFields
  <2>6. CASE sticky /\ ~table[in].free
    <3>1. table' = table
      BY <2>2, <2>3, <2>6
    <3>2. super' = super /\ superDisk' = superDisk
      <4>1. PICK st, w, m : Tool!Step(st, w) /\ At(st, w, m, {}, super, superDisk)
        BY <2>1, <2>3, <2>4, <2>5, ChangeEnds
      <4>2. QED
        BY <4>1 DEF At, Tool!Step
    <3>3. QED
      BY <2>3, <3>1, <3>2, SameDisk
  <2>7. CASE ~(sticky /\ ~table[in].free)
    <3>1. node.free = table[in].free
      <4>1. Frees(table)[in] \in BOOLEAN
        BY <2>3 DEF Chained, Linked
      <4>2. table[in].free \in BOOLEAN
        BY <4>1 DEF Frees
      <4>3. QED
        BY <2>5, <2>7, <4>2
    <3>2. QED
      BY <2>1, <2>3, <2>4, <2>5, <3>1, ChangeSound
  <2>8. QED
    BY <2>6, <2>7
<1>6. ASSUME Tool!changeOwnership \/ Tool!decInodeLnkcnt \/ Tool!incInodeLnkcnt
      PROVE  /\ Unharmed
             /\ \E in \in Inodes, throws \in BOOLEAN : \E node : Slight(in, throws, node)
  <2>1. CASE Tool!changeOwnership
    <3>1. damage' = damage /\ \E in \in Inodes, owner \in Owners :
             Tool!ChangeInode(in, [Node(in) EXCEPT !.owner = owner], FALSE)
      BY <2>1 DEF Tool!changeOwnership, Inodes
    <3>2. QED
      BY <1>2, <3>1
  <2>2. CASE Tool!decInodeLnkcnt
    <3>1. damage' = damage /\ \E in \in Inodes :
             Tool!ChangeInode(in, [Node(in) EXCEPT !.lnkcnt = IF @ = 0 THEN 0 ELSE @ - 1], FALSE)
      BY <2>2 DEF Tool!decInodeLnkcnt, Inodes
    <3>2. QED
      BY <1>2, <3>1
  <2>3. CASE Tool!incInodeLnkcnt
    <3>1. damage' = damage /\ \E in \in Inodes :
             Tool!ChangeInode(in, [Node(in) EXCEPT !.lnkcnt = @ + 1], Node(in).lnkcnt = LinkMax)
      BY <2>3 DEF Tool!incInodeLnkcnt, Inodes
    <3>2. QED
      BY <1>2, <3>1
  <2>4. QED
    BY <1>6, <2>1, <2>2, <2>3
<1>7. CASE Tool!changeOwnership \/ Tool!decInodeLnkcnt \/ Tool!incInodeLnkcnt
  <2>1. PICK in \in Inodes, throws \in BOOLEAN : \E node : Slight(in, throws, node)
    BY <1>6, <1>7
  <2>2. PICK node : Slight(in, throws, node)
    BY <2>1
  <2>3. /\ Even /\ Chained
        /\ DOMAIN Node(in) = NodeFields /\ Node(in) = table[in]
    BY <1>1, <1>6, <1>7
  <2>4. /\ DOMAIN node = NodeFields /\ node.next = Node(in).next /\ node.prev = Node(in).prev
        /\ node.free = Node(in).free
    BY <2>3, <2>2 DEF NodeFields
  <2>5. node.next = table[in].next /\ node.prev = table[in].prev /\ node.free = table[in].free
    BY <2>3, <2>4
  <2>6. QED
    BY <2>3, <2>4, <2>5, <2>2, ChangeSound
<1>8. CASE Errand
  <2>1. damage' = damage
    BY <1>8, ErrandShows
  <2>2. Even /\ Chained
    BY <1>1, <1>2, <2>1
  <2>3. QED
    BY <1>8, <2>2, ErrandSound
<1>9. QED
  BY <1>3, <1>4, <1>5, <1>7, <1>8, ExecParts

\* mksofs links all the inodes but the first, in the order of their numbers.
LEMMA FreshChain ==
  ASSUME NEW tab, tab = Tool!fillInInodeTable, NEW s, s = Tool!fillInSuperBlock
  PROVE  Linked(tab, s)
<1>1. s.ihead = 1 /\ s.ifree = ITotal - 1
  BY DEF Tool!fillInSuperBlock
<1>2. ITotal \in Nat \ {0}
  BY ToolAssumed
<1>3. PICK k : k = ITotal - 1
  OBVIOUS
<1>4. k \in Nat /\ Inodes = 0 .. k /\ ITotal = k + 1
  BY <1>2, <1>3 DEF Inodes, Tool!Inodes
<1>5. ASSUME NEW in \in Inodes
      PROVE  /\ tab[in].free = (in # 0)
             /\ in # 0 => tab[in].next = Tool!FirstNext(in) /\ tab[in].prev = Tool!FirstPrev(in)
  <2>1. tab[in] = IF in = 0 THEN [free |-> FALSE, next |-> Time, prev |-> Time,
                                  lnkcnt |-> 2, perm |-> 1, owner |-> 0]
                  ELSE [free |-> TRUE, next |-> Tool!FirstNext(in), prev |-> Tool!FirstPrev(in),
                        lnkcnt |-> 0, perm |-> 0, owner |-> 0]
    BY DEF Tool!fillInInodeTable, Inodes
  <2>2. CASE in = 0
    <3>1. tab[in].free = FALSE
      BY <2>1, <2>2
    <3>2. QED
      BY <2>2, <3>1
  <2>3. CASE in # 0
    <3>1. tab[in].free = TRUE
      BY <2>1, <2>3
    <3>2. tab[in].next = Tool!FirstNext(in) /\ tab[in].prev = Tool!FirstPrev(in)
      BY <2>1, <2>3
    <3>3. QED
      BY <2>3, <3>1, <3>2
  <2>4. QED
    BY <2>2, <2>3
<1>6. PICK f, n, p : f = Frees(tab) /\ n = Nexts(tab) /\ p = Prevs(tab)
  OBVIOUS
<1>7. \A in \in Inodes : /\ f[in] = (in # 0)
                         /\ in # 0 => n[in] = Tool!FirstNext(in) /\ p[in] = Tool!FirstPrev(in)
  BY <1>5, <1>6 DEF Frees, Nexts, Prevs
<1>8. f \in [Inodes -> BOOLEAN]
  BY <1>5, <1>6 DEF Frees
<1>9. PICK q : q = [i \in 1 .. k |-> i]
  OBVIOUS
<1>10. \A i \in 1 .. k : q[i] = i /\ i \in Inodes /\ i # 0
  BY <1>4, <1>9
<1>11. q \in [1 .. k -> Inodes]
  BY <1>9, <1>10
<1>12. \A i \in 1 .. k : f[q[i]] = TRUE
  BY <1>7, <1>10
<1>13. k > 0 => 1 = q[1] /\ p[q[1]] = q[k]
  <2>1. ASSUME k > 0 PROVE 1 = q[1] /\ p[q[1]] = q[k]
    <3>1. 1 \in 1 .. k /\ k \in 1 .. k
      BY <1>4, <2>1
    <3>2. p[1] = Tool!FirstPrev(1) /\ q[1] = 1 /\ q[k] = k
      BY <1>7, <1>10, <3>1
    <3>3. Tool!FirstPrev(1) = k
      BY <1>3 DEF Tool!FirstPrev
    <3>4. QED
      BY <3>2, <3>3
  <2>2. QED
    BY <2>1
<1>14. ASSUME NEW i \in 1 .. k - 1 PROVE n[q[i]] = q[i + 1]
  <2>1. i \in 1 .. k /\ i + 1 \in 1 .. k /\ ~(i + 2 > ITotal)
    BY <1>4
  <2>2. n[i] = Tool!FirstNext(i) /\ q[i] = i /\ q[i + 1] = i + 1
    BY <1>7, <1>10, <2>1
  <2>3. Tool!FirstNext(i) = i + 1
    BY <2>1 DEF Tool!FirstNext
  <2>4. QED
    BY <2>2, <2>3
<1>15. Chain(q, f, n, p, 1, k)
  BY <1>4, <1>10, <1>11, <1>12, <1>13, <1>14 DEF Chain
<1>16. QED
  BY <1>1, <1>3, <1>6, <1>8, <1>15 DEF Linked

LEMMA FreshLists ==
  ASSUME table' = Tool!fillInInodeTable, superDisk' = Tool!fillInSuperBlock
  PROVE  Tool!List!Init'
<1>1. superDisk'.ihead = 1 /\ superDisk'.ifree = ITotal - 1
  BY DEF Tool!fillInSuperBlock
<1>2. Tool!List!Inodes' = Inodes /\ Tool!List!Inodes = Inodes /\ Tool!Inodes' = Inodes
  BY DEF Tool!List!Inodes, Inodes, Tool!Inodes
<1>3. ASSUME NEW in \in Inodes
      PROVE  /\ table'[in].free = (in # 0)
             /\ table'[in].next = IF in = 0 THEN Time ELSE Tool!List!FirstNext(in)
             /\ table'[in].prev = IF in = 0 THEN Time ELSE Tool!List!FirstPrev(in)
  <2>1. table'[in] = IF in = 0 THEN [free |-> FALSE, next |-> Time, prev |-> Time,
                                     lnkcnt |-> 2, perm |-> 1, owner |-> 0]
                     ELSE [free |-> TRUE, next |-> Tool!FirstNext(in), prev |-> Tool!FirstPrev(in),
                           lnkcnt |-> 0, perm |-> 0, owner |-> 0]
    BY DEF Tool!fillInInodeTable, Inodes
  <2>2. Tool!List!FirstNext(in) = Tool!FirstNext(in) /\ Tool!List!FirstPrev(in) = Tool!FirstPrev(in)
    BY DEF Tool!List!FirstNext, Tool!FirstNext, Tool!List!FirstPrev, Tool!FirstPrev
  <2>3. CASE in = 0
    <3>1. table'[in].free = FALSE /\ table'[in].next = Time /\ table'[in].prev = Time
      BY <2>1, <2>3
    <3>2. QED
      BY <2>3, <3>1
  <2>4. CASE in # 0
    <3>1. table'[in].free = TRUE
      BY <2>1, <2>4
    <3>2. table'[in].next = Tool!FirstNext(in) /\ table'[in].prev = Tool!FirstPrev(in)
      BY <2>1, <2>4
    <3>3. QED
      BY <2>2, <2>4, <3>1, <3>2
  <2>5. QED
    BY <2>3, <2>4
<1>4. [in \in Inodes |-> table'[in].free] = [in \in Inodes |-> in # 0]
  BY <1>3
<1>5. [in \in Inodes |-> table'[in].next]
         = [in \in Inodes |-> IF in = 0 THEN Time ELSE Tool!List!FirstNext(in)]
  BY <1>3
<1>6. [in \in Inodes |-> table'[in].prev]
         = [in \in Inodes |-> IF in = 0 THEN Time ELSE Tool!List!FirstPrev(in)]
  BY <1>3
<1>7. QED
  BY <1>1, <1>2, <1>4, <1>5, <1>6 DEF Tool!List!Init

LEMMA SessionSound ==
  ASSUME AInv, Unharmed => Even /\ Chained, Unharmed',
         Tool!main \/ Tool!formatDisk \/ \E outcome : Tool!Reopen(outcome)
  PROVE  Chained' /\ (Listed \/ Tool!List!Init')
<1>1. ASSUME damage' = damage PROVE Even /\ Chained
  BY <1>1 DEF Unharmed
<1>2. CASE Tool!exec
  BY <1>2, ExecSound
<1>3. CASE Tool!soCloseDisk
  <2>1. table' = Tool!Saved /\ superDisk' = super /\ super' = super /\ damage' = damage
    BY <1>3 DEF Tool!soCloseDisk
  <2>2. Even /\ Chained
    BY <1>1, <2>1
  <2>3. \A in \in Inodes : table'[in] = table[in]
    BY <2>1, <2>2 DEF Tool!Saved, Tool!NodeOf, Even, Inodes
  <2>4. superDisk' = superDisk
    BY <2>1, <2>2 DEF Chained
  <2>5. QED
    BY <2>1, <2>2, <2>3, <2>4, SameDisk
<1>4. CASE Tool!killed
  <2>1. table' = table /\ superDisk' = superDisk /\ super' = superDisk /\ damage' = damage
    BY <1>4 DEF Tool!killed
  <2>2. Chained
    BY <1>1, <2>1
  <2>3. super' = super
    BY <2>1, <2>2 DEF Chained
  <2>4. QED
    BY <2>1, <2>2, <2>3, SameDisk
<1>5. CASE Tool!soOpenDisk
  <2>1. table' = table /\ superDisk' = superDisk /\ super' = super /\ damage' = damage
    BY <1>5 DEF Tool!soOpenDisk
  <2>2. QED
    BY <1>1, <2>1, SameDisk
<1>6. ASSUME NEW outcome, Tool!Reopen(outcome) PROVE Chained' /\ (Listed \/ Tool!List!Init')
  <2>1. CASE outcome = "new volume"
    <3>1. /\ table' = Tool!fillInInodeTable
          /\ super' = Tool!fillInSuperBlock /\ superDisk' = Tool!fillInSuperBlock
      BY <1>6, <2>1 DEF Tool!Reopen
    <3>2. PICK tab, s : tab = Tool!fillInInodeTable /\ s = Tool!fillInSuperBlock
      OBVIOUS
    <3>3. Linked(tab, s)
      BY <3>2, FreshChain
    <3>4. Inodes' = Inodes
      BY DEF Inodes, Tool!Inodes
    <3>5. Chained'
      <4>1. Frees(table)' = Frees(tab) /\ Nexts(table)' = Nexts(tab) /\ Prevs(table)' = Prevs(tab)
        BY <3>1, <3>2, <3>4 DEF Frees, Nexts, Prevs
      <4>2. super' = s
        BY <3>1, <3>2
      <4>3. Linked(table, super)'
        BY <3>3, <3>4, <4>1, <4>2 DEF Linked, Chain
      <4>4. QED
        BY <3>1, <4>3 DEF Chained
    <3>6. QED
      BY <3>1, <3>5, FreshLists
  <2>2. CASE outcome # "new volume"
    <3>1. table' = table /\ superDisk' = superDisk /\ super' = super /\ damage' = damage
      BY <1>6, <2>2 DEF Tool!Reopen
    <3>2. QED
      BY <1>1, <3>1, SameDisk
  <2>3. QED
    BY <2>1, <2>2
<1>7. CASE Tool!traverse
  <2>1. CASE Errand
    <3>1. damage' = damage
      BY <2>1, ErrandShows
    <3>2. QED
      BY <1>1, <2>1, <3>1, ErrandSound
  <2>2. CASE UNCHANGED <<device, table, open, super, superDisk, told, left, damage>>
    BY <1>1, <2>2, SameDisk
  <2>3. QED
    BY <1>7, <2>1, <2>2, TraverseParts
<1>8. QED
  BY <1>2, <1>3, <1>4, <1>5, <1>6, <1>7 DEF Tool!main, Tool!quit, Tool!formatDisk

\* On the disk, a command is one step of InodeList or none, whatever is open and wherever the
\* tool is killed: as long as no inode was freed that is free, none was marked free, and the
\* pool was not exhausted in the middle of a command.
THEOREM ListImplemented == VolumeSpec => ImplementsInodeList
<1> DEFINE Inv == /\ AInv /\ Closed /\ Failing /\ (Whole => Even)
                  /\ Unharmed => Even /\ Chained
<1>1. VolumeInit => Inv
  <2> SUFFICES ASSUME VolumeInit PROVE Inv
    OBVIOUS
  <2>1. AInv /\ Closed /\ Failing /\ Even
    BY EvenAtFirst
  <2>2. /\ table = Tool!fillInInodeTable
        /\ super = Tool!fillInSuperBlock /\ superDisk = Tool!fillInSuperBlock
    BY DEF VolumeInit, Tool!TInit
  <2>3. Chained
    BY <2>2, FreshChain DEF Chained
  <2>4. QED
    BY <2>1, <2>3
<1>2. Inv /\ [VolumeNext]_<<vars, mkvars, ttvars>> => Inv'
  <2> SUFFICES ASSUME Inv, [VolumeNext]_<<vars, mkvars, ttvars>> PROVE Inv'
    OBVIOUS
  <2>1. CASE Session \/ FormatAgain \/ OpenAgain
    <3>1. Tool!main \/ Tool!formatDisk \/ \E outcome : Tool!Reopen(outcome)
      BY <2>1 DEF Session, FormatAgain, OpenAgain
    <3>2. AInv' /\ Closed' /\ Failing' /\ (Whole' => Even')
      BY <3>1, SessionShows, SessionClosed, SessionEven
    <3>3. ASSUME Unharmed' PROVE Even' /\ Chained'
      <4>1. Whole'
        BY <3>3 DEF Unharmed, Whole
      <4>2. Chained'
        BY <3>1, <3>3, SessionSound
      <4>3. QED
        BY <3>2, <4>1, <4>2
    <3>4. QED
      BY <3>2, <3>3
  <2>2. CASE UNCHANGED ttvars
    <3>1. AInv' /\ Closed' /\ Failing' /\ (Whole' => Even') /\ (Unharmed' => Even')
      BY <2>2 DEF ttvars, AInv, ShowsAll, IsTable, IsPool, Closed, Inodes, Tool!Inodes,
                  Failing, Whole, Unharmed, Even, Used, UsersIn
    <3>2. Unharmed' => Chained'
      <4>1. Unharmed' => Unharmed /\ UNCHANGED <<table, super, superDisk>>
        BY <2>2 DEF ttvars, Unharmed
      <4>2. QED
        BY <4>1, SameDisk
    <3>3. QED
      BY <3>1, <3>2
  <2>3. QED
    BY <2>1, <2>2 DEF VolumeNext, Format, Use
<1>3. Inv /\ [VolumeNext]_<<vars, mkvars, ttvars>> =>
         [damage' = {} => Tool!List!Init' \/ Tool!List!Next]_(Tool!List!vars)
  <2> SUFFICES ASSUME Inv, [VolumeNext]_<<vars, mkvars, ttvars>>, Unharmed'
               PROVE  Tool!List!Init' \/ Tool!List!Next \/ UNCHANGED Tool!List!vars
    BY DEF Unharmed
  <2>1. UNCHANGED ListVars => UNCHANGED Tool!List!vars
    BY DEF Tool!List!vars, ListVars, Frees, Nexts, Prevs, Inodes
  <2>2. CASE Session \/ FormatAgain \/ OpenAgain
    <3>1. Tool!main \/ Tool!formatDisk \/ \E outcome : Tool!Reopen(outcome)
      BY <2>2 DEF Session, FormatAgain, OpenAgain
    <3>2. Listed \/ Tool!List!Init'
      BY <3>1, SessionSound
    <3>3. QED
      BY <2>1, <3>2 DEF Listed
  <2>3. CASE UNCHANGED ttvars
    BY <2>1, <2>3 DEF ttvars, ListVars, Frees, Nexts, Prevs, Inodes, Tool!Inodes
  <2>4. QED
    BY <2>2, <2>3 DEF VolumeNext, Format, Use
<1>4. QED
  BY <1>1, <1>2, <1>3, PTL DEF VolumeSpec, ImplementsInodeList, Tool!ImplementsInodeList
=============================================================================
