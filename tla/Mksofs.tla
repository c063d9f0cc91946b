------------------------------- MODULE Mksofs -------------------------------
(***************************************************************************)
(* mksofs (sofs17/src/mksofs): the division of a device and the order in   *)
(* which its zones are written.  A block is known by what it was written   *)
(* as.  The tool may be killed between any two steps; it also stops when   *)
(* it writes behind the end of the device, or cannot open it, because main *)
(* catches int, not SOException, and where an option is wrong.  Sizes are  *)
(* small enough for float and for 32 bits.                                 *)
(***************************************************************************)
EXTENDS Integers, FiniteSets

CONSTANTS
    BlockSize,         \* as far as fillInFreeClusterTable counts blocks with it
    InodesPerBlock,
    BlocksPerCluster,
    RefsPerMapBlock,   \* bits of a block of the bitmap
    MapBits,           \* bits of a byte
    DeviceSizes,       \* bound: the sizes tried, in blocks
    InodeCounts        \* bound: the numbers of inodes asked for, 0 for the default

ASSUME MksofsAssumption ==
    /\ \A n \in {BlockSize, InodesPerBlock, BlocksPerCluster, RefsPerMapBlock, MapBits} :
          n \in Nat \ {0}
    /\ DeviceSizes \subseteq Nat /\ InodeCounts \subseteq Nat

VARIABLES
    stage,   \* what main does next
    zero,    \* option -z
    itotal,  \* option -i
    geo,     \* itsize, rmsize, ctotal
    disk,    \* what each block was last written as
    magic    \* the magic number in block 0
mkvars == <<stage, zero, itotal, geo, disk, magic>>

ntotal == Cardinality(DOMAIN disk)

Ceil(a, b) == (a + b - 1) \div b

(***************************************************************************)
(* computeStructure: the smallest bitmap that holds a bit for each cluster *)
(* that fits beside it; blocks left over go to the table of inodes.        *)
(***************************************************************************)
ClustersBeside(free, bitmap) == (free - bitmap) \div BlocksPerCluster

(* A mutant of computeStructure: the blocks left over are nobody's.        *)
ComputeLosing(blocks, inodes) ==
    LET tab == Ceil(IF inodes = 0 THEN blocks \div 8 ELSE inodes, InodesPerBlock)
        free == blocks - 1 - tab
        enough == {i \in 1 .. free : ClustersBeside(free, i) <= i * RefsPerMapBlock}
        bitmap == CHOOSE i \in enough : \A k \in enough : i <= k
        clusters == ClustersBeside(free, bitmap)
    IN [rmsize |-> bitmap, ctotal |-> clusters, itsize |-> tab]

computeStructure(blocks, inodes) ==
    LET tab == Ceil(IF inodes = 0 THEN blocks \div 8 ELSE inodes, InodesPerBlock)
        free == blocks - 1 - tab
        enough == {i \in 1 .. free : ClustersBeside(free, i) <= i * RefsPerMapBlock}
        bitmap == CHOOSE i \in enough : \A k \in enough : i <= k
        clusters == ClustersBeside(free, bitmap)
    IN [rmsize |-> bitmap, ctotal |-> clusters,
        itsize |-> tab + free - (clusters * BlocksPerCluster + bitmap)]

(* Room for a block of each zone and a cluster for the root; with less,    *)
(* the unsigned subtractions wrap round.                                   *)
Fits(blocks, inodes) == Ceil(inodes, InodesPerBlock) + 2 + BlocksPerCluster <= blocks

rmstart == 1 + geo.itsize
czstart == rmstart + geo.rmsize

MkInit ==
    /\ stage = "options"
    /\ zero = FALSE /\ itotal = 0
    /\ geo = [rmsize |-> 0, ctotal |-> 0, itsize |-> 0]
    /\ \E n \in DeviceSizes : disk = [b \in 0 .. n - 1 |-> "old"]
    /\ magic = "none"

(* The options -i and -z, in any number and order; -n and -q set nothing   *)
(* that matters here; -h, and what is wrong, end the program.  So does a   *)
(* device that cannot be opened, or is no whole number of blocks.          *)
Options ==
    /\ stage = "options"
    /\ \/ itotal' \in InodeCounts /\ UNCHANGED <<stage, zero>>
       \/ zero' = TRUE /\ UNCHANGED <<stage, itotal>>
       \/ stage' \in {"soOpenRawDisk", "stopped"} /\ UNCHANGED <<zero, itotal>>
    /\ UNCHANGED <<geo, disk, magic>>

Default == IF itotal = 0 THEN ntotal \div 8 ELSE itotal

soOpenRawDisk ==
    /\ stage = "soOpenRawDisk"
    /\ \/ /\ Fits(ntotal, Default)
          /\ itotal' = Default
          /\ stage' = "computeStructure"
       \/ stage' = "stopped" /\ UNCHANGED itotal
    /\ UNCHANGED <<zero, geo, disk, magic>>

ComputeStructure ==
    /\ stage = "computeStructure"
    /\ geo' = computeStructure(ntotal, itotal)
    /\ stage' = "fillInSuperBlock"
    /\ UNCHANGED <<zero, itotal, disk, magic>>

(* soWriteRawBlock of each of the blocks, in order: what lies behind the   *)
(* end of the device ends the program.                                     *)
Fill(blocks, content, next) ==
    /\ disk' = [b \in DOMAIN disk |-> IF b \in blocks THEN content ELSE disk[b]]
    /\ stage' = IF blocks \subseteq DOMAIN disk THEN next ELSE "stopped"
    /\ UNCHANGED <<zero, itotal, geo>>

(* A mutant of FillInSuperBlock: the final magic number at once.           *)
SuperBlockAtOnce ==
    /\ stage = "fillInSuperBlock"
    /\ Fill({0}, "superblock", "fillInInodeTable")
    /\ magic' = "MAGIC_NUMBER"

FillInSuperBlock ==
    /\ stage = "fillInSuperBlock"
    /\ Fill({0}, "superblock", "fillInInodeTable")
    /\ magic' = "0xffff"

(* The first block is written also when the table has none.                *)
FillInInodeTable ==
    /\ stage = "fillInInodeTable"
    /\ Fill({1} \union 1 .. geo.itsize, "inodes", "fillInFreeClusterTable")
    /\ UNCHANGED magic

(* The blocks of the bitmap are counted with the bits of a byte times too  *)
(* many, and written BlockSize blocks apart.                               *)
FillInFreeClusterTable ==
    LET blocos == geo.ctotal \div (MapBits * RefsPerMapBlock)
    IN /\ stage = "fillInFreeClusterTable"
       /\ Fill({rmstart + count * BlockSize : count \in 0 .. blocos}, "bitmap", "fillInRootDir")
       /\ UNCHANGED magic

FillInRootDir ==
    /\ stage = "fillInRootDir"
    /\ Fill(czstart .. czstart + BlocksPerCluster - 1, "root directory",
            IF zero THEN "resetClusters" ELSE "magic")
    /\ UNCHANGED magic

(* main hands over a number of blocks, resetClusters takes it for a number *)
(* of clusters.                                                            *)
ResetClusters ==
    LET cstart == czstart + BlocksPerCluster
        ctotal == geo.ctotal - 1
    IN /\ stage = "resetClusters"
       /\ Fill(cstart * BlocksPerCluster .. ctotal * BlocksPerCluster - 1, "zeros", "magic")
       /\ UNCHANGED magic

SetMagic ==
    /\ stage = "magic"
    /\ Fill({0}, "superblock", "done")
    /\ magic' = "MAGIC_NUMBER"

Killed ==
    /\ stage \notin {"done", "stopped"}
    /\ stage' = "stopped"
    /\ UNCHANGED <<zero, itotal, geo, disk, magic>>

MkNext ==
    \/ Options \/ soOpenRawDisk \/ ComputeStructure
    \/ FillInSuperBlock \/ FillInInodeTable \/ FillInFreeClusterTable
    \/ FillInRootDir \/ ResetClusters \/ SetMagic
    \/ Killed

(***************************************************************************)
(* Properties                                                              *)
(***************************************************************************)
(* The zones follow one another without a gap to the very end of the       *)
(* device, and the bitmap has a bit for each cluster (computeStructure; a  *)
(* rounding error would lose blocks, or let the last cluster end behind    *)
(* the device).  Below eight blocks the default is no inode.               *)
ZonesTile ==
    stage \notin {"options", "soOpenRawDisk", "computeStructure", "stopped"} =>
    /\ 1 + geo.itsize + geo.rmsize + geo.ctotal * BlocksPerCluster = ntotal
    /\ geo.ctotal <= geo.rmsize * RefsPerMapBlock
    /\ geo.rmsize > 0 /\ (ntotal >= 8 => geo.itsize > 0)

(* A device carries the magic number only when every block of the zones of *)
(* inodes and of the root directory, and the first block of the bitmap,    *)
(* are what they are to be, also when mksofs is killed half way: the order *)
(* of main, and no stray write of the bitmap or of the zeros hits a zone   *)
(* written before.                                                         *)
MagicMeansFormatted ==
    magic = "MAGIC_NUMBER" =>
        /\ disk[0] = "superblock"
        /\ \A b \in 1 .. geo.itsize : disk[b] = "inodes"
        /\ disk[rmstart] = "bitmap"
        /\ \A b \in czstart .. czstart + BlocksPerCluster - 1 : disk[b] = "root directory"
=============================================================================
