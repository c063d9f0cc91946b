---------------------------- MODULE FreeClusters ----------------------------
(***************************************************************************)
(* The free clusters of a SOFS17 volume (sofs17/src/ilayers/freelists).    *)
(* A free cluster is a one in the bitmap, or is in the retrieval cache,    *)
(* from which clusters are allocated, or in the insertion cache, to which  *)
(* they are given back.  The operators take the superblock together with   *)
(* the bitmap, a record sb, and give what the function leaves behind.      *)
(*                                                                         *)
(* The bitmap is the set of its ones, counted from the first bit of its    *)
(* first block, so that bit c is meant to stand for cluster c.  The fields *)
(* cnt and idx of a bitmap block are read by nobody and left out.          *)
(* sb.damage is history: the steps from which on a cluster may have two    *)
(* places; no step depends on it.                                          *)
(***************************************************************************)
EXTENDS Integers, Sequences, FiniteSets, SequencesExt

CONSTANTS
    CacheSize,      \* REFERENCE_CACHE_SIZE
    BytesPerBlock,  \* ReferenceBytesPerBitmapBlock
    BitsPerByte,    \* 8 in the program
    Behind,         \* the word that lies behind the superblock in memory
    NullReference

ASSUME FreeClustersAssumption ==
    /\ CacheSize \in Nat \ {0} /\ BytesPerBlock \in Nat \ {0} /\ BitsPerByte \in Nat \ {0}
    /\ NullReference \notin Nat

ReferencesPerBitmapBlock == BitsPerByte * BytesPerBlock
Slots == 0 .. CacheSize - 1

ByteOf(p) == p \div BitsPerByte
BlockOf(p) == p \div ReferencesPerBitmapBlock

(* The superblock as mksofs leaves it.                                     *)
fillInSuperBlock(ctotal) ==
    [ctotal |-> ctotal, cfree |-> ctotal - 1, rmidx |-> 0,
     rcache |-> [ref |-> [j \in Slots |-> NullReference], idx |-> CacheSize],
     icache |-> [ref |-> [j \in Slots |-> NullReference], idx |-> 0],
     map |-> {}, damage |-> {}]

(* All bits of the first block but that of the root directory are set,     *)
(* whatever ctotal is.  The blocks written after it lie BlockSize blocks   *)
(* apart, so that no other block of the bitmap is filled.                  *)
fillInFreeClusterTable(sb) == [sb EXCEPT !.map = 1 .. ReferencesPerBitmapBlock - 1]

(* The k-th word from the start of the retrieval cache: its references,    *)
(* its idx, the insertion cache, then whatever follows the superblock.     *)
word(sb, k) ==
    CASE k < CacheSize          -> sb.rcache.ref[k]
      [] k = CacheSize          -> sb.rcache.idx
      [] k \in CacheSize + 1 .. 2 * CacheSize -> sb.icache.ref[k - CacheSize - 1]
      [] k = 2 * CacheSize + 1  -> sb.icache.idx
      [] OTHER                  -> Behind

(* soReplenish, no one in the byte at rmidx: the insertion cache moves to  *)
(* the end of the retrieval cache.                                         *)
FromInsertionCache(sb) ==
    LET n == sb.icache.idx
        first == CacheSize - n
    IN [sb EXCEPT
          !.rcache = [ref |-> [j \in Slots |-> IF j >= first THEN sb.icache.ref[j - first]
                                                             ELSE @.ref[j]],
                      idx |-> first],
          !.icache = [ref |-> [j \in Slots |-> IF j < n THEN NullReference ELSE @.ref[j]],
                      idx |-> 0]]

(* The ones of the block of rmidx, from its byte on, that fit the cache.   *)
Taken(sb) ==
    LET here == {p \in sb.map : /\ BlockOf(p) = sb.rmidx \div BytesPerBlock
                                /\ ByteOf(p) >= sb.rmidx}
        n == IF Cardinality(here) < CacheSize THEN Cardinality(here) ELSE CacheSize
    IN [k \in 1 .. n |-> CHOOSE p \in here : Cardinality({q \in here : q < p}) = k - 1]

(* A mutant of FromBitmap: the ones stay in the bitmap.                    *)
FromBitmapKept(sb) ==
    LET taken == Taken(sb)
        i == Len(taken)
        index == IF i = CacheSize
                 THEN (ByteOf(taken[i]) % BytesPerBlock) + 1 ELSE BytesPerBlock
        filled == [j \in Slots |-> IF j < i THEN taken[j + 1] % ReferencesPerBitmapBlock
                                            ELSE sb.rcache.ref[j]]
        read == [sb EXCEPT !.rcache.ref = filled]
    IN [read EXCEPT
          !.rmidx = IF word(read, index - 1) # 0 THEN index - 1 ELSE index,
          !.rcache = [ref |-> [j \in Slots |-> IF j < i THEN filled[CacheSize - i + j]
                                                        ELSE filled[j]],
                      idx |-> CacheSize - i]]

(* ... otherwise: they are written at the start of the cache, numbered     *)
(* within their block; then memmove copies the end of the cache over its   *)
(* start, and idx is set as if it had copied the other way.                *)
FromBitmap(sb) ==
    LET taken == Taken(sb)
        i == Len(taken)
        index == IF i = CacheSize
                 THEN (ByteOf(taken[i]) % BytesPerBlock) + 1 ELSE BytesPerBlock
        filled == [j \in Slots |-> IF j < i THEN taken[j + 1] % ReferencesPerBitmapBlock
                                            ELSE sb.rcache.ref[j]]
        read == [sb EXCEPT !.map = @ \ Range(taken), !.rcache.ref = filled]
    IN [read EXCEPT
          !.rmidx = IF word(read, index - 1) # 0 THEN index - 1 ELSE index,
          !.rcache = [ref |-> [j \in Slots |-> IF j < i THEN filled[CacheSize - i + j]
                                                        ELSE filled[j]],
                      idx |-> CacheSize - i]]

soReplenish(sb) ==
    CASE sb.rcache.idx < CacheSize -> sb
      [] /\ sb.rcache.idx >= CacheSize
         /\ \A p \in sb.map : ByteOf(p) # sb.rmidx -> FromInsertionCache(sb)
      [] OTHER -> FromBitmap(sb)

(* soAllocCluster calls the prebuilt library; its disabled branch and      *)
(* freelists.h say what that does.  When soReplenish has found nothing,    *)
(* idx is behind the last reference: the word there is idx itself, which   *)
(* becomes NullReference and then, incremented, zero.                      *)
Retrieve(sb) ==
    LET k == sb.rcache.idx
    IN [cn |-> word(sb, k),
        sb |-> IF k < CacheSize
               THEN [sb EXCEPT !.rcache.ref[k] = NullReference, !.rcache.idx = k + 1,
                               !.cfree = @ - 1]
               ELSE [sb EXCEPT !.rcache.idx = 0, !.cfree = @ - 1,
                               !.damage = @ \union {"emptyCache"}]]

NoSpace(sb) == sb.cfree = 0
soAllocCluster(sb) == Retrieve(soReplenish(sb))

(* soDeplete writes one byte for each reference of the insertion cache:    *)
(* with a single one in it, and which byte depends on the block only.  So  *)
(* a byte has the bit of the last reference that was written there.        *)
DepletedByte(ref) == BlockOf(ref) * BytesPerBlock + BlockOf(ref) \div BitsPerByte
DepletedBit(ref) == DepletedByte(ref) * BitsPerByte + (ref % BitsPerByte)

soDeplete(sb) ==
    LET ref == sb.icache.ref
        full == {j \in Slots : j < sb.icache.idx /\ ref[j] # NullReference}
        last == {j \in full : \A k \in full : k > j => DepletedByte(ref[k]) # DepletedByte(ref[j])}
    IN [sb EXCEPT
          !.map = {p \in @ : \A j \in full : ByteOf(p) # DepletedByte(ref[j])}
                  \union {DepletedBit(ref[j]) : j \in last},
          !.icache = [ref |-> [j \in Slots |-> IF j < sb.icache.idx THEN NullReference
                                                                    ELSE ref[j]],
                      idx |-> 0],
          !.damage = IF full = {} THEN @ ELSE @ \union {"depleted"}]

(* soFreeCluster, which accepts the number one behind the last cluster.    *)
Invalid(sb, cn) == cn = NullReference \/ cn > sb.ctotal
Insert(sb, cn) == [sb EXCEPT !.cfree = @ + 1, !.icache.ref[sb.icache.idx] = cn,
                             !.icache.idx = @ + 1]
(* A mutant of soFreeCluster: a full cache is not depleted first.          *)
FreeIntoFull(sb, cn) == Insert(sb, cn)

soFreeCluster(sb, cn) ==
    Insert(IF sb.icache.idx = CacheSize THEN soDeplete(sb) ELSE sb, cn)
=============================================================================
