------------------------- MODULE FileClustersProofs -------------------------
(***************************************************************************)
(* Proofs about the clusters of files (FileClusters and FreeClusters) on a *)
(* Volume of any size, with any number of files: what the superblock and   *)
(* the inodes count is always all clusters, and until the first step that  *)
(* the code gets wrong no cluster is in two places and each file has       *)
(* what was written to it.                                                 *)
(***************************************************************************)
EXTENDS FileClusters, FiniteSetTheorems, WellFoundedInduction, TLAPS

\* A set of natural numbers that is not empty has a least element.
LEMMA Least ==
  ASSUME NEW S \in SUBSET Nat, S # {}
  PROVE  \E m \in S : \A k \in S : m <= k
<1> DEFINE less == {ss \in Nat \X Nat : ss[1] < ss[2]}
<1>1. IsWellFoundedOn(less, Nat)
  BY NatLessThanWellFounded DEF OpToRel
<1>2. PICK m \in S : \A k \in S : ~(<<k, m>> \in less)
  <2> HIDE DEF less
  <2>1. QED
    BY <1>1, WFMin
<1>3. \A k \in S : k \in Nat /\ m \in Nat /\ ~(k < m)
  BY <1>2
<1>4. QED
  BY <1>3

-----------------------------------------------------------------------------
(***************************************************************************)
(* The free clusters: the types of the superblock.                         *)
(***************************************************************************)
Damages == SUBSET {"emptyCache", "depleted", "gaveBackPlace"}
Caches == [ref : [Slots -> Reference], idx : 0 .. CacheSize]
Superblocks == [ctotal : {CTotal}, cfree : Nat, rmidx : 0 .. BytesPerBlock,
                rcache : Caches, icache : Caches, map : SUBSET Nat, damage : Damages]
InsertionEnds(s) == \A j \in Slots : s.icache.ref[j] = NullReference <=> j >= s.icache.idx
IsSb(s) == s \in Superblocks /\ InsertionEnds(s)

LEMMA Sizes1 ==
  /\ CacheSize \in Nat \ {0} /\ BytesPerBlock \in Nat \ {0} /\ BitsPerByte \in Nat \ {0}
  /\ ReferencesPerBitmapBlock \in Nat \ {0}
  /\ NullReference \notin Nat /\ Slots \subseteq Nat
<1>1. \A a, b \in Nat \ {0} : a * b \in Nat \ {0}
  OBVIOUS
<1>2. QED
  BY <1>1, FreeClustersAssumption DEF ReferencesPerBitmapBlock, Slots

\* The numbers below a bound with a given quotient are finitely many.
LEMMA BlockFinite ==
  ASSUME NEW d \in Nat \ {0}, NEW c \in Nat
  PROVE  IsFiniteSet({p \in Nat : p \div d = c})
<1>1. \A p \in Nat : p \div d = c => p < (c + 1) * d
  OBVIOUS
<1>2. (c + 1) * d \in Nat
  OBVIOUS
<1> DEFINE m == (c + 1) * d
<1>3. IsFiniteSet(0 .. m)
  <2> HIDE DEF m
  <2>1. m \in Nat
    BY <1>2 DEF m
  <2>2. QED
    BY <2>1, FS_Interval
<1>4. {p \in Nat : p \div d = c} \subseteq 0 .. m
  <2> SUFFICES ASSUME NEW p \in Nat, p \div d = c PROVE p \in 0 .. m
    OBVIOUS
  <2>1. p < m
    BY <1>1
  <2> HIDE DEF m
  <2>2. m \in Nat
    BY <1>2 DEF m
  <2>3. QED
    BY <2>1, <2>2
<1>5. QED
  BY <1>3, <1>4, FS_Subset

\* In a finite set of numbers there is, for each place, one with as many below it.
Below(S, p) == {q \in S : q < p}
LEMMA Ranked ==
  ASSUME NEW S \in SUBSET Nat, IsFiniteSet(S), NEW k \in 1 .. Cardinality(S)
  PROVE  \E p \in S : Cardinality(Below(S, p)) = k - 1
<1> DEFINE n == Cardinality(S)
           rank == [p \in S |-> Cardinality(Below(S, p))]
<1>1. n \in Nat
  BY FS_CardinalityType
<1>2. \A p \in S : IsFiniteSet(Below(S, p)) /\ Cardinality(Below(S, p)) \in 0 .. n - 1
  <2> SUFFICES ASSUME NEW p \in S
               PROVE  IsFiniteSet(Below(S, p)) /\ Cardinality(Below(S, p)) \in 0 .. n - 1
    OBVIOUS
  <2>1. Below(S, p) \subseteq S /\ p \notin Below(S, p)
    BY DEF Below
  <2>2. IsFiniteSet(Below(S, p)) /\ Cardinality(Below(S, p)) <= n /\ Cardinality(Below(S, p)) \in Nat
    BY <2>1, FS_Subset, FS_CardinalityType
  <2>3. Cardinality(Below(S, p)) # n
    BY <2>1, FS_Subset
  <2>4. QED
    BY <1>1, <2>2, <2>3
<1>3. \A p, q \in S : p < q => Cardinality(Below(S, p)) # Cardinality(Below(S, q))
  <2> SUFFICES ASSUME NEW p \in S, NEW q \in S, p < q
               PROVE  Cardinality(Below(S, p)) # Cardinality(Below(S, q))
    OBVIOUS
  <2>1. Below(S, p) \subseteq Below(S, q) /\ p \in Below(S, q) /\ p \notin Below(S, p)
    <3>1. \A r \in S : r < p => r < q
      <4> SUFFICES ASSUME NEW r \in S, r < p PROVE r < q
        OBVIOUS
      <4>1. r \in Nat /\ p \in Nat /\ q \in Nat
        OBVIOUS
      <4>2. QED
        BY <4>1
    <3>2. ~(p < p)
      <4>1. p \in Nat
        OBVIOUS
      <4>2. QED
        BY <4>1
    <3>3. QED
      BY <3>1, <3>2 DEF Below
  <2>2. QED
    BY <1>2, <2>1, FS_Subset
<1>4. rank \in [S -> 0 .. n - 1] /\ \A p, q \in S : rank[p] = rank[q] => p = q
  <2>1. ASSUME NEW p \in S, NEW q \in S, p # q
        PROVE  p < q \/ q < p
    <3>1. p \in Nat /\ q \in Nat
      OBVIOUS
    <3>2. QED
      BY <2>1, <3>1
  <2>2. \A p \in S : rank[p] = Cardinality(Below(S, p))
    OBVIOUS
  <2>3. rank \in [S -> 0 .. n - 1]
    BY <1>2
  <2> HIDE DEF rank
  <2>4. ASSUME NEW p \in S, NEW q \in S, p # q
        PROVE  rank[p] # rank[q]
    <3>1. p < q \/ q < p
      BY <2>1, <2>4
    <3>2. rank[p] = Cardinality(Below(S, p)) /\ rank[q] = Cardinality(Below(S, q))
      BY <2>2
    <3>3. QED
      BY <1>3, <3>1, <3>2
  <2>5. QED
    BY <2>3, <2>4
<1>5. IsFiniteSet(0 .. n - 1) /\ Cardinality(0 .. n - 1) = n
  <2> HIDE DEF n
  <2>1. n - 1 \in Int /\ 0 \in Int /\ (0 > n - 1 => n = 0) /\ n - 1 - 0 + 1 = n
    BY <1>1
  <2>2. QED
    BY <2>1, FS_Interval
<1> HIDE DEF rank
<1>7. \A x \in 0 .. n - 1 : \E p \in S : rank[p] = x
  <2>1. rank \in Injection(S, 0 .. n - 1)
    BY <1>4 DEF Injection, IsInjective
  <2>2. rank \in Surjection(S, 0 .. n - 1)
    BY <1>5, <2>1, FS_Injection
  <2>3. QED
    BY <2>2 DEF Surjection
<1>8. QED
  BY <1>1, <1>7 DEF rank

\* What soReplenish takes from the bitmap: as many ones as fit, each once, in order.
LEMMA TakenIs ==
  ASSUME NEW s \in Superblocks
  PROVE  \E n \in 0 .. CacheSize :
            /\ Taken(s) = [k \in 1 .. n |-> Taken(s)[k]] /\ Len(Taken(s)) = n
            /\ \A k \in 1 .. n : Taken(s)[k] \in s.map /\ Taken(s)[k] \in Nat
            /\ \A k, m \in 1 .. n : Taken(s)[k] = Taken(s)[m] => k = m
<1> DEFINE here == {p \in s.map : /\ BlockOf(p) = s.rmidx \div BytesPerBlock
                                  /\ ByteOf(p) >= s.rmidx}
           n == IF Cardinality(here) < CacheSize THEN Cardinality(here) ELSE CacheSize
           at(k) == CHOOSE p \in here : Cardinality({q \in here : q < p}) = k - 1
<1>1. s.map \subseteq Nat /\ s.rmidx \in Nat
  BY Sizes1 DEF Superblocks
<1>2. IsFiniteSet(here)
  <2>1. s.rmidx \div BytesPerBlock \in Nat
    BY <1>1, Sizes1
  <2> DEFINE c == s.rmidx \div BytesPerBlock
             block == {p \in Nat : p \div ReferencesPerBitmapBlock = c}
  <2>2. here \subseteq block
    BY <1>1 DEF BlockOf
  <2>3. IsFiniteSet(block)
    <3> HIDE DEF c
    <3>1. c \in Nat
      BY <2>1 DEF c
    <3>2. QED
      BY <3>1, Sizes1, BlockFinite
  <2> HIDE DEF here, block
  <2>4. QED
    BY <2>2, <2>3, FS_Subset
<1>3. Cardinality(here) \in Nat /\ here \in SUBSET Nat
  BY <1>1, <1>2, FS_CardinalityType
<1>4. Taken(s) = [k \in 1 .. n |-> at(k)]
  BY Zenon DEF Taken
<1> HIDE DEF here
<1>5. n \in 0 .. CacheSize /\ n <= Cardinality(here)
  BY <1>3, Sizes1
<1>6. ASSUME NEW k \in 1 .. n
      PROVE  at(k) \in here /\ Cardinality(Below(here, at(k))) = k - 1
  <2>1. k \in 1 .. Cardinality(here)
    BY <1>3, <1>5
  <2>2. \E p \in here : Cardinality(Below(here, p)) = k - 1
    BY <1>2, <1>3, <2>1, Ranked
  <2>3. QED
    BY <2>2 DEF Below
<1> HIDE DEF n, at
<1>7. /\ Taken(s) = [k \in 1 .. n |-> Taken(s)[k]] /\ Len(Taken(s)) = n
      /\ \A k \in 1 .. n : Taken(s)[k] = at(k)
  <2>1. n \in Nat
    BY <1>5
  <2>2. QED
    BY <1>4, <2>1
<1>8. \A k \in 1 .. n : Taken(s)[k] \in s.map
  BY <1>6, <1>7 DEF here
<1>9. ASSUME NEW k \in 1 .. n, NEW m \in 1 .. n, Taken(s)[k] = Taken(s)[m]
      PROVE  k = m
  <2>1. k - 1 = m - 1
    BY <1>6, <1>7, <1>9
  <2>2. n \in Nat
    BY <1>5
  <2>3. QED
    BY <2>1, <2>2
<1>10. QED
  BY <1>1, <1>5, <1>7, <1>8, <1>9

\* The retrieval cache as memmove leaves it, when i references t have been read.
Filled(s, t, i) == [j \in Slots |-> IF j < i THEN t[j + 1] % ReferencesPerBitmapBlock
                                            ELSE s.rcache.ref[j]]
Moved(f, i) == [j \in Slots |-> IF j < i THEN f[CacheSize - i + j] ELSE f[j]]

LEMMA BitmapTypes ==
  ASSUME NEW s \in Superblocks
  PROVE  \E n \in 0 .. CacheSize :
            LET t == Taken(s) IN
            /\ Len(t) = n /\ DOMAIN t = 1 .. n
            /\ \A k \in 1 .. n : t[k] \in s.map /\ t[k] \in Nat
            /\ \A k, m \in 1 .. n : t[k] = t[m] => k = m
            /\ FromBitmap(s) \in Superblocks
            /\ FromBitmap(s).map = s.map \ Range(t)
            /\ FromBitmap(s).rcache = [ref |-> Moved(Filled(s, t, n), n), idx |-> CacheSize - n]
            /\ FromBitmap(s).icache = s.icache /\ FromBitmap(s).damage = s.damage
            /\ FromBitmap(s).cfree = s.cfree
<1> DEFINE t == Taken(s)
<1>1. PICK n \in 0 .. CacheSize :
            /\ t = [k \in 1 .. n |-> t[k]] /\ Len(t) = n
            /\ \A k \in 1 .. n : t[k] \in s.map /\ t[k] \in Nat
            /\ \A k, m \in 1 .. n : t[k] = t[m] => k = m
  BY TakenIs
<1> HIDE DEF t
<1> DEFINE index == IF n = CacheSize THEN (ByteOf(t[n]) % BytesPerBlock) + 1 ELSE BytesPerBlock
           f == Filled(s, t, n)
           read == [s EXCEPT !.map = @ \ Range(t), !.rcache.ref = f]
           rm == IF word(read, index - 1) # 0 THEN index - 1 ELSE index
           r == [s EXCEPT !.map = s.map \ Range(t), !.rmidx = rm,
                          !.rcache = [ref |-> Moved(f, n), idx |-> CacheSize - n]]
<1>2. f \in [Slots -> Reference]
  <2>1. \A j \in Slots : s.rcache.ref[j] \in Reference
    BY DEF Superblocks, Caches
  <2>2. \A j \in Slots : j < n => t[j + 1] \in Nat
    BY <1>1 DEF Slots
  <2>3. \A a \in Nat, b \in Nat \ {0} : a % b \in Nat
    OBVIOUS
  <2>4. \A j \in Slots : j < n => t[j + 1] % ReferencesPerBitmapBlock \in Nat
    BY <2>2, <2>3, Sizes1
  <2>5. QED
    BY <2>1, <2>4 DEF Filled, Reference
<1>3. index \in 1 .. BytesPerBlock
  <2>1. CASE n = CacheSize
    <3>1. t[n] \in Nat
      BY <1>1, <2>1, Sizes1
    <3>2. ByteOf(t[n]) \in Nat
      BY <3>1, Sizes1 DEF ByteOf
    <3>3. ByteOf(t[n]) % BytesPerBlock \in 0 .. BytesPerBlock - 1
      BY <3>2, Sizes1
    <3>4. QED
      BY <2>1, <3>3, Sizes1
  <2>2. CASE n # CacheSize
    BY <2>2, Sizes1
  <2>3. QED
    BY <2>1, <2>2
<1>4. rm \in 0 .. BytesPerBlock
  <2> HIDE DEF index, read
  <2>1. QED
    BY <1>3, Sizes1
<1>5. Moved(f, n) \in [Slots -> Reference] /\ CacheSize - n \in 0 .. CacheSize
  <2> HIDE DEF f
  <2>1. \A j \in Slots : j < n => CacheSize - n + j \in Slots
    BY Sizes1 DEF Slots
  <2>2. QED
    BY <1>2, <2>1, Sizes1 DEF Moved
<1>6. FromBitmap(s) = r
  <2>1. [j \in Slots |-> IF j < n THEN t[j + 1] % ReferencesPerBitmapBlock
                                  ELSE s.rcache.ref[j]] = f
    BY DEF Filled
  <2>2. [j \in Slots |-> IF j < n THEN f[CacheSize - n + j] ELSE f[j]] = Moved(f, n)
    BY DEF Moved
  <2>3. FromBitmap(s) = [read EXCEPT !.rmidx = rm, !.rcache = [ref |-> Moved(f, n), idx |-> CacheSize - n]]
    <3> DEFINE G(i) ==
          LET ind == IF i = CacheSize THEN (ByteOf(t[i]) % BytesPerBlock) + 1 ELSE BytesPerBlock
              ff == [j \in Slots |-> IF j < i THEN t[j + 1] % ReferencesPerBitmapBlock
                                              ELSE s.rcache.ref[j]]
              rd == [s EXCEPT !.map = @ \ Range(t), !.rcache.ref = ff]
          IN [rd EXCEPT !.rmidx = IF word(rd, ind - 1) # 0 THEN ind - 1 ELSE ind,
                        !.rcache = [ref |-> [j \in Slots |-> IF j < i THEN ff[CacheSize - i + j]
                                                                      ELSE ff[j]],
                                    idx |-> CacheSize - i]]
    <3>1. FromBitmap(s) = G(Len(t))
      BY DEF FromBitmap, t
    <3>2. G(Len(t)) = G(n)
      <4> HIDE DEF G
      <4>1. QED
        BY <1>1
    <3>3. G(n) = [read EXCEPT !.rmidx = rm, !.rcache = [ref |-> Moved(f, n), idx |-> CacheSize - n]]
      BY Zenon DEF Filled, Moved
    <3> HIDE DEF G, read, rm, f
    <3>4. QED
      BY <3>1, <3>2, <3>3
  <2> HIDE DEF f, rm
  <2>4. [read EXCEPT !.rmidx = rm, !.rcache = [ref |-> Moved(f, n), idx |-> CacheSize - n]] = r
    BY DEF Superblocks
  <2>5. QED
    BY <2>3, <2>4
<1> HIDE DEF rm, f
<1>7. /\ r \in Superblocks /\ r.map = s.map \ Range(t)
      /\ r.rcache = [ref |-> Moved(f, n), idx |-> CacheSize - n]
      /\ r.icache = s.icache /\ r.damage = s.damage /\ r.cfree = s.cfree
  BY <1>4, <1>5 DEF Superblocks, Caches
<1> HIDE DEF r
<1>8. DOMAIN t = 1 .. n
  BY <1>1
<1>9. QED
  BY <1>1, <1>6, <1>7, <1>8 DEF f, t

\* The insertion cache moves to the end of the retrieval cache.
LEMMA InsertionTypes ==
  ASSUME NEW s, IsSb(s)
  PROVE  LET n == s.icache.idx
             r == FromInsertionCache(s)
         IN /\ n \in 0 .. CacheSize /\ IsSb(r)
            /\ r.map = s.map /\ r.damage = s.damage /\ r.cfree = s.cfree
            /\ r.rcache.idx = CacheSize - n /\ r.icache.idx = 0
            /\ \A j \in Slots : r.rcache.ref[j] = IF j >= CacheSize - n
                                                  THEN s.icache.ref[j - (CacheSize - n)]
                                                  ELSE s.rcache.ref[j]
<1> DEFINE n == s.icache.idx
           rc == [ref |-> [j \in Slots |-> IF j >= CacheSize - n THEN s.icache.ref[j - (CacheSize - n)]
                                                                 ELSE s.rcache.ref[j]],
                  idx |-> CacheSize - n]
           ic == [ref |-> [j \in Slots |-> IF j < n THEN NullReference ELSE s.icache.ref[j]], idx |-> 0]
           r == [s EXCEPT !.rcache = rc, !.icache = ic]
<1>1. n \in 0 .. CacheSize /\ s \in Superblocks /\ InsertionEnds(s)
  BY DEF IsSb, Superblocks, Caches
<1>2. /\ s.rcache.ref \in [Slots -> Reference] /\ s.icache.ref \in [Slots -> Reference]
      /\ \A j \in Slots : j >= CacheSize - n => j - (CacheSize - n) \in Slots
  BY <1>1, Sizes1 DEF Superblocks, Caches, Slots
<1>3. rc \in Caches
  <2>1. CacheSize - n \in 0 .. CacheSize
    BY <1>1, Sizes1
  <2> HIDE DEF n
  <2>2. QED
    BY <1>2, <2>1 DEF Caches
<1>4. ic \in Caches /\ \A j \in Slots : ic.ref[j] = NullReference
  <2> HIDE DEF n
  <2>1. \A j \in Slots : ic.ref[j] = IF j < n THEN NullReference ELSE s.icache.ref[j]
    OBVIOUS
  <2>2. \A j \in Slots : ~(j < n) => s.icache.ref[j] = NullReference
    <3>1. \A j \in Slots : ~(j < n) => j >= n
      BY <1>1, Sizes1
    <3>2. QED
      BY <1>1, <3>1 DEF InsertionEnds, n
  <2>3. \A j \in Slots : ic.ref[j] = NullReference
    BY <2>1, <2>2
  <2>4. 0 \in 0 .. CacheSize
    BY Sizes1
  <2>5. QED
    BY <2>3, <2>4 DEF Caches, Reference
<1>5. FromInsertionCache(s) = r
  BY Zenon DEF FromInsertionCache
<1>6. r \in Superblocks /\ r.rcache = rc /\ r.icache = ic /\ r.map = s.map /\ r.damage = s.damage
      /\ r.cfree = s.cfree
  <2> HIDE DEF rc, ic
  <2>1. QED
    BY <1>1, <1>3, <1>4 DEF Superblocks
<1>7. InsertionEnds(r)
  <2>1. r.icache.idx = 0 /\ \A j \in Slots : r.icache.ref[j] = NullReference /\ j >= 0
    BY <1>4, <1>6, Sizes1 DEF Slots
  <2> HIDE DEF r
  <2>2. QED
    BY <2>1 DEF InsertionEnds
<1>8. r.rcache.idx = CacheSize - n /\ r.icache.idx = 0
      /\ \A j \in Slots : r.rcache.ref[j] = IF j >= CacheSize - n THEN s.icache.ref[j - (CacheSize - n)]
                                            ELSE s.rcache.ref[j]
  <2>1. r.rcache = rc /\ r.icache = ic
    BY <1>6
  <2> HIDE DEF r
  <2>2. QED
    BY <2>1
<1> HIDE DEF r
<1>9. QED
  BY <1>1, <1>5, <1>6, <1>7, <1>8 DEF IsSb, n

LEMMA ReplenishTypes ==
  ASSUME NEW s, IsSb(s)
  PROVE  /\ IsSb(soReplenish(s)) /\ soReplenish(s).cfree = s.cfree
         /\ soReplenish(s).damage = s.damage
<1>1. IsSb(FromBitmap(s)) /\ FromBitmap(s).cfree = s.cfree /\ FromBitmap(s).damage = s.damage
  <2>1. FromBitmap(s).icache = s.icache
    BY BitmapTypes DEF IsSb
  <2>2. QED
    BY <2>1, BitmapTypes DEF IsSb, InsertionEnds
<1>2. soReplenish(s) \in {s, FromInsertionCache(s), FromBitmap(s)}
  <2>1. s.rcache.idx \in Nat /\ CacheSize \in Nat
    BY Sizes1 DEF IsSb, Superblocks, Caches
  <2>2. s.rcache.idx < CacheSize \/ s.rcache.idx >= CacheSize
    BY <2>1
  <2>3. QED
    BY <2>2 DEF soReplenish
<1>3. QED
  BY <1>1, <1>2, InsertionTypes

LEMMA RetrieveTypes ==
  ASSUME NEW s, IsSb(s), s.cfree # 0
  PROVE  LET a == Retrieve(s) IN
         /\ IsSb(a.sb) /\ a.cn \in Reference
         /\ a.sb.cfree = s.cfree - 1 /\ s.damage \subseteq a.sb.damage
         /\ a.sb.damage = {} =>
              /\ s.rcache.idx \in Slots /\ a.cn = s.rcache.ref[s.rcache.idx]
              /\ a.sb.map = s.map /\ a.sb.icache = s.icache
              /\ a.sb.rcache.idx = s.rcache.idx + 1
              /\ a.sb.rcache.ref = [s.rcache.ref EXCEPT ![s.rcache.idx] = NullReference]
<1> DEFINE k == s.rcache.idx
           full == [s EXCEPT !.rcache.ref[k] = NullReference, !.rcache.idx = k + 1, !.cfree = @ - 1]
           empty == [s EXCEPT !.rcache.idx = 0, !.cfree = @ - 1, !.damage = @ \union {"emptyCache"}]
<1>1. s \in Superblocks /\ InsertionEnds(s) /\ k \in 0 .. CacheSize /\ s.cfree - 1 \in Nat
  BY DEF IsSb, Superblocks, Caches
<1>2. s.rcache.ref \in [Slots -> Reference] /\ s.rcache \in Caches
  BY <1>1 DEF Superblocks, Caches
<1>3. CASE k < CacheSize
  <2>1. k \in Slots /\ k + 1 \in 0 .. CacheSize
    BY <1>1, <1>3, Sizes1 DEF Slots
  <2>2. Retrieve(s) = [cn |-> s.rcache.ref[k], sb |-> full]
    <3>1. word(s, k) = s.rcache.ref[k]
      BY <1>1, <1>3, Sizes1 DEF word
    <3>2. Retrieve(s) = [cn |-> word(s, k), sb |-> full]
      BY <1>3, Zenon DEF Retrieve
    <3> HIDE DEF full
    <3>3. QED
      BY <3>1, <3>2
  <2>3. [s.rcache.ref EXCEPT ![k] = NullReference] \in [Slots -> Reference]
    BY <1>2 DEF Reference
  <2>4. /\ full \in Superblocks /\ full.icache = s.icache /\ full.map = s.map
        /\ full.damage = s.damage /\ full.cfree = s.cfree - 1 /\ full.rcache.idx = k + 1
        /\ full.rcache.ref = [s.rcache.ref EXCEPT ![k] = NullReference]
    <3> HIDE DEF k
    <3>1. QED
      BY <1>1, <1>2, <2>1, <2>3 DEF Superblocks, Caches
  <2> HIDE DEF full
  <2>5. IsSb(full)
    BY <1>1, <2>4 DEF IsSb, InsertionEnds
  <2>6. s.rcache.ref[k] \in Reference
    BY <1>2, <2>1
  <2>7. QED
    BY <2>1, <2>2, <2>4, <2>5, <2>6
<1>4. CASE ~(k < CacheSize)
  <2>1. k = CacheSize
    BY <1>1, <1>4, Sizes1
  <2>2. Retrieve(s) = [cn |-> k, sb |-> empty]
    BY <1>4, <2>1, Sizes1 DEF Retrieve, word
  <2>3. 0 \in 0 .. CacheSize
    BY Sizes1
  <2>4. /\ empty \in Superblocks /\ empty.icache = s.icache
        /\ empty.damage = s.damage \union {"emptyCache"} /\ empty.cfree = s.cfree - 1
    <3> HIDE DEF k
    <3>1. QED
      BY <1>1, <1>2, <2>3 DEF Superblocks, Caches, Damages
  <2> HIDE DEF empty
  <2>5. IsSb(empty)
    BY <1>1, <2>4 DEF IsSb, InsertionEnds
  <2>6. k \in Reference
    BY <1>1 DEF Reference
  <2>7. QED
    BY <2>2, <2>4, <2>5, <2>6
<1>5. QED
  BY <1>3, <1>4

\* soAllocCluster keeps the types, takes one from the count, and forgets no damage.
LEMMA AllocTypes ==
  ASSUME NEW s, IsSb(s), s.cfree # 0
  PROVE  LET a == soAllocCluster(s) IN
         /\ IsSb(a.sb) /\ a.cn \in Reference
         /\ a.sb.cfree = s.cfree - 1 /\ s.damage \subseteq a.sb.damage
<1> DEFINE r == soReplenish(s)
<1>1. IsSb(r) /\ r.cfree # 0 /\ r.cfree = s.cfree /\ r.damage = s.damage
  BY ReplenishTypes
<1>2. soAllocCluster(s) = Retrieve(r)
  BY DEF soAllocCluster
<1> HIDE DEF r
<1>3. QED
  BY <1>1, <1>2, RetrieveTypes

LEMMA DepleteTypes ==
  ASSUME NEW s, IsSb(s)
  PROVE  LET r == soDeplete(s) IN
         /\ IsSb(r) /\ r.cfree = s.cfree /\ s.damage \subseteq r.damage /\ r.icache.idx = 0
         /\ r.damage = {} => s.icache.idx = 0 /\ r.map = s.map /\ r.rcache = s.rcache
<1> DEFINE ref == s.icache.ref
           full == {j \in Slots : j < s.icache.idx /\ ref[j] # NullReference}
           last == {j \in full : \A k \in full : k > j => DepletedByte(ref[k]) # DepletedByte(ref[j])}
           map == {p \in s.map : \A j \in full : ByteOf(p) # DepletedByte(ref[j])}
                  \union {DepletedBit(ref[j]) : j \in last}
           ic == [ref |-> [j \in Slots |-> IF j < s.icache.idx THEN NullReference ELSE ref[j]], idx |-> 0]
           dam == IF full = {} THEN s.damage ELSE s.damage \union {"depleted"}
           r == [s EXCEPT !.map = map, !.icache = ic, !.damage = dam]
<1>1. s \in Superblocks /\ InsertionEnds(s) /\ s.icache.idx \in 0 .. CacheSize
      /\ ref \in [Slots -> Reference] /\ s.map \subseteq Nat /\ s.damage \in Damages
  BY DEF IsSb, Superblocks, Caches
<1>2. soDeplete(s) = r
  BY Zenon DEF soDeplete
<1>3. map \subseteq Nat
  <2>1. \A j \in full : ref[j] \in Nat
    BY <1>1 DEF Reference
  <2>2. \A a \in Nat, d \in Nat \ {0} : a \div d \in Nat /\ a % d \in Nat
    OBVIOUS
  <2>3. \A a, b \in Nat : a * b \in Nat /\ a + b \in Nat
    OBVIOUS
  <2>4. ASSUME NEW a \in Nat PROVE DepletedBit(a) \in Nat
    <3>1. BlockOf(a) \in Nat
      BY <2>2, Sizes1 DEF BlockOf
    <3>2. BlockOf(a) \div BitsPerByte \in Nat /\ BlockOf(a) * BytesPerBlock \in Nat
      BY <2>2, <2>3, <3>1, Sizes1
    <3>3. DepletedByte(a) \in Nat
      BY <2>3, <3>2 DEF DepletedByte
    <3>4. DepletedByte(a) * BitsPerByte \in Nat /\ a % BitsPerByte \in Nat
      BY <2>2, <2>3, <3>3, Sizes1
    <3>5. QED
      BY <2>3, <3>4 DEF DepletedBit
  <2> HIDE DEF full
  <2>5. \A j \in last : DepletedBit(ref[j]) \in Nat
    BY <2>1, <2>4
  <2>6. QED
    BY <1>1, <2>5
<1>4. ic \in Caches /\ (\A j \in Slots : ic.ref[j] = NullReference) /\ ic.idx = 0
  <2>1. \A j \in Slots : ~(j < s.icache.idx) => ref[j] = NullReference
    <3> DEFINE m == s.icache.idx
    <3>1. m \in Nat
      BY <1>1, Sizes1
    <3> HIDE DEF m
    <3>2. \A j \in Slots : ~(j < m) => j >= m
      BY <3>1 DEF Slots
    <3>3. QED
      BY <1>1, <3>2 DEF InsertionEnds, m
  <2>2. \A j \in Slots : ic.ref[j] = NullReference
    BY <2>1
  <2>3. 0 \in 0 .. CacheSize
    BY Sizes1
  <2>4. QED
    BY <2>2, <2>3 DEF Caches, Reference
<1>5. dam \in Damages /\ s.damage \subseteq dam
  BY <1>1 DEF Damages
<1>6. dam = {} => full = {} /\ map = s.map
  BY <1>1
<1>7. full = {} => s.icache.idx = 0
  <2>1. ASSUME s.icache.idx # 0 PROVE 0 \in full
    <3>1. 0 \in Slots /\ ~(0 >= s.icache.idx) /\ 0 < s.icache.idx
      BY <1>1, <2>1, Sizes1 DEF Slots
    <3>2. QED
      BY <1>1, <3>1 DEF InsertionEnds
  <2>2. QED
    BY <2>1
<1> HIDE DEF full, map, ic, dam
<1>8. r \in Superblocks /\ r.map = map /\ r.icache = ic /\ r.damage = dam /\ r.cfree = s.cfree
      /\ r.rcache = s.rcache
  BY <1>1, <1>3, <1>4, <1>5 DEF Superblocks
<1> HIDE DEF r
<1>9. InsertionEnds(r)
  <2>1. \A j \in Slots : j >= 0
    BY Sizes1 DEF Slots
  <2>2. QED
    BY <1>4, <1>8, <2>1 DEF InsertionEnds
<1>10. QED
  BY <1>2, <1>4, <1>5, <1>6, <1>7, <1>8, <1>9 DEF IsSb

LEMMA CacheAdd ==
  ASSUME NEW c \in Caches, NEW k \in Slots, NEW x \in Reference, c.idx + 1 \in 0 .. CacheSize
  PROVE  [c EXCEPT !.ref[k] = x, !.idx = @ + 1]
            = [ref |-> [c.ref EXCEPT ![k] = x], idx |-> c.idx + 1]
<1> DEFINE e == [c EXCEPT !.ref[k] = x, !.idx = @ + 1]
           g == [c.ref EXCEPT ![k] = x]
<1>1. g \in [Slots -> Reference]
  BY DEF Caches
<1>2. e.ref = g /\ e.idx = c.idx + 1
  BY DEF Caches
<1> HIDE DEF g
<1>3. e \in Caches
  BY <1>1, <1>2 DEF Caches
<1> HIDE DEF e
<1>4. e = [ref |-> g, idx |-> c.idx + 1]
  BY <1>2, <1>3 DEF Caches
<1>5. QED
  BY <1>4 DEF e, g

LEMMA InsertTypes ==
  ASSUME NEW s, IsSb(s), s.icache.idx < CacheSize, NEW cn \in Nat
  PROVE  LET r == Insert(s, cn) IN
         /\ IsSb(r) /\ r.cfree = s.cfree + 1 /\ r.damage = s.damage /\ r.map = s.map
         /\ r.rcache = s.rcache /\ r.icache.idx = s.icache.idx + 1
         /\ s.icache.idx \in Slots
         /\ r.icache.ref = [s.icache.ref EXCEPT ![s.icache.idx] = cn]
<1> DEFINE k == s.icache.idx
           r == Insert(s, cn)
<1>1. s \in Superblocks /\ InsertionEnds(s) /\ s.icache \in Caches /\ k \in Slots
      /\ k + 1 \in 0 .. CacheSize /\ s.icache.ref \in [Slots -> Reference] /\ cn # NullReference
  BY Sizes1 DEF IsSb, Superblocks, Caches, Slots
<1>2. [s.icache.ref EXCEPT ![k] = cn] \in [Slots -> Reference]
  BY <1>1 DEF Reference
<1>3. /\ r \in Superblocks /\ r.cfree = s.cfree + 1 /\ r.damage = s.damage /\ r.map = s.map
      /\ r.rcache = s.rcache /\ r.icache.idx = k + 1
      /\ r.icache.ref = [s.icache.ref EXCEPT ![k] = cn]
  <2> HIDE DEF k
  <2>1. r = [s EXCEPT !.cfree = @ + 1, !.icache.ref[k] = cn, !.icache.idx = @ + 1]
    BY DEF Insert, k
  <2> HIDE DEF r
  <2>2. s.icache.idx = k
    BY DEF k
  <2> DEFINE ic == [ref |-> [s.icache.ref EXCEPT ![k] = cn], idx |-> k + 1]
  <2>3. ic \in Caches
    BY <1>1, <1>2 DEF Caches
  <2>4. [s.icache EXCEPT !.ref[k] = cn, !.idx = @ + 1] = ic
    <3>1. k \in Slots /\ s.icache.idx + 1 \in 0 .. CacheSize /\ cn \in Reference
      BY <1>1, <2>2 DEF Reference
    <3>2. QED
      BY <1>1, <2>2, <3>1, CacheAdd
  <2>5. r = [s EXCEPT !.cfree = s.cfree + 1, !.icache = [s.icache EXCEPT !.ref[k] = cn, !.idx = @ + 1]]
    BY <1>1, <2>1 DEF Superblocks
  <2>6. s.cfree + 1 \in Nat
    BY <1>1 DEF Superblocks
  <2> HIDE DEF ic
  <2>7. /\ r \in Superblocks /\ r.cfree = s.cfree + 1 /\ r.damage = s.damage /\ r.map = s.map
        /\ r.rcache = s.rcache /\ r.icache = ic
    BY <1>1, <2>3, <2>4, <2>5, <2>6 DEF Superblocks
  <2>8. QED
    BY <2>7 DEF ic
<1> HIDE DEF r
<1>4. InsertionEnds(r)
  <2> SUFFICES ASSUME NEW j \in Slots PROVE r.icache.ref[j] = NullReference <=> j >= k + 1
    BY <1>3 DEF InsertionEnds
  <2>1. CASE j = k
    <3>1. ~(k >= k + 1)
      <4>1. k \in Nat
        BY <1>1, Sizes1
      <4>2. QED
        BY <4>1
    <3>2. QED
      BY <1>1, <1>3, <2>1, <3>1
  <2>2. CASE j # k
    <3>1. j >= k <=> j >= k + 1
      BY <1>1, <2>2, Sizes1
    <3>2. r.icache.ref[j] = s.icache.ref[j]
      BY <1>1, <1>3, <2>2
    <3>3. QED
      BY <1>1, <3>1, <3>2 DEF InsertionEnds
  <2>3. QED
    BY <2>1, <2>2
<1>5. QED
  BY <1>1, <1>3, <1>4 DEF IsSb, r

\* soFreeCluster keeps the types, adds one to the count, and forgets no damage.
LEMMA FreeTypes ==
  ASSUME NEW s, IsSb(s), NEW cn \in Nat
  PROVE  LET r == soFreeCluster(s, cn) IN
         /\ IsSb(r) /\ r.cfree = s.cfree + 1 /\ s.damage \subseteq r.damage
         /\ r.damage = {} =>
              /\ r.map = s.map /\ r.rcache = s.rcache
              /\ s.icache.idx \in Slots /\ r.icache.idx = s.icache.idx + 1
              /\ r.icache.ref = [s.icache.ref EXCEPT ![s.icache.idx] = cn]
<1>1. s.icache.idx \in 0 .. CacheSize
  BY DEF IsSb, Superblocks, Caches
<1>2. CASE s.icache.idx = CacheSize
  <2> DEFINE d == soDeplete(s)
  <2>1. /\ IsSb(d) /\ d.cfree = s.cfree /\ s.damage \subseteq d.damage /\ d.icache.idx = 0
        /\ d.damage = {} => s.icache.idx = 0
    BY DepleteTypes
  <2>2. soFreeCluster(s, cn) = Insert(d, cn)
    BY <1>2 DEF soFreeCluster
  <2> HIDE DEF d
  <2>3. 0 < CacheSize
    BY Sizes1
  <2>4. d.damage # {}
    BY <1>2, <2>1, <2>3
  <2>5. IsSb(Insert(d, cn)) /\ Insert(d, cn).cfree = d.cfree + 1 /\ Insert(d, cn).damage = d.damage
    BY <2>1, <2>3, InsertTypes
  <2>6. QED
    BY <2>1, <2>2, <2>4, <2>5
<1>3. CASE s.icache.idx # CacheSize
  <2>1. s.icache.idx < CacheSize
    BY <1>1, <1>3, Sizes1
  <2>2. soFreeCluster(s, cn) = Insert(s, cn)
    BY <1>3 DEF soFreeCluster
  <2>3. /\ IsSb(Insert(s, cn)) /\ Insert(s, cn).cfree = s.cfree + 1
        /\ Insert(s, cn).damage = s.damage /\ Insert(s, cn).map = s.map
        /\ Insert(s, cn).rcache = s.rcache /\ s.icache.idx \in Slots
        /\ Insert(s, cn).icache.idx = s.icache.idx + 1
        /\ Insert(s, cn).icache.ref = [s.icache.ref EXCEPT ![s.icache.idx] = cn]
    BY <2>1, InsertTypes
  <2>4. QED
    BY <2>2, <2>3
<1>4. QED
  BY <1>2, <1>3

-----------------------------------------------------------------------------
(***************************************************************************)
(* The free clusters, until something goes wrong: each is in one place.    *)
(***************************************************************************)
Live(s) == {j \in Slots : j >= s.rcache.idx /\ s.rcache.ref[j] # NullReference}
Given(s) == {j \in Slots : j < s.icache.idx}
FreeSet(s) == s.map \union {s.rcache.ref[j] : j \in Live(s)} \union {s.icache.ref[j] : j \in Given(s)}

\* What soReplenish may leave at the start of the retrieval cache lies so far down that it is
\* never moved to where it would count.
PoolOK(s) ==
    /\ s.map \subseteq 0 .. ReferencesPerBitmapBlock - 1
    /\ \A j \in Slots : j < s.rcache.idx /\ s.rcache.ref[j] # NullReference => 3 * j < CacheSize
    /\ \A j, k \in Live(s) : s.rcache.ref[j] = s.rcache.ref[k] => j = k
    /\ \A j, k \in Given(s) : s.icache.ref[j] = s.icache.ref[k] => j = k
    /\ \A j \in Live(s) : s.rcache.ref[j] \notin s.map
    /\ \A j \in Given(s) : s.icache.ref[j] \notin s.map
    /\ \A j \in Live(s), k \in Given(s) : s.rcache.ref[j] # s.icache.ref[k]

LEMMA SbTypes ==
  ASSUME NEW s, IsSb(s)
  PROVE  /\ s.rcache.idx \in 0 .. CacheSize /\ s.icache.idx \in 0 .. CacheSize
         /\ s.rcache.ref \in [Slots -> Reference] /\ s.icache.ref \in [Slots -> Reference]
         /\ s.map \subseteq Nat /\ s.cfree \in Nat /\ s.ctotal = CTotal /\ s.damage \in Damages
         /\ \A j \in Given(s) : s.icache.ref[j] \in Nat
         /\ \A j \in Slots : j \notin Given(s) => s.icache.ref[j] = NullReference
<1>1. s \in Superblocks /\ InsertionEnds(s)
  BY DEF IsSb
<1>2. /\ s.rcache.idx \in 0 .. CacheSize /\ s.icache.idx \in 0 .. CacheSize
      /\ s.rcache.ref \in [Slots -> Reference] /\ s.icache.ref \in [Slots -> Reference]
      /\ s.map \subseteq Nat /\ s.cfree \in Nat /\ s.ctotal = CTotal /\ s.damage \in Damages
  BY <1>1 DEF Superblocks, Caches
<1>3. \A j \in Slots : j >= s.icache.idx <=> ~(j < s.icache.idx)
  BY <1>2, Sizes1
<1>4. QED
  BY <1>1, <1>2, <1>3 DEF InsertionEnds, Given, Reference

\* The ones that are taken from the bitmap go to slots of their own, whatever memmove does.
LEMMA PoolFromBitmap ==
  ASSUME NEW s, IsSb(s), PoolOK(s), s.rcache.idx = CacheSize
  PROVE  PoolOK(FromBitmap(s)) /\ FreeSet(FromBitmap(s)) \subseteq FreeSet(s)
<1> DEFINE t == Taken(s)
           r == FromBitmap(s)
<1>1. PICK n \in 0 .. CacheSize :
            /\ DOMAIN t = 1 .. n
            /\ \A k \in 1 .. n : t[k] \in s.map /\ t[k] \in Nat
            /\ \A k, m \in 1 .. n : t[k] = t[m] => k = m
            /\ r.map = s.map \ Range(t)
            /\ r.rcache = [ref |-> Moved(Filled(s, t, n), n), idx |-> CacheSize - n]
            /\ r.icache = s.icache
  BY BitmapTypes DEF IsSb
<1> HIDE DEF t, r
<1>2. \A j \in Slots : s.rcache.ref[j] # NullReference => 3 * j < CacheSize
  <2>1. \A j \in Slots : j < CacheSize
    BY Sizes1 DEF Slots
  <2>2. QED
    BY <2>1 DEF PoolOK
<1> DEFINE old(j) == s.rcache.ref[j]
           filled(j) == IF j < n THEN t[j + 1] ELSE old(j)
           new(j) == IF j < n THEN filled(CacheSize - n + j) ELSE filled(j)
<1>3. /\ r.rcache.idx = CacheSize - n
      /\ \A j \in Slots : r.rcache.ref[j] = new(j)
  <2>1. \A k \in 1 .. n : t[k] % ReferencesPerBitmapBlock = t[k]
    <3>1. \A d \in Nat \ {0} : \A a \in 0 .. d - 1 : a % d = a
      OBVIOUS
    <3>2. QED
      BY <1>1, <3>1, Sizes1 DEF PoolOK
  <2>2. \A j \in Slots : j < n => j + 1 \in 1 .. n
    BY Sizes1 DEF Slots
  <2>3. \A j \in Slots : Filled(s, t, n)[j] = filled(j)
    BY <2>1, <2>2 DEF Filled
  <2>4. \A j \in Slots : j < n => CacheSize - n + j \in Slots
    BY Sizes1 DEF Slots
  <2> HIDE DEF filled
  <2>5. \A j \in Slots : Moved(Filled(s, t, n), n)[j] = new(j)
    BY <2>3, <2>4 DEF Moved
  <2>6. r.rcache.idx = CacheSize - n /\ r.rcache.ref = Moved(Filled(s, t, n), n)
    BY <1>1
  <2> HIDE DEF new
  <2>7. QED
    BY <2>5, <2>6
<1>4. \A j \in Slots : j < CacheSize - n /\ new(j) # NullReference => 3 * j < CacheSize
  <2> SUFFICES ASSUME NEW j \in Slots, j < CacheSize - n, new(j) # NullReference PROVE 3 * j < CacheSize
    OBVIOUS
  <2>1. j \in Nat /\ CacheSize \in Nat /\ n \in Nat /\ n <= CacheSize
    BY Sizes1 DEF Slots
  <2>2. CASE j < n /\ CacheSize - n + j < n
    BY <2>1, <2>2
  <2>3. CASE j < n /\ ~(CacheSize - n + j < n)
    <3>1. new(j) = old(CacheSize - n + j)
      BY <2>3
    <3>2. CacheSize - n + j \in Slots
      BY <2>1, <2>3 DEF Slots
    <3>3. 3 * (CacheSize - n + j) < CacheSize
      BY <1>2, <3>1, <3>2
    <3>4. QED
      BY <2>1, <3>3
  <2>4. CASE ~(j < n)
    BY <1>2, <2>4
  <2>5. QED
    BY <2>2, <2>3, <2>4
<1>5. \A j \in Slots : j >= CacheSize - n /\ new(j) # NullReference =>
         CacheSize - n + j + 1 \in 1 .. n /\ new(j) = t[CacheSize - n + j + 1]
  <2> SUFFICES ASSUME NEW j \in Slots, j >= CacheSize - n, new(j) # NullReference
               PROVE  CacheSize - n + j + 1 \in 1 .. n /\ new(j) = t[CacheSize - n + j + 1]
    OBVIOUS
  <2>1. j \in Nat /\ CacheSize \in Nat /\ n \in Nat /\ n <= CacheSize /\ CacheSize > 0
    BY Sizes1 DEF Slots
  <2>2. CASE j < n /\ CacheSize - n + j < n
    <3>1. new(j) = t[(CacheSize - n + j) + 1]
      BY <2>2
    <3> HIDE DEF new
    <3>2. CacheSize - n + j + 1 \in 1 .. n /\ (CacheSize - n + j) + 1 = CacheSize - n + j + 1
      BY <2>1, <2>2
    <3>3. QED
      BY <3>1, <3>2
  <2>3. CASE j < n /\ ~(CacheSize - n + j < n)
    <3>1. new(j) = old(CacheSize - n + j)
      BY <2>3
    <3>2. CacheSize - n + j \in Slots
      BY <2>1, <2>3 DEF Slots
    <3>3. 3 * (CacheSize - n + j) < CacheSize
      BY <1>2, <3>1, <3>2
    <3>4. QED
      BY <2>1, <2>3, <3>3
  <2>4. CASE ~(j < n)
    <3>1. 3 * j < CacheSize
      BY <1>2, <2>4
    <3>2. QED
      BY <2>1, <2>4, <3>1
  <2>5. QED
    BY <2>2, <2>3, <2>4
<1> HIDE DEF new
<1>6. \A j \in Live(r) : /\ j \in Slots /\ CacheSize - n + j + 1 \in 1 .. n
                         /\ r.rcache.ref[j] = t[CacheSize - n + j + 1]
  BY <1>3, <1>5 DEF Live
<1>7. Given(r) = Given(s)
  BY <1>1 DEF Given
<1>8. \A k \in 1 .. n : t[k] \in s.map /\ t[k] \notin r.map
  BY <1>1 DEF Range
<1>9. r.map \subseteq s.map
  BY <1>1
<1>10. \A j, k \in Live(r) : r.rcache.ref[j] = r.rcache.ref[k] => j = k
  <2> SUFFICES ASSUME NEW j \in Live(r), NEW k \in Live(r), r.rcache.ref[j] = r.rcache.ref[k]
               PROVE  j = k
    OBVIOUS
  <2> DEFINE a == CacheSize - n + j + 1
             b == CacheSize - n + k + 1
  <2>1. a = b
    <3>1. a \in 1 .. n /\ b \in 1 .. n /\ t[a] = t[b]
      BY <1>6
    <3> HIDE DEF a, b
    <3>2. QED
      BY <1>1, <3>1
  <2>2. j \in Nat /\ k \in Nat /\ CacheSize \in Nat /\ n \in Nat
    <3>1. j \in Slots /\ k \in Slots
      BY DEF Live
    <3>2. QED
      BY <3>1, Sizes1
  <2>3. QED
    BY <2>1, <2>2
<1>11. \A j \in Slots : j < r.rcache.idx /\ r.rcache.ref[j] # NullReference => 3 * j < CacheSize
  BY <1>3, <1>4
<1>12. PoolOK(r)
  BY <1>1, <1>6, <1>7, <1>8, <1>9, <1>10, <1>11 DEF PoolOK
<1>13. FreeSet(r) \subseteq FreeSet(s)
  BY <1>1, <1>6, <1>7, <1>8, <1>9 DEF FreeSet
<1>14. QED
  BY <1>12, <1>13 DEF r

LEMMA PoolFromInsertion ==
  ASSUME NEW s, IsSb(s), PoolOK(s), s.rcache.idx = CacheSize
  PROVE  PoolOK(FromInsertionCache(s)) /\ FreeSet(FromInsertionCache(s)) \subseteq FreeSet(s)
<1> DEFINE n == s.icache.idx
           r == FromInsertionCache(s)
<1>1. /\ n \in 0 .. CacheSize /\ IsSb(r) /\ r.map = s.map
      /\ r.rcache.idx = CacheSize - n /\ r.icache.idx = 0
      /\ \A j \in Slots : r.rcache.ref[j] = IF j >= CacheSize - n
                                            THEN s.icache.ref[j - (CacheSize - n)]
                                            ELSE s.rcache.ref[j]
  BY InsertionTypes
<1> HIDE DEF r, n
<1>2. Given(r) = {} /\ Given(s) = {j \in Slots : j < n}
  <2>1. \A j \in Slots : ~(j < 0)
    BY Sizes1 DEF Slots
  <2>2. QED
    BY <1>1, <2>1 DEF Given, n
<1>3. ASSUME NEW j \in Live(r)
      PROVE  /\ j \in Nat /\ j - (CacheSize - n) \in Given(s)
             /\ r.rcache.ref[j] = s.icache.ref[j - (CacheSize - n)]
  <2>1. j \in Slots /\ j >= CacheSize - n
    BY <1>1 DEF Live
  <2>2. j - (CacheSize - n) \in Slots /\ j - (CacheSize - n) < n /\ j \in Nat
    BY <1>1, <2>1, Sizes1 DEF Slots
  <2>3. QED
    BY <1>1, <1>2, <2>1, <2>2
<1>4. \A j, k \in Live(r) : r.rcache.ref[j] = r.rcache.ref[k] => j = k
  <2> SUFFICES ASSUME NEW j \in Live(r), NEW k \in Live(r), r.rcache.ref[j] = r.rcache.ref[k]
               PROVE  j = k
    OBVIOUS
  <2> DEFINE a == j - (CacheSize - n)
             b == k - (CacheSize - n)
  <2>1. a = b
    <3>1. a \in Given(s) /\ b \in Given(s) /\ s.icache.ref[a] = s.icache.ref[b]
      BY <1>3
    <3> HIDE DEF a, b
    <3>2. QED
      BY <3>1 DEF PoolOK
  <2>2. j \in Nat /\ k \in Nat /\ CacheSize \in Nat /\ n \in Nat
    BY <1>1, <1>3, Sizes1
  <2>3. QED
    BY <2>1, <2>2
<1>5. \A j \in Slots : j < r.rcache.idx /\ r.rcache.ref[j] # NullReference => 3 * j < CacheSize
  <2> SUFFICES ASSUME NEW j \in Slots, j < CacheSize - n, r.rcache.ref[j] # NullReference
               PROVE  3 * j < CacheSize
    BY <1>1
  <2>1. j < CacheSize /\ ~(j >= CacheSize - n)
    BY <1>1, Sizes1 DEF Slots
  <2>2. QED
    BY <1>1, <2>1 DEF PoolOK
<1>6. \A j \in Live(r) : r.rcache.ref[j] \notin r.map
  BY <1>1, <1>3 DEF PoolOK
<1>7. PoolOK(r)
  BY <1>1, <1>2, <1>4, <1>5, <1>6 DEF PoolOK
<1>8. FreeSet(r) \subseteq FreeSet(s)
  BY <1>1, <1>2, <1>3 DEF FreeSet
<1>9. QED
  BY <1>7, <1>8 DEF r

LEMMA PoolReplenish ==
  ASSUME NEW s, IsSb(s), PoolOK(s)
  PROVE  PoolOK(soReplenish(s)) /\ FreeSet(soReplenish(s)) \subseteq FreeSet(s)
<1>1. s.rcache.idx \in 0 .. CacheSize
  BY SbTypes
<1>2. CASE s.rcache.idx < CacheSize
  <2>1. soReplenish(s) = s
    BY <1>1, <1>2, Sizes1 DEF soReplenish
  <2>2. QED
    BY <2>1
<1>3. CASE ~(s.rcache.idx < CacheSize)
  <2>1. s.rcache.idx = CacheSize /\ s.rcache.idx >= CacheSize
    BY <1>1, <1>3, Sizes1
  <2>2. soReplenish(s) \in {FromInsertionCache(s), FromBitmap(s)}
    BY <1>3, <2>1 DEF soReplenish
  <2>3. QED
    BY <2>1, <2>2, PoolFromInsertion, PoolFromBitmap
<1>4. QED
  BY <1>2, <1>3

LEMMA PoolRetrieve ==
  ASSUME NEW s, IsSb(s), PoolOK(s), s.cfree # 0, Retrieve(s).sb.damage = {}
  PROVE  LET a == Retrieve(s) IN
         /\ PoolOK(a.sb) /\ FreeSet(a.sb) \subseteq FreeSet(s)
         /\ a.cn # NullReference => a.cn \in FreeSet(s) /\ a.cn \notin FreeSet(a.sb)
<1> DEFINE a == Retrieve(s)
           r == a.sb
           i == s.rcache.idx
<1>1. /\ i \in Slots /\ a.cn = s.rcache.ref[i] /\ r.map = s.map /\ r.icache = s.icache
      /\ r.rcache.idx = i + 1
      /\ r.rcache.ref = [s.rcache.ref EXCEPT ![i] = NullReference]
  BY RetrieveTypes
<1> HIDE DEF a
<1>2. i \in Nat /\ CacheSize \in Nat
  BY <1>1, Sizes1
<1>3. \A j \in Slots : /\ j \in Nat /\ (j >= i + 1 => j >= i /\ j # i)
                       /\ (j < i + 1 <=> j < i \/ j = i)
  BY <1>2, Sizes1 DEF Slots
<1>4. s.rcache.ref \in [Slots -> Reference]
  BY SbTypes
<1>5. \A j \in Slots : r.rcache.ref[j] = IF j = i THEN NullReference ELSE s.rcache.ref[j]
  BY <1>1, <1>4
<1>6. Live(r) \subseteq Live(s) /\ i \notin Live(r) /\ \A j \in Live(r) : r.rcache.ref[j] = s.rcache.ref[j]
  <2> SUFFICES ASSUME NEW j \in Live(r)
               PROVE  j \in Live(s) /\ j # i /\ r.rcache.ref[j] = s.rcache.ref[j]
    OBVIOUS
  <2>1. j \in Slots /\ j >= i + 1 /\ r.rcache.ref[j] # NullReference
    BY <1>1 DEF Live
  <2>2. QED
    BY <1>3, <1>5, <2>1 DEF Live
<1>7. Given(r) = Given(s)
  BY <1>1 DEF Given
<1>8. \A j \in Slots : j < r.rcache.idx /\ r.rcache.ref[j] # NullReference => 3 * j < CacheSize
  BY <1>1, <1>3, <1>5 DEF PoolOK
<1>9. PoolOK(r)
  BY <1>1, <1>6, <1>7, <1>8 DEF PoolOK
<1>10. FreeSet(r) \subseteq FreeSet(s)
  BY <1>1, <1>6, <1>7 DEF FreeSet
<1>11. ASSUME a.cn # NullReference
       PROVE  a.cn \in FreeSet(s) /\ a.cn \notin FreeSet(r)
  <2>1. i \in Live(s)
    BY <1>1, <1>2, <1>11 DEF Live
  <2>2. a.cn \in FreeSet(s)
    BY <1>1, <2>1 DEF FreeSet
  <2>3. a.cn \notin r.map /\ \A j \in Given(r) : a.cn # r.icache.ref[j]
    BY <1>1, <1>7, <2>1 DEF PoolOK
  <2>4. \A j \in Live(r) : a.cn # r.rcache.ref[j]
    BY <1>1, <1>6, <2>1 DEF PoolOK
  <2>5. QED
    BY <2>2, <2>3, <2>4 DEF FreeSet
<1>12. QED
  BY <1>9, <1>10, <1>11 DEF a

\* An allocation that goes well takes a free cluster, or none at all, from the pool.
LEMMA PoolAlloc ==
  ASSUME NEW s, IsSb(s), PoolOK(s), s.cfree # 0, soAllocCluster(s).sb.damage = {}
  PROVE  LET a == soAllocCluster(s) IN
         /\ PoolOK(a.sb) /\ FreeSet(a.sb) \subseteq FreeSet(s)
         /\ a.cn # NullReference => a.cn \in FreeSet(s) /\ a.cn \notin FreeSet(a.sb)
<1> DEFINE r == soReplenish(s)
<1>1. IsSb(r) /\ r.cfree # 0 /\ PoolOK(r) /\ FreeSet(r) \subseteq FreeSet(s)
  BY ReplenishTypes, PoolReplenish
<1>2. soAllocCluster(s) = Retrieve(r)
  BY DEF soAllocCluster
<1> HIDE DEF r
<1>3. /\ PoolOK(Retrieve(r).sb) /\ FreeSet(Retrieve(r).sb) \subseteq FreeSet(r)
      /\ Retrieve(r).cn # NullReference =>
            Retrieve(r).cn \in FreeSet(r) /\ Retrieve(r).cn \notin FreeSet(Retrieve(r).sb)
  BY <1>1, <1>2, PoolRetrieve
<1>4. QED
  BY <1>1, <1>2, <1>3

\* A release that goes well puts the cluster into the pool, and nothing else.
LEMMA PoolFree ==
  ASSUME NEW s, IsSb(s), PoolOK(s), NEW cn \in Nat, cn \notin FreeSet(s),
         soFreeCluster(s, cn).damage = {}
  PROVE  /\ PoolOK(soFreeCluster(s, cn))
         /\ FreeSet(soFreeCluster(s, cn)) \subseteq FreeSet(s) \union {cn}
<1> DEFINE r == soFreeCluster(s, cn)
           i == s.icache.idx
<1>1. /\ r.map = s.map /\ r.rcache = s.rcache /\ i \in Slots /\ r.icache.idx = i + 1
      /\ r.icache.ref = [s.icache.ref EXCEPT ![i] = cn]
  BY FreeTypes
<1> HIDE DEF r
<1>2. \A j \in Slots : j < i + 1 <=> j < i \/ j = i
  BY <1>1, Sizes1 DEF Slots
<1>3. Given(r) = Given(s) \union {i} /\ i \notin Given(s)
  <2>1. ~(i < i) /\ \A j \in Given(s) : j \in Slots
    BY <1>1, Sizes1 DEF Slots, Given
  <2>2. QED
    BY <1>1, <1>2, <2>1 DEF Given
<1>4. s.icache.ref \in [Slots -> Reference]
  BY SbTypes
<1>5. /\ \A j \in Given(s) : r.icache.ref[j] = s.icache.ref[j]
      /\ r.icache.ref[i] = cn
  <2>1. \A j \in Given(s) : j \in Slots /\ j # i
    BY <1>3 DEF Given
  <2>2. QED
    BY <1>1, <1>4, <2>1
<1>6. Live(r) = Live(s)
  BY <1>1 DEF Live
<1>7. /\ \A j \in Given(s) : s.icache.ref[j] # cn
      /\ \A j \in Live(s) : s.rcache.ref[j] # cn
      /\ cn \notin s.map
  BY DEF FreeSet
<1>8. PoolOK(r)
  <2>1. \A j, k \in Given(r) : r.icache.ref[j] = r.icache.ref[k] => j = k
    BY <1>3, <1>5, <1>7 DEF PoolOK
  <2>2. \A j \in Given(r) : r.icache.ref[j] \notin r.map
    BY <1>1, <1>3, <1>5, <1>7 DEF PoolOK
  <2>3. \A j \in Live(r), k \in Given(r) : r.rcache.ref[j] # r.icache.ref[k]
    BY <1>1, <1>3, <1>5, <1>6, <1>7 DEF PoolOK
  <2>4. QED
    BY <1>1, <1>6, <2>1, <2>2, <2>3 DEF PoolOK
<1>9. FreeSet(r) \subseteq FreeSet(s) \union {cn}
  BY <1>1, <1>3, <1>5, <1>6 DEF FreeSet
<1>10. QED
  BY <1>8, <1>9 DEF r

-----------------------------------------------------------------------------
(***************************************************************************)
(* The state of an operation on file clusters.                             *)
(***************************************************************************)
Tables == [Refs -> Reference]
Direct == 0 .. N_DIRECT - 1
InodeParts == [d : [Direct -> Reference], i1 : Reference, i2 : Reference, clucnt : Int]
Contents == [kind : {"zeros"}] \union [kind : {"references"}, ref : Tables]
            \union [kind : {"data"}, of : Files \X FileClusterNumbers]
Stores == [Clusters -> Contents]
States == [sb : Superblocks, ip : InodeParts, store : Stores, cn : Reference, refs : Tables,
           refs2 : Tables, total : Int, ok : BOOLEAN]
IsWork(st) == st \in States /\ InsertionEnds(st.sb)

\* Nothing has gone wrong so far.
Fine(st) == st.ok /\ st.sb.damage = {}

LEMMA Sizes2 ==
  /\ CTotal \in Nat \ {0} /\ N_DIRECT \in Nat \ {0} /\ ReferencesPerCluster \in Nat \ {0}
  /\ ReferencesPerBlock \in Nat \ {0} /\ ReferencesPerBlock <= ReferencesPerCluster
  /\ Refs \subseteq Nat /\ Clusters \subseteq Nat /\ Direct \subseteq Nat
  /\ NullReference \notin Clusters /\ NullReference \in Reference
  /\ NullRefs \in Tables
BY FileClustersAssumption, FreeClustersAssumption
   DEF Refs, Clusters, Direct, Reference, NullRefs, Tables

LEMMA StateTypes ==
  ASSUME NEW st, IsWork(st)
  PROVE  /\ st \in States /\ IsSb(st.sb) /\ st.ip \in InodeParts /\ st.store \in Stores
         /\ st.cn \in Reference /\ st.refs \in Tables /\ st.refs2 \in Tables
         /\ st.total \in Int /\ st.ok \in BOOLEAN
         /\ st.ip.d \in [Direct -> Reference] /\ st.ip.i1 \in Reference
         /\ st.ip.i2 \in Reference /\ st.ip.clucnt \in Int
BY DEF IsWork, States, IsSb, InodeParts

LEMMA RefsInType ==
  ASSUME NEW c \in Contents
  PROVE  RefsIn(c) \in Tables
BY Sizes2 DEF RefsIn, Contents, Tables, Reference

LEMMA ThrowIs ==
  ASSUME NEW st, IsWork(st)
  PROVE  LET r == Throw(st) IN
         /\ IsWork(r) /\ ~r.ok /\ r.sb = st.sb /\ r.ip = st.ip /\ r.store = st.store
         /\ r.total = st.total
BY DEF Throw, IsWork, States

LEMMA TookIs ==
  ASSUME NEW st, IsWork(st), NEW a, IsSb(a.sb), a.cn \in Reference
  PROVE  LET r == Took(st, a) IN
         /\ IsWork(r) /\ r.sb = a.sb /\ r.cn = a.cn /\ r.ip = st.ip /\ r.store = st.store
         /\ r.refs = st.refs /\ r.refs2 = st.refs2 /\ r.total = st.total /\ r.ok = st.ok
<1> DEFINE r == Took(st, a)
<1>1. st \in States /\ a.sb \in Superblocks
  BY DEF IsWork, IsSb
<1>2. /\ r \in States /\ r.sb = a.sb /\ r.cn = a.cn /\ r.ip = st.ip /\ r.store = st.store
      /\ r.refs = st.refs /\ r.refs2 = st.refs2 /\ r.total = st.total /\ r.ok = st.ok
  BY <1>1 DEF Took, States
<1>3. QED
  BY <1>2 DEF IsWork, IsSb

LEMMA CountIs ==
  ASSUME NEW st, IsWork(st), st.ok
  PROVE  LET r == Count(st) IN
         /\ IsWork(r) /\ r.sb = st.sb /\ r.cn = st.cn /\ r.store = st.store
         /\ r.refs = st.refs /\ r.refs2 = st.refs2 /\ r.total = st.total /\ r.ok
         /\ r.ip.d = st.ip.d /\ r.ip.i1 = st.ip.i1 /\ r.ip.i2 = st.ip.i2
         /\ r.ip.clucnt = st.ip.clucnt + 1
<1>1. /\ Count(st) = [st EXCEPT !.ip.clucnt = @ + 1] /\ st \in States /\ st.ip \in InodeParts
      /\ st.ip.clucnt + 1 \in Int
  BY DEF Count, IsWork, States, InodeParts
<1>2. Count(st) \in States
  BY <1>1 DEF States, InodeParts
<1>3. /\ Count(st).sb = st.sb /\ Count(st).cn = st.cn /\ Count(st).store = st.store
      /\ Count(st).refs = st.refs /\ Count(st).refs2 = st.refs2 /\ Count(st).total = st.total
      /\ Count(st).ok = st.ok
  BY <1>1 DEF States
<1>4. /\ Count(st).ip.d = st.ip.d /\ Count(st).ip.i1 = st.ip.i1 /\ Count(st).ip.i2 = st.ip.i2
      /\ Count(st).ip.clucnt = st.ip.clucnt + 1
  BY <1>1 DEF States, InodeParts
<1>5. QED
  BY <1>2, <1>3, <1>4 DEF IsWork

LEMMA WriteIs ==
  ASSUME NEW st, IsWork(st), st.ok, NEW cn \in Clusters, NEW refs \in Tables
  PROVE  LET r == WriteRefs(st, cn, refs) IN
         /\ IsWork(r) /\ r.sb = st.sb /\ r.cn = st.cn /\ r.ip = st.ip
         /\ r.store = [st.store EXCEPT ![cn] = Table(refs)]
         /\ r.refs = st.refs /\ r.refs2 = st.refs2 /\ r.total = st.total /\ r.ok
<1>1. WriteRefs(st, cn, refs) = [st EXCEPT !.store[cn] = Table(refs)]
  BY DEF WriteRefs, Exists
<1>2. Table(refs) \in Contents
  BY DEF Table, Contents
<1>3. st \in States /\ [st.store EXCEPT ![cn] = Table(refs)] \in Stores
  BY <1>2 DEF IsWork, States, Stores
<1> HIDE DEF Table
<1>4. QED
  BY <1>1, <1>3 DEF IsWork, States

LEMMA ReadIs ==
  ASSUME NEW st, IsWork(st), NEW cn \in Clusters
  PROVE  LET r == ReadRefs(st, cn) IN
         /\ IsWork(r) /\ r.sb = st.sb /\ r.cn = st.cn /\ r.ip = st.ip /\ r.store = st.store
         /\ r.refs = RefsIn(st.store[cn]) /\ r.refs2 = st.refs2 /\ r.total = st.total
         /\ r.ok = st.ok
<1>1. ReadRefs(st, cn) = [st EXCEPT !.refs = RefsIn(st.store[cn])]
  BY DEF ReadRefs, Exists
<1>2. st \in States /\ RefsIn(st.store[cn]) \in Tables
  BY RefsInType DEF IsWork, States, Stores
<1> HIDE DEF RefsIn
<1>3. QED
  BY <1>1, <1>2 DEF IsWork, States

LEMMA NewIs ==
  ASSUME NEW st, IsWork(st), st.cn \in Clusters
  PROVE  LET r == NewRefs(st) IN
         /\ IsWork(r) /\ r.sb = st.sb /\ r.cn = st.cn /\ r.ip = st.ip /\ r.store = st.store
         /\ r.refs = NullRefs /\ r.refs2 = st.refs2 /\ r.total = st.total /\ r.ok = st.ok
BY Sizes2 DEF NewRefs, Exists, IsWork, States

LEMMA Absent ==
  ASSUME NEW st, NEW cn, cn \notin Clusters
  PROVE  /\ ReadRefs(st, cn) = Throw(st)
         /\ st.cn = cn => NewRefs(st) = Throw(st)
         /\ \A refs : WriteRefs(st, cn, refs) = Throw(st)
BY DEF ReadRefs, NewRefs, WriteRefs, Exists

-----------------------------------------------------------------------------
(***************************************************************************)
(* The steps of an allocation.  Passes: nothing is counted less than       *)
(* before, and as long as no exception is thrown everything is counted.    *)
(***************************************************************************)
Sum(st) == st.sb.cfree + st.ip.clucnt
Passes(st, r) ==
    /\ IsWork(r) /\ st.sb.damage \subseteq r.sb.damage
    /\ Sum(r) >= Sum(st) /\ (r.ok => st.ok /\ Sum(r) = Sum(st))

LEMMA SumType ==
  ASSUME NEW st, IsWork(st)
  PROVE  Sum(st) \in Int /\ st.sb.cfree \in Nat /\ st.ip.clucnt \in Int
BY StateTypes, SbTypes DEF Sum

LEMMA PassesSelf ==
  ASSUME NEW st, IsWork(st)
  PROVE  Passes(st, st)
BY SumType DEF Passes

LEMMA PassesOn ==
  ASSUME NEW st, IsWork(st), NEW s, Passes(st, s), NEW r, Passes(s, r)
  PROVE  Passes(st, r)
<1>1. IsWork(s) /\ IsWork(r)
  BY DEF Passes
<1>2. Sum(st) \in Int /\ Sum(s) \in Int /\ Sum(r) \in Int
  BY <1>1, SumType
<1>3. QED
  BY <1>1, <1>2 DEF Passes

LEMMA PassesThrow ==
  ASSUME NEW st, IsWork(st)
  PROVE  Passes(st, Throw(st)) /\ ~Throw(st).ok
<1>1. /\ IsWork(Throw(st)) /\ ~Throw(st).ok /\ Throw(st).sb = st.sb /\ Throw(st).ip = st.ip
  BY ThrowIs
<1>2. QED
  BY <1>1, SumType DEF Passes, Sum

\* What an allocation that goes well leaves: a cluster is counted, and comes from the pool.
Took1(st, r) ==
    /\ r.store = st.store /\ r.refs = st.refs /\ r.refs2 = st.refs2
    /\ r.ip.d = st.ip.d /\ r.ip.i1 = st.ip.i1 /\ r.ip.i2 = st.ip.i2
    /\ r.ip.clucnt = st.ip.clucnt + 1
    /\ PoolOK(st.sb) /\ r.sb.damage = {} =>
         /\ PoolOK(r.sb) /\ FreeSet(r.sb) \subseteq FreeSet(st.sb)
         /\ r.cn # NullReference => r.cn \in FreeSet(st.sb) /\ r.cn \notin FreeSet(r.sb)

LEMMA TakeIs ==
  ASSUME NEW st, IsWork(st), st.ok, st.sb.cfree # 0
  PROVE  LET r == Take(st) IN
         /\ IsWork(r) /\ r.sb = soAllocCluster(st.sb).sb /\ r.cn = soAllocCluster(st.sb).cn
         /\ r.ip = st.ip /\ r.store = st.store
         /\ r.refs = st.refs /\ r.refs2 = st.refs2 /\ r.total = st.total /\ r.ok
         /\ r.sb.cfree = st.sb.cfree - 1 /\ st.sb.damage \subseteq r.sb.damage
<1>1. Take(st) = Took(st, soAllocCluster(st.sb))
  BY DEF Take, NoSpace
<1>2. IsSb(st.sb)
  BY StateTypes
<1>3. LET a == soAllocCluster(st.sb) IN
      /\ IsSb(a.sb) /\ a.cn \in Reference
      /\ a.sb.cfree = st.sb.cfree - 1 /\ st.sb.damage \subseteq a.sb.damage
  BY <1>2, AllocTypes
<1> DEFINE a == soAllocCluster(st.sb)
<1> HIDE DEF a
<1>4. /\ IsSb(a.sb) /\ a.cn \in Reference
      /\ a.sb.cfree = st.sb.cfree - 1 /\ st.sb.damage \subseteq a.sb.damage
  BY <1>3 DEF a
<1>5. LET r == Took(st, a) IN
         /\ IsWork(r) /\ r.sb = a.sb /\ r.cn = a.cn /\ r.ip = st.ip /\ r.store = st.store
         /\ r.refs = st.refs /\ r.refs2 = st.refs2 /\ r.total = st.total /\ r.ok = st.ok
  BY <1>4, TookIs
<1>6. Take(st) = Took(st, a)
  BY <1>1 DEF a
<1>7. QED
  BY <1>4, <1>5, <1>6 DEF a

LEMMA TakeThrows ==
  ASSUME NEW st, ~(st.ok /\ st.sb.cfree # 0)
  PROVE  Take(st) = Throw(st)
BY DEF Take, NoSpace

LEMMA CountTake ==
  ASSUME NEW st, IsWork(st)
  PROVE  LET r == Count(Take(st)) IN Passes(st, r) /\ (r.ok => Took1(st, r))
<1>1. CASE st.ok /\ st.sb.cfree # 0
  <2> DEFINE t == Take(st)
             r == Count(t)
  <2>1. /\ IsWork(t) /\ t.sb = soAllocCluster(st.sb).sb /\ t.cn = soAllocCluster(st.sb).cn
        /\ t.ip = st.ip /\ t.store = st.store
        /\ t.refs = st.refs /\ t.refs2 = st.refs2 /\ t.total = st.total /\ t.ok
        /\ t.sb.cfree = st.sb.cfree - 1 /\ st.sb.damage \subseteq t.sb.damage
    BY <1>1, TakeIs
  <2> HIDE DEF t
  <2>2. /\ IsWork(r) /\ r.sb = t.sb /\ r.cn = t.cn /\ r.store = t.store
        /\ r.refs = t.refs /\ r.refs2 = t.refs2 /\ r.total = t.total /\ r.ok
        /\ r.ip.d = t.ip.d /\ r.ip.i1 = t.ip.i1 /\ r.ip.i2 = t.ip.i2
        /\ r.ip.clucnt = t.ip.clucnt + 1
    BY <2>1, CountIs
  <2> HIDE DEF r
  <2>3. Passes(st, r)
    <3>1. st.sb.cfree \in Nat /\ st.ip.clucnt \in Int
      BY SumType
    <3>2. Sum(r) = Sum(st)
      BY <2>1, <2>2, <3>1 DEF Sum
    <3>3. Sum(r) \in Int
      BY <2>2, SumType
    <3>4. QED
      BY <1>1, <2>1, <2>2, <3>2, <3>3 DEF Passes
  <2>4. Took1(st, r)
    <3>1. IsSb(st.sb)
      BY StateTypes
    <3>2. ASSUME PoolOK(st.sb), r.sb.damage = {}
          PROVE  /\ PoolOK(r.sb) /\ FreeSet(r.sb) \subseteq FreeSet(st.sb)
                 /\ r.cn # NullReference => r.cn \in FreeSet(st.sb) /\ r.cn \notin FreeSet(r.sb)
      <4>1. soAllocCluster(st.sb).sb.damage = {}
        BY <2>1, <2>2, <3>2
      <4>2. LET a == soAllocCluster(st.sb) IN
            /\ PoolOK(a.sb) /\ FreeSet(a.sb) \subseteq FreeSet(st.sb)
            /\ a.cn # NullReference => a.cn \in FreeSet(st.sb) /\ a.cn \notin FreeSet(a.sb)
        BY <1>1, <3>1, <3>2, <4>1, PoolAlloc
      <4>3. QED
        BY <2>1, <2>2, <4>2
    <3>3. QED
      BY <2>1, <2>2, <3>2 DEF Took1
  <2>5. QED
    BY <2>3, <2>4 DEF r, t
<1>2. CASE ~(st.ok /\ st.sb.cfree # 0)
  <2>1. Take(st) = Throw(st) /\ Passes(st, Throw(st)) /\ ~Throw(st).ok
    BY <1>2, TakeThrows, PassesThrow
  <2>2. Count(Throw(st)) = Throw(st)
    BY <2>1 DEF Count
  <2>3. QED
    BY <2>1, <2>2
<1>3. QED
  BY <1>1, <1>2

LEMMA TakeCount ==
  ASSUME NEW st, IsWork(st)
  PROVE  LET r == Take(Count(st)) IN Passes(st, r) /\ (r.ok => Took1(st, r))
<1>1. CASE ~st.ok
  <2>1. Count(st) = st /\ Take(st) = Throw(st)
    BY <1>1, TakeThrows DEF Count
  <2>2. QED
    BY <2>1, PassesThrow
<1>2. CASE st.ok
  <2> DEFINE t == Count(st)
             r == Take(t)
  <2>1. /\ IsWork(t) /\ t.sb = st.sb /\ t.cn = st.cn /\ t.store = st.store
        /\ t.refs = st.refs /\ t.refs2 = st.refs2 /\ t.total = st.total /\ t.ok
        /\ t.ip.d = st.ip.d /\ t.ip.i1 = st.ip.i1 /\ t.ip.i2 = st.ip.i2
        /\ t.ip.clucnt = st.ip.clucnt + 1
    BY <1>2, CountIs
  <2> HIDE DEF t
  <2>2. st.sb.cfree \in Nat /\ st.ip.clucnt \in Int
    BY SumType
  <2>3. CASE t.sb.cfree = 0
    <3>1. r = Throw(t)
      BY <2>3, TakeThrows
    <3>2. /\ IsWork(r) /\ ~r.ok /\ r.sb = t.sb /\ r.ip = t.ip
      BY <2>1, <3>1, ThrowIs
    <3> HIDE DEF r
    <3>3. Passes(st, r)
      BY <2>1, <2>2, <3>2 DEF Passes, Sum
    <3>4. QED
      BY <3>2, <3>3 DEF r, t
  <2>4. CASE t.sb.cfree # 0
    <3>1. /\ IsWork(r) /\ r.sb = soAllocCluster(t.sb).sb /\ r.cn = soAllocCluster(t.sb).cn
          /\ r.ip = t.ip /\ r.store = t.store
          /\ r.refs = t.refs /\ r.refs2 = t.refs2 /\ r.total = t.total /\ r.ok
          /\ r.sb.cfree = t.sb.cfree - 1 /\ t.sb.damage \subseteq r.sb.damage
      BY <2>1, <2>4, TakeIs
    <3> HIDE DEF r
    <3>2. Passes(st, r)
      <4>1. Sum(r) = Sum(st)
        BY <2>1, <2>2, <3>1 DEF Sum
      <4>2. Sum(r) \in Int
        BY <3>1, SumType
      <4>3. QED
        BY <1>2, <2>1, <3>1, <4>1, <4>2 DEF Passes
    <3>3. IsSb(st.sb)
      BY StateTypes
    <3>4. ASSUME PoolOK(st.sb), r.sb.damage = {}
          PROVE  /\ PoolOK(r.sb) /\ FreeSet(r.sb) \subseteq FreeSet(st.sb)
                 /\ r.cn # NullReference => r.cn \in FreeSet(st.sb) /\ r.cn \notin FreeSet(r.sb)
      <4>1. soAllocCluster(st.sb).sb.damage = {} /\ st.sb.cfree # 0
        BY <2>1, <2>4, <3>1, <3>4
      <4>2. LET a == soAllocCluster(st.sb) IN
            /\ PoolOK(a.sb) /\ FreeSet(a.sb) \subseteq FreeSet(st.sb)
            /\ a.cn # NullReference => a.cn \in FreeSet(st.sb) /\ a.cn \notin FreeSet(a.sb)
        BY <3>3, <3>4, <4>1, PoolAlloc
      <4>3. QED
        BY <2>1, <3>1, <4>2
    <3>5. Took1(st, r)
      BY <2>1, <3>1, <3>4 DEF Took1
    <3>6. QED
      BY <3>2, <3>5 DEF r, t
  <2>5. QED
    BY <2>3, <2>4
<1>3. QED
  BY <1>1, <1>2

Tab(sto, cn) == IF cn \in Clusters THEN RefsIn(sto[cn]) ELSE NullRefs

LEMMA TabType ==
  ASSUME NEW sto \in Stores, NEW cn
  PROVE  Tab(sto, cn) \in Tables
BY Sizes2, RefsInType DEF Tab, Stores

\* Only the inode, only the references or only the store is set: nothing else changes.
LEMMA SameSum ==
  ASSUME NEW st, IsWork(st), NEW r, IsWork(r), r.sb = st.sb, r.ip.clucnt = st.ip.clucnt,
         r.ok => st.ok
  PROVE  Passes(st, r)
BY SumType DEF Passes, Sum

With(d, n, cn) == [d EXCEPT ![n] = cn]

LEMMA SetDirectIs ==
  ASSUME NEW st, IsWork(st), NEW n \in Direct
  PROVE  LET r == SetDirect(st, n) IN
         /\ Passes(st, r)
         /\ r.ok => /\ r.sb = st.sb /\ r.cn = st.cn /\ r.store = st.store
                    /\ r.ip.d = With(st.ip.d, n, st.cn) /\ r.ip.i1 = st.ip.i1
                    /\ r.ip.i2 = st.ip.i2 /\ r.ip.clucnt = st.ip.clucnt
<1>1. CASE st.ok
  <2> DEFINE r == SetDirect(st, n)
             e == [st.ip.d EXCEPT ![n] = st.cn]
  <2>1. /\ r = [st EXCEPT !.ip.d[n] = st.cn] /\ st \in States /\ st.ip \in InodeParts
        /\ e \in [Direct -> Reference]
    BY <1>1, StateTypes DEF SetDirect
  <2>2. r.ip.d = e
    BY <2>1 DEF States, InodeParts
  <2> HIDE DEF e
  <2>3. r \in States
    BY <2>1, <2>2 DEF States, InodeParts
  <2>4. /\ r.sb = st.sb /\ r.cn = st.cn /\ r.store = st.store /\ r.ok = st.ok
        /\ r.ip.i1 = st.ip.i1 /\ r.ip.i2 = st.ip.i2 /\ r.ip.clucnt = st.ip.clucnt
    BY <2>1 DEF States, InodeParts
  <2> HIDE DEF r
  <2>5. Passes(st, r)
    <3>1. IsWork(r)
      BY <2>3, <2>4 DEF IsWork
    <3>2. QED
      BY <1>1, <2>4, <3>1, SameSum
  <2>6. QED
    BY <2>2, <2>4, <2>5 DEF r, e, With
<1>2. CASE ~st.ok
  BY <1>2, PassesSelf DEF SetDirect
<1>3. QED
  BY <1>1, <1>2

LEMMA SetI1Is ==
  ASSUME NEW st, IsWork(st)
  PROVE  LET r == SetI1(st) IN
         /\ Passes(st, r)
         /\ r.ok => /\ st.cn \in Clusters /\ r.sb = st.sb /\ r.cn = st.cn /\ r.store = st.store
                    /\ r.ip.d = st.ip.d /\ r.ip.i1 = st.cn /\ r.ip.i2 = st.ip.i2
                    /\ r.ip.clucnt = st.ip.clucnt /\ r.refs = NullRefs
<1>1. CASE st.ok
  <2> DEFINE t == [st EXCEPT !.ip.i1 = st.cn]
             r == NewRefs(t)
  <2>1. SetI1(st) = r
    BY <1>1 DEF SetI1
  <2>2. st \in States /\ st.cn \in Reference
    BY StateTypes
  <2>3. t \in States /\ t.sb = st.sb
    BY <2>2 DEF States, InodeParts
  <2>4. /\ t.sb = st.sb /\ t.cn = st.cn /\ t.store = st.store /\ t.ok
        /\ t.ip.d = st.ip.d /\ t.ip.i1 = st.cn /\ t.ip.i2 = st.ip.i2
        /\ t.ip.clucnt = st.ip.clucnt
    BY <1>1, <2>2 DEF States, InodeParts
  <2> HIDE DEF t
  <2>5. IsWork(t)
    BY <2>3 DEF IsWork
  <2>6. CASE st.cn \in Clusters
    <3>1. /\ IsWork(r) /\ r.sb = t.sb /\ r.cn = t.cn /\ r.ip = t.ip /\ r.store = t.store
          /\ r.refs = NullRefs /\ r.ok = t.ok
      BY <2>4, <2>5, <2>6, NewIs
    <3> HIDE DEF r
    <3>2. Passes(st, r)
      BY <1>1, <2>4, <3>1, SameSum
    <3>3. QED
      BY <2>1, <2>4, <2>6, <3>1, <3>2
  <2>7. CASE st.cn \notin Clusters
    <3>1. r = Throw(t)
      BY <2>4, <2>7 DEF NewRefs, Exists
    <3>2. Passes(st, t) /\ Passes(t, Throw(t)) /\ ~Throw(t).ok
      BY <1>1, <2>4, <2>5, SameSum, PassesThrow
    <3>3. QED
      BY <2>1, <3>1, <3>2, PassesOn
  <2>8. QED
    BY <2>6, <2>7
<1>2. CASE ~st.ok
  BY <1>2, PassesSelf DEF SetI1
<1>3. QED
  BY <1>1, <1>2

LEMMA SetI2Is ==
  ASSUME NEW st, IsWork(st)
  PROVE  LET r == SetI2(st) IN
         /\ Passes(st, r)
         /\ r.ok => /\ st.cn \in Clusters /\ r.sb = st.sb /\ r.cn = st.cn /\ r.store = st.store
                    /\ r.ip.d = st.ip.d /\ r.ip.i1 = st.ip.i1 /\ r.ip.i2 = st.cn
                    /\ r.ip.clucnt = st.ip.clucnt /\ r.refs = NullRefs
<1>1. CASE st.ok
  <2> DEFINE t == [st EXCEPT !.ip.i2 = st.cn]
             r == NewRefs(t)
  <2>1. SetI2(st) = r
    BY <1>1 DEF SetI2
  <2>2. st \in States /\ st.cn \in Reference
    BY StateTypes
  <2>3. t \in States /\ t.sb = st.sb
    BY <2>2 DEF States, InodeParts
  <2>4. /\ t.sb = st.sb /\ t.cn = st.cn /\ t.store = st.store /\ t.ok
        /\ t.ip.d = st.ip.d /\ t.ip.i1 = st.ip.i1 /\ t.ip.i2 = st.cn
        /\ t.ip.clucnt = st.ip.clucnt
    BY <1>1, <2>2 DEF States, InodeParts
  <2> HIDE DEF t
  <2>5. IsWork(t)
    BY <2>3 DEF IsWork
  <2>6. CASE st.cn \in Clusters
    <3>1. /\ IsWork(r) /\ r.sb = t.sb /\ r.cn = t.cn /\ r.ip = t.ip /\ r.store = t.store
          /\ r.refs = NullRefs /\ r.ok = t.ok
      BY <2>4, <2>5, <2>6, NewIs
    <3> HIDE DEF r
    <3>2. Passes(st, r)
      BY <1>1, <2>4, <3>1, SameSum
    <3>3. QED
      BY <2>1, <2>4, <2>6, <3>1, <3>2
  <2>7. CASE st.cn \notin Clusters
    <3>1. r = Throw(t)
      BY <2>4, <2>7 DEF NewRefs, Exists
    <3>2. Passes(st, t) /\ Passes(t, Throw(t)) /\ ~Throw(t).ok
      BY <1>1, <2>4, <2>5, SameSum, PassesThrow
    <3>3. QED
      BY <2>1, <3>1, <3>2, PassesOn
  <2>8. QED
    BY <2>6, <2>7
<1>2. CASE ~st.ok
  BY <1>2, PassesSelf DEF SetI2
<1>3. QED
  BY <1>1, <1>2

LEMMA ReadRefsIs ==
  ASSUME NEW st, IsWork(st), NEW cn
  PROVE  LET r == ReadRefs(st, cn) IN
         /\ Passes(st, r)
         /\ r.ok => /\ cn \in Clusters /\ r.sb = st.sb /\ r.ip = st.ip /\ r.store = st.store
                    /\ r.refs = RefsIn(st.store[cn]) /\ r.refs2 = st.refs2
<1>1. CASE cn \in Clusters
  <2> DEFINE r == ReadRefs(st, cn)
  <2>1. /\ IsWork(r) /\ r.sb = st.sb /\ r.cn = st.cn /\ r.ip = st.ip /\ r.store = st.store
        /\ r.refs = RefsIn(st.store[cn]) /\ r.refs2 = st.refs2 /\ r.ok = st.ok
    BY <1>1, ReadIs
  <2> HIDE DEF r
  <2>2. Passes(st, r)
    BY <2>1, SameSum
  <2>3. QED
    BY <1>1, <2>1, <2>2 DEF r
<1>2. CASE cn \notin Clusters
  BY <1>2, Absent, PassesThrow
<1>3. QED
  BY <1>1, <1>2

PutTable(sto, cn, refs) == [sto EXCEPT ![cn] = Table(refs)]

LEMMA WriteRefsIs ==
  ASSUME NEW st, IsWork(st), NEW cn, NEW refs \in Tables
  PROVE  LET r == WriteRefs(st, cn, refs) IN
         /\ Passes(st, r)
         /\ r.ok => /\ cn \in Clusters /\ r.sb = st.sb /\ r.cn = st.cn /\ r.ip = st.ip
                    /\ r.store = PutTable(st.store, cn, refs)
<1>1. CASE st.ok /\ cn \in Clusters
  <2> DEFINE r == WriteRefs(st, cn, refs)
  <2>1. /\ IsWork(r) /\ r.sb = st.sb /\ r.cn = st.cn /\ r.ip = st.ip
        /\ r.store = PutTable(st.store, cn, refs) /\ r.ok
    BY <1>1, WriteIs DEF PutTable
  <2> HIDE DEF r
  <2>2. Passes(st, r)
    BY <1>1, <2>1, SameSum
  <2>3. QED
    BY <1>1, <2>1, <2>2 DEF r
<1>2. CASE ~(st.ok /\ cn \in Clusters)
  <2>1. WriteRefs(st, cn, refs) = Throw(st)
    BY <1>2 DEF WriteRefs, Exists
  <2>2. QED
    BY <2>1, PassesThrow
<1>3. QED
  BY <1>1, <1>2

LEMMA SetPartIs ==
  ASSUME NEW st, IsWork(st), NEW a \in Refs
  PROVE  LET r == SetPart(st, a) IN
         /\ Passes(st, r)
         /\ r.ok => /\ st.cn \in Clusters /\ r.sb = st.sb /\ r.store = st.store /\ r.ip = st.ip
                    /\ r.refs = NullRefs /\ r.refs2 = [st.refs EXCEPT ![a] = st.cn]
<1>1. CASE st.ok
  <2> DEFINE e == [st.refs EXCEPT ![a] = st.cn]
             t == [st EXCEPT !.refs2 = e]
             r == NewRefs(t)
  <2>1. SetPart(st, a) = r
    BY <1>1 DEF SetPart
  <2>2. st \in States /\ st.cn \in Reference /\ e \in Tables
    BY StateTypes DEF Tables
  <2> HIDE DEF e
  <2>3. /\ t \in States /\ t.sb = st.sb /\ t.cn = st.cn /\ t.store = st.store /\ t.ok
        /\ t.ip = st.ip /\ t.refs2 = e
    BY <1>1, <2>2 DEF States
  <2> HIDE DEF t
  <2>4. IsWork(t)
    BY <2>3 DEF IsWork
  <2>5. CASE st.cn \in Clusters
    <3>1. /\ IsWork(r) /\ r.sb = t.sb /\ r.cn = t.cn /\ r.ip = t.ip /\ r.store = t.store
          /\ r.refs = NullRefs /\ r.refs2 = t.refs2 /\ r.ok = t.ok
      BY <2>3, <2>4, <2>5, NewIs
    <3> HIDE DEF r
    <3>2. Passes(st, r)
      BY <1>1, <2>3, <3>1, SameSum
    <3>3. QED
      BY <2>1, <2>3, <2>5, <3>1, <3>2 DEF e
  <2>6. CASE st.cn \notin Clusters
    <3>1. r = Throw(t)
      BY <2>3, <2>6 DEF NewRefs, Exists
    <3>2. Passes(st, t) /\ Passes(t, Throw(t)) /\ ~Throw(t).ok
      BY <1>1, <2>3, <2>4, SameSum, PassesThrow
    <3>3. QED
      BY <2>1, <3>1, <3>2, PassesOn
  <2>7. QED
    BY <2>5, <2>6
<1>2. CASE ~st.ok
  BY <1>2, PassesSelf DEF SetPart
<1>3. QED
  BY <1>1, <1>2

-----------------------------------------------------------------------------
(***************************************************************************)
(* What an allocation leaves behind.                                       *)
(***************************************************************************)
Fresh(s0, s1, c) == c \in FreeSet(s0) /\ c \notin FreeSet(s1)
Shrinks(s0, s1) == PoolOK(s1) /\ FreeSet(s1) \subseteq FreeSet(s0)
Drawing(s0, s1) == PoolOK(s0) /\ s1.damage = {}

LEMMA NullNotFree ==
  ASSUME NEW s, IsSb(s)
  PROVE  NullReference \notin FreeSet(s)
BY SbTypes, Sizes1 DEF FreeSet, Live

LEMMA Took1Fresh ==
  ASSUME NEW st, NEW r, Took1(st, r), Drawing(st.sb, r.sb)
  PROVE  Shrinks(st.sb, r.sb) /\ (r.cn # NullReference => Fresh(st.sb, r.sb, r.cn))
BY DEF Took1, Drawing, Shrinks, Fresh

LEMMA AllocDirectIs ==
  ASSUME NEW st, IsWork(st), NEW n \in Direct
  PROVE  LET r == AllocDirect(st, n) IN
         /\ Passes(st, r)
         /\ r.ok => /\ r.store = st.store /\ r.ip.d = With(st.ip.d, n, r.cn)
                    /\ r.ip.i1 = st.ip.i1 /\ r.ip.i2 = st.ip.i2
                    /\ r.ip.clucnt = st.ip.clucnt + 1
                    /\ Drawing(st.sb, r.sb) =>
                         Shrinks(st.sb, r.sb) /\ (r.cn # NullReference => Fresh(st.sb, r.sb, r.cn))
<1> DEFINE t == Count(Take(st))
           r == SetDirect(t, n)
<1>1. Passes(st, t) /\ (t.ok => Took1(st, t))
  BY CountTake
<1>2. AllocDirect(st, n) = r
  BY DEF AllocDirect
<1> HIDE DEF t
<1>3. IsWork(t)
  BY <1>1 DEF Passes
<1>4. /\ Passes(t, r)
      /\ r.ok => /\ r.sb = t.sb /\ r.cn = t.cn /\ r.store = t.store
                 /\ r.ip.d = With(t.ip.d, n, t.cn) /\ r.ip.i1 = t.ip.i1
                 /\ r.ip.i2 = t.ip.i2 /\ r.ip.clucnt = t.ip.clucnt
  BY <1>3, SetDirectIs
<1> HIDE DEF r
<1>5. Passes(st, r)
  BY <1>1, <1>3, <1>4, PassesOn
<1>6. ASSUME r.ok
      PROVE  /\ r.store = st.store /\ r.ip.d = With(st.ip.d, n, r.cn)
             /\ r.ip.i1 = st.ip.i1 /\ r.ip.i2 = st.ip.i2
             /\ r.ip.clucnt = st.ip.clucnt + 1
             /\ Drawing(st.sb, r.sb) =>
                  Shrinks(st.sb, r.sb) /\ (r.cn # NullReference => Fresh(st.sb, r.sb, r.cn))
  <2>1. Took1(st, t)
    BY <1>1, <1>4, <1>6 DEF Passes
  <2>2. QED
    BY <1>4, <1>6, <2>1, Took1Fresh DEF Took1
<1>7. QED
  BY <1>2, <1>5, <1>6

\* The table of references of an inode: what was there, or a new one.
LEMMA FirstLevel ==
  ASSUME NEW st, IsWork(st)
  PROVE  LET r == IF st.ip.i1 = NullReference THEN AllocI1(st) ELSE ReadRefs(st, st.ip.i1) IN
         /\ Passes(st, r)
         /\ r.ok => /\ r.ip.i1 \in Clusters /\ r.store = st.store
                    /\ r.refs = Tab(st.store, st.ip.i1)
                    /\ r.ip.d = st.ip.d /\ r.ip.i2 = st.ip.i2
                    /\ st.ip.i1 # NullReference =>
                         r.ip.i1 = st.ip.i1 /\ r.ip.clucnt = st.ip.clucnt /\ r.sb = st.sb
                    /\ st.ip.i1 = NullReference =>
                         /\ r.ip.clucnt = st.ip.clucnt + 1
                         /\ Drawing(st.sb, r.sb) =>
                              Shrinks(st.sb, r.sb) /\ Fresh(st.sb, r.sb, r.ip.i1)
<1>1. CASE st.ip.i1 # NullReference
  <2> DEFINE r == ReadRefs(st, st.ip.i1)
  <2>1. /\ Passes(st, r)
        /\ r.ok => /\ st.ip.i1 \in Clusters /\ r.sb = st.sb /\ r.ip = st.ip /\ r.store = st.store
                   /\ r.refs = RefsIn(st.store[st.ip.i1]) /\ r.refs2 = st.refs2
    BY ReadRefsIs
  <2> HIDE DEF r
  <2>2. QED
    BY <1>1, <2>1 DEF r, Tab
<1>2. CASE st.ip.i1 = NullReference
  <2>1. CASE st.sb.cfree > 1
    <3> DEFINE t == Count(Take(st))
               r == SetI1(t)
    <3>1. Passes(st, t) /\ (t.ok => Took1(st, t))
      BY CountTake
    <3>2. AllocI1(st) = r
      BY <2>1 DEF AllocI1
    <3> HIDE DEF t
    <3>3. IsWork(t)
      BY <3>1 DEF Passes
    <3>4. /\ Passes(t, r)
          /\ r.ok => /\ t.cn \in Clusters /\ r.sb = t.sb /\ r.cn = t.cn /\ r.store = t.store
                     /\ r.ip.d = t.ip.d /\ r.ip.i1 = t.cn /\ r.ip.i2 = t.ip.i2
                     /\ r.ip.clucnt = t.ip.clucnt /\ r.refs = NullRefs
      BY <3>3, SetI1Is
    <3> HIDE DEF r
    <3>5. Passes(st, r)
      BY <3>1, <3>3, <3>4, PassesOn
    <3>6. Tab(st.store, st.ip.i1) = NullRefs
      BY <1>2, Sizes2 DEF Tab
    <3>7. ASSUME r.ok
          PROVE  /\ r.ip.i1 \in Clusters /\ r.store = st.store
                 /\ r.refs = NullRefs
                 /\ r.ip.d = st.ip.d /\ r.ip.i2 = st.ip.i2
                 /\ r.ip.clucnt = st.ip.clucnt + 1
                 /\ Drawing(st.sb, r.sb) =>
                      Shrinks(st.sb, r.sb) /\ Fresh(st.sb, r.sb, r.ip.i1)
      <4>1. Took1(st, t)
        BY <3>1, <3>4, <3>7 DEF Passes
      <4>2. t.cn # NullReference
        BY <3>4, <3>7, Sizes2
      <4>3. QED
        BY <3>4, <3>7, <4>1, <4>2, Took1Fresh DEF Took1
    <3>8. QED
      BY <1>2, <3>2, <3>5, <3>6, <3>7
  <2>2. CASE ~(st.sb.cfree > 1)
    BY <1>2, <2>2, PassesThrow DEF AllocI1
  <2>3. QED
    BY <2>1, <2>2
<1>3. QED
  BY <1>1, <1>2

LEMMA SecondLevel ==
  ASSUME NEW st, IsWork(st)
  PROVE  LET r == IF st.ip.i2 = NullReference THEN AllocI2(st) ELSE ReadRefs(st, st.ip.i2) IN
         /\ Passes(st, r)
         /\ r.ok => /\ r.ip.i2 \in Clusters /\ r.store = st.store
                    /\ r.refs = Tab(st.store, st.ip.i2)
                    /\ r.ip.d = st.ip.d /\ r.ip.i1 = st.ip.i1
                    /\ st.ip.i2 # NullReference =>
                         r.ip.i2 = st.ip.i2 /\ r.ip.clucnt = st.ip.clucnt /\ r.sb = st.sb
                    /\ st.ip.i2 = NullReference =>
                         /\ r.ip.clucnt = st.ip.clucnt + 1
                         /\ Drawing(st.sb, r.sb) =>
                              Shrinks(st.sb, r.sb) /\ Fresh(st.sb, r.sb, r.ip.i2)
<1>1. CASE st.ip.i2 # NullReference
  <2> DEFINE r == ReadRefs(st, st.ip.i2)
  <2>1. /\ Passes(st, r)
        /\ r.ok => /\ st.ip.i2 \in Clusters /\ r.sb = st.sb /\ r.ip = st.ip /\ r.store = st.store
                   /\ r.refs = RefsIn(st.store[st.ip.i2]) /\ r.refs2 = st.refs2
    BY ReadRefsIs
  <2> HIDE DEF r
  <2>2. QED
    BY <1>1, <2>1 DEF r, Tab
<1>2. CASE st.ip.i2 = NullReference
  <2>1. CASE st.sb.cfree > 2
    <3> DEFINE t == Take(Count(st))
               r == SetI2(t)
    <3>1. Passes(st, t) /\ (t.ok => Took1(st, t))
      BY TakeCount
    <3>2. AllocI2(st) = r
      BY <2>1 DEF AllocI2
    <3> HIDE DEF t
    <3>3. IsWork(t)
      BY <3>1 DEF Passes
    <3>4. /\ Passes(t, r)
          /\ r.ok => /\ t.cn \in Clusters /\ r.sb = t.sb /\ r.cn = t.cn /\ r.store = t.store
                     /\ r.ip.d = t.ip.d /\ r.ip.i1 = t.ip.i1 /\ r.ip.i2 = t.cn
                     /\ r.ip.clucnt = t.ip.clucnt /\ r.refs = NullRefs
      BY <3>3, SetI2Is
    <3> HIDE DEF r
    <3>5. Passes(st, r)
      BY <3>1, <3>3, <3>4, PassesOn
    <3>6. Tab(st.store, st.ip.i2) = NullRefs
      BY <1>2, Sizes2 DEF Tab
    <3>7. ASSUME r.ok
          PROVE  /\ r.ip.i2 \in Clusters /\ r.store = st.store
                 /\ r.refs = NullRefs
                 /\ r.ip.d = st.ip.d /\ r.ip.i1 = st.ip.i1
                 /\ r.ip.clucnt = st.ip.clucnt + 1
                 /\ Drawing(st.sb, r.sb) =>
                      Shrinks(st.sb, r.sb) /\ Fresh(st.sb, r.sb, r.ip.i2)
      <4>1. Took1(st, t)
        BY <3>1, <3>4, <3>7 DEF Passes
      <4>2. t.cn # NullReference
        BY <3>4, <3>7, Sizes2
      <4>3. QED
        BY <3>4, <3>7, <4>1, <4>2, Took1Fresh DEF Took1
    <3>8. QED
      BY <1>2, <3>2, <3>5, <3>6, <3>7
  <2>2. CASE ~(st.sb.cfree > 2)
    BY <1>2, <2>2, PassesThrow DEF AllocI2
  <2>3. QED
    BY <2>1, <2>2
<1>3. QED
  BY <1>1, <1>2

\* The table of the part a of the second level: what was there, or a new one.
LEMMA PartIs ==
  ASSUME NEW st, IsWork(st), NEW a \in Refs
  PROVE  LET r == Part(st, a) IN
         /\ Passes(st, r)
         /\ r.ok => /\ r.store = st.store /\ r.ip.d = st.ip.d /\ r.ip.i1 = st.ip.i1
                    /\ r.ip.i2 = st.ip.i2 /\ r.refs2[a] \in Clusters
                    /\ r.refs2 = [st.refs EXCEPT ![a] = r.refs2[a]]
                    /\ r.refs = Tab(st.store, st.refs[a])
                    /\ st.refs[a] # NullReference =>
                         /\ r.refs2[a] = st.refs[a] /\ r.ip.clucnt = st.ip.clucnt
                         /\ r.sb = st.sb
                    /\ st.refs[a] = NullReference =>
                         /\ r.ip.clucnt = st.ip.clucnt + 1
                         /\ Drawing(st.sb, r.sb) =>
                              Shrinks(st.sb, r.sb) /\ Fresh(st.sb, r.sb, r.refs2[a])
<1>1. CASE ~st.ok
  BY <1>1, PassesSelf DEF Part
<1>2. CASE st.ok /\ st.refs[a] # NullReference
  <2> DEFINE u == [st EXCEPT !.refs2 = st.refs]
             r == ReadRefs(u, st.refs[a])
  <2>1. Part(st, a) = r
    BY <1>2 DEF Part
  <2>2. /\ u \in States /\ u.sb = st.sb /\ u.ip = st.ip /\ u.store = st.store /\ u.ok
        /\ u.refs2 = st.refs /\ u.refs = st.refs /\ st.refs \in Tables
    BY <1>2, StateTypes DEF States
  <2> HIDE DEF u
  <2>3. IsWork(u)
    BY <2>2 DEF IsWork
  <2>4. Passes(st, u)
    BY <1>2, <2>2, <2>3, SameSum
  <2>5. /\ Passes(u, r)
        /\ r.ok => /\ st.refs[a] \in Clusters /\ r.sb = u.sb /\ r.ip = u.ip /\ r.store = u.store
                   /\ r.refs = RefsIn(u.store[st.refs[a]]) /\ r.refs2 = u.refs2
    BY <2>3, ReadRefsIs
  <2> HIDE DEF r
  <2>6. Passes(st, r)
    BY <2>3, <2>4, <2>5, PassesOn
  <2>7. st.refs = [st.refs EXCEPT ![a] = st.refs[a]]
    BY <2>2 DEF Tables
  <2>8. QED
    BY <1>2, <2>1, <2>2, <2>5, <2>6, <2>7 DEF Tab
<1>3. CASE st.ok /\ st.refs[a] = NullReference
  <2> DEFINE t == Take(Count(st))
             r == SetPart(t, a)
  <2>1. Passes(st, t) /\ (t.ok => Took1(st, t))
    BY TakeCount
  <2>2. Part(st, a) = r
    BY <1>3 DEF Part
  <2> HIDE DEF t
  <2>3. IsWork(t)
    BY <2>1 DEF Passes
  <2>4. /\ Passes(t, r)
        /\ r.ok => /\ t.cn \in Clusters /\ r.sb = t.sb /\ r.store = t.store /\ r.ip = t.ip
                   /\ r.refs = NullRefs /\ r.refs2 = [t.refs EXCEPT ![a] = t.cn]
    BY <2>3, SetPartIs
  <2> HIDE DEF r
  <2>5. Passes(st, r)
    BY <2>1, <2>3, <2>4, PassesOn
  <2>6. Tab(st.store, st.refs[a]) = NullRefs
    BY <1>3, Sizes2 DEF Tab
  <2>7. ASSUME r.ok
        PROVE  /\ r.store = st.store /\ r.ip.d = st.ip.d /\ r.ip.i1 = st.ip.i1
               /\ r.ip.i2 = st.ip.i2 /\ r.refs2[a] \in Clusters
               /\ r.refs2 = [st.refs EXCEPT ![a] = r.refs2[a]]
               /\ r.refs = NullRefs
               /\ r.ip.clucnt = st.ip.clucnt + 1
               /\ Drawing(st.sb, r.sb) =>
                    Shrinks(st.sb, r.sb) /\ Fresh(st.sb, r.sb, r.refs2[a])
    <3>1. Took1(st, t)
      BY <2>1, <2>4, <2>7 DEF Passes
    <3>2. t.cn # NullReference
      BY <2>4, <2>7, Sizes2
    <3>3. st.refs \in Tables
      BY StateTypes
    <3>4. r.refs2 = [st.refs EXCEPT ![a] = t.cn] /\ r.refs2[a] = t.cn
      BY <2>4, <2>7, <3>1, <3>3 DEF Took1, Tables
    <3>5. QED
      BY <2>4, <2>7, <3>1, <3>2, <3>4, Took1Fresh DEF Took1
  <2>8. QED
    BY <1>3, <2>2, <2>5, <2>6, <2>7
<1>4. QED
  BY <1>1, <1>2, <1>3

LEMMA EnterIs ==
  ASSUME NEW st, IsWork(st), NEW n \in Refs
  PROVE  LET r == Enter(st, n) IN
         /\ Passes(st, r)
         /\ r.ok => /\ r.sb = st.sb /\ r.cn = st.cn /\ r.ip = st.ip
                    /\ r.store = PutTable(st.store, st.ip.i1, [st.refs EXCEPT ![n] = st.cn])
<1>1. CASE st.ok
  <2> DEFINE e == [st.refs EXCEPT ![n] = st.cn]
  <2>1. e \in Tables
    BY StateTypes DEF Tables
  <2>2. Enter(st, n) = WriteRefs(st, st.ip.i1, e)
    BY <1>1 DEF Enter
  <2> DEFINE k == st.ip.i1
             r == WriteRefs(st, k, e)
  <2> HIDE DEF e, k
  <2>3. /\ Passes(st, r)
        /\ r.ok => /\ r.sb = st.sb /\ r.cn = st.cn /\ r.ip = st.ip
                   /\ r.store = PutTable(st.store, k, e)
    BY <2>1, WriteRefsIs
  <2> HIDE DEF r
  <2>4. Enter(st, n) = r
    BY <2>2 DEF r, k
  <2>5. QED
    BY <2>3, <2>4 DEF e, k
<1>2. CASE ~st.ok
  BY <1>2, PassesSelf DEF Enter
<1>3. QED
  BY <1>1, <1>2

LEMMA EnterBothIs ==
  ASSUME NEW st, IsWork(st), NEW a \in Refs, NEW b \in Refs
  PROVE  LET r == EnterBoth(st, a, b) IN
         /\ Passes(st, r)
         /\ r.ok => /\ r.sb = st.sb /\ r.cn = st.cn /\ r.ip = st.ip
                    /\ r.store = PutTable(PutTable(st.store, st.refs2[a], [st.refs EXCEPT ![b] = st.cn]),
                                   st.ip.i2, st.refs2)
<1>1. CASE st.ok
  <2> DEFINE e == [st.refs EXCEPT ![b] = st.cn]
             g == st.refs2
             c == st.refs2[a]
             k == st.ip.i2
             t == WriteRefs(st, c, e)
             r == WriteRefs(t, k, g)
  <2>1. e \in Tables /\ g \in Tables
    BY StateTypes DEF Tables
  <2>2. EnterBoth(st, a, b) = r
    BY <1>1 DEF EnterBoth
  <2> HIDE DEF e, g, c, k
  <2>3. /\ Passes(st, t)
        /\ t.ok => /\ t.sb = st.sb /\ t.cn = st.cn /\ t.ip = st.ip
                   /\ t.store = PutTable(st.store, c, e)
    BY <2>1, WriteRefsIs
  <2> HIDE DEF t
  <2>4. IsWork(t)
    BY <2>3 DEF Passes
  <2>5. /\ Passes(t, r)
        /\ r.ok => /\ r.sb = t.sb /\ r.cn = t.cn /\ r.ip = t.ip
                   /\ r.store = PutTable(t.store, k, g)
    BY <2>1, <2>4, WriteRefsIs
  <2> HIDE DEF r
  <2>6. Passes(st, r) /\ (r.ok => t.ok)
    BY <2>3, <2>4, <2>5, PassesOn DEF Passes
  <2>7. QED
    BY <2>2, <2>3, <2>5, <2>6 DEF e, g, c, k
<1>2. CASE ~st.ok
  BY <1>2, PassesSelf DEF EnterBoth
<1>3. QED
  BY <1>1, <1>2

LEMMA DrawingOn ==
  ASSUME NEW s0, NEW s1, NEW s2, s1.damage \subseteq s2.damage, Drawing(s0, s2)
  PROVE  Drawing(s0, s1) /\ (Shrinks(s0, s1) => Drawing(s1, s2))
BY DEF Drawing, Shrinks

LEMMA AllocIndirectIs ==
  ASSUME NEW st, IsWork(st), NEW n \in Refs
  PROVE  LET r == soAllocIndirectFileCluster(st, n)
             x == r.ip.i1
         IN
         /\ Passes(st, r)
         /\ r.ok =>
              /\ r.ip.d = st.ip.d /\ r.ip.i2 = st.ip.i2 /\ x \in Clusters
              /\ r.store = PutTable(st.store, x, [Tab(st.store, st.ip.i1) EXCEPT ![n] = r.cn])
              /\ r.ip.clucnt = st.ip.clucnt + (IF st.ip.i1 = NullReference THEN 2 ELSE 1)
              /\ st.ip.i1 # NullReference => x = st.ip.i1
              /\ Drawing(st.sb, r.sb) =>
                   /\ Shrinks(st.sb, r.sb)
                   /\ r.cn # NullReference => Fresh(st.sb, r.sb, r.cn)
                   /\ st.ip.i1 = NullReference => Fresh(st.sb, r.sb, x) /\ x # r.cn
<1> DEFINE s == IF st.ip.i1 = NullReference THEN AllocI1(st) ELSE ReadRefs(st, st.ip.i1)
           t == Count(Take(s))
           r == Enter(t, n)
<1>1. /\ Passes(st, s)
      /\ s.ok => /\ s.ip.i1 \in Clusters /\ s.store = st.store
                 /\ s.refs = Tab(st.store, st.ip.i1)
                 /\ s.ip.d = st.ip.d /\ s.ip.i2 = st.ip.i2
                 /\ st.ip.i1 # NullReference =>
                      s.ip.i1 = st.ip.i1 /\ s.ip.clucnt = st.ip.clucnt /\ s.sb = st.sb
                 /\ st.ip.i1 = NullReference =>
                      /\ s.ip.clucnt = st.ip.clucnt + 1
                      /\ Drawing(st.sb, s.sb) =>
                           Shrinks(st.sb, s.sb) /\ Fresh(st.sb, s.sb, s.ip.i1)
  BY FirstLevel
<1>2. soAllocIndirectFileCluster(st, n) = r
  BY DEF soAllocIndirectFileCluster
<1> HIDE DEF s
<1>3. IsWork(s) /\ st.sb.damage \subseteq s.sb.damage
  BY <1>1 DEF Passes
<1>4. Passes(s, t) /\ (t.ok => Took1(s, t))
  BY <1>3, CountTake
<1> HIDE DEF t
<1>5. IsWork(t) /\ s.sb.damage \subseteq t.sb.damage
  BY <1>4 DEF Passes
<1>6. /\ Passes(t, r)
      /\ r.ok => /\ r.sb = t.sb /\ r.cn = t.cn /\ r.ip = t.ip
                 /\ r.store = PutTable(t.store, t.ip.i1, [t.refs EXCEPT ![n] = t.cn])
  BY <1>5, EnterIs
<1> HIDE DEF r
<1>7. Passes(st, r)
  BY <1>1, <1>3, <1>4, <1>5, <1>6, PassesOn
<1>8. r.ok => t.ok /\ s.ok
  BY <1>4, <1>6 DEF Passes
<1>9. st.ip.clucnt \in Int /\ s.ip.clucnt \in Int
  BY <1>3, SumType
<1>10. ASSUME r.ok
       PROVE  /\ r.ip.d = st.ip.d /\ r.ip.i2 = st.ip.i2 /\ r.ip.i1 \in Clusters
              /\ r.store = PutTable(st.store, r.ip.i1, [Tab(st.store, st.ip.i1) EXCEPT ![n] = r.cn])
              /\ r.ip.clucnt = st.ip.clucnt + (IF st.ip.i1 = NullReference THEN 2 ELSE 1)
              /\ st.ip.i1 # NullReference => r.ip.i1 = st.ip.i1
  <2>1. Took1(s, t)
    BY <1>4, <1>8, <1>10
  <2>2. /\ t.store = s.store /\ t.refs = s.refs /\ t.ip.d = s.ip.d /\ t.ip.i1 = s.ip.i1
        /\ t.ip.i2 = s.ip.i2 /\ t.ip.clucnt = s.ip.clucnt + 1
    BY <2>1 DEF Took1
  <2>3. r.ip.clucnt = st.ip.clucnt + (IF st.ip.i1 = NullReference THEN 2 ELSE 1)
    BY <1>1, <1>6, <1>8, <1>9, <1>10, <2>2
  <2>4. QED
    BY <1>1, <1>6, <1>8, <1>10, <2>2, <2>3
<1>11. ASSUME r.ok, Drawing(st.sb, r.sb)
       PROVE  /\ Shrinks(st.sb, r.sb)
              /\ r.cn # NullReference => Fresh(st.sb, r.sb, r.cn)
              /\ st.ip.i1 = NullReference => Fresh(st.sb, r.sb, r.ip.i1) /\ r.ip.i1 # r.cn
  <2>1. Took1(s, t) /\ r.sb = t.sb /\ r.cn = t.cn /\ r.ip.i1 = s.ip.i1
    BY <1>4, <1>6, <1>8, <1>11 DEF Took1
  <2>2. Drawing(st.sb, s.sb) /\ (Shrinks(st.sb, s.sb) => Drawing(s.sb, t.sb))
    BY <1>5, <1>11, <2>1, DrawingOn
  <2>3. CASE st.ip.i1 # NullReference
    <3>1. s.sb = st.sb
      BY <1>1, <1>8, <1>11, <2>3
    <3>2. QED
      BY <1>11, <2>1, <2>3, <3>1, Took1Fresh
  <2>4. CASE st.ip.i1 = NullReference
    <3>1. Shrinks(st.sb, s.sb) /\ Fresh(st.sb, s.sb, s.ip.i1)
      BY <1>1, <1>8, <1>11, <2>2, <2>4
    <3>2. Drawing(s.sb, t.sb)
      BY <2>2, <3>1
    <3>3. Shrinks(s.sb, t.sb) /\ (t.cn # NullReference => Fresh(s.sb, t.sb, t.cn))
      BY <2>1, <3>2, Took1Fresh
    <3>4. s.ip.i1 # NullReference
      BY <1>1, <1>8, <1>11, Sizes2
    <3>5. QED
      BY <2>1, <3>1, <3>3, <3>4 DEF Fresh, Shrinks
  <2>5. QED
    BY <2>3, <2>4
<1>12. QED
  BY <1>2, <1>7, <1>10, <1>11

LEMMA AllocDoubleIs ==
  ASSUME NEW st, IsWork(st), NEW a \in Refs, NEW b \in Refs, NEW s, NEW p, NEW t, NEW r,
         s = (IF st.ip.i2 = NullReference THEN AllocI2(st) ELSE ReadRefs(st, st.ip.i2)),
         p = Part(s, a), t = Count(Take(p)), r = EnterBoth(t, a, b)
  PROVE  LET y == r.ip.i2
             T == Tab(st.store, st.ip.i2)
             c == p.refs2[a]
         IN
         /\ Passes(st, r)
         /\ r.ok =>
              /\ r.ip.d = st.ip.d /\ r.ip.i1 = st.ip.i1 /\ y \in Clusters /\ c \in Clusters
              /\ r.store = PutTable(PutTable(st.store, c, [Tab(st.store, T[a]) EXCEPT ![b] = r.cn]),
                               y, [T EXCEPT ![a] = c])
              /\ r.ip.clucnt = st.ip.clucnt + 1 + (IF st.ip.i2 = NullReference THEN 1 ELSE 0)
                                                + (IF T[a] = NullReference THEN 1 ELSE 0)
              /\ st.ip.i2 # NullReference => y = st.ip.i2
              /\ T[a] # NullReference => c = T[a]
              /\ Drawing(st.sb, r.sb) =>
                   /\ Shrinks(st.sb, r.sb)
                   /\ r.cn # NullReference => Fresh(st.sb, r.sb, r.cn)
                   /\ st.ip.i2 = NullReference => Fresh(st.sb, r.sb, y) /\ y # r.cn
                   /\ T[a] = NullReference => Fresh(st.sb, r.sb, c) /\ c # r.cn
                   /\ st.ip.i2 = NullReference /\ T[a] = NullReference => c # y
<1> DEFINE T == Tab(st.store, st.ip.i2)
           c == p.refs2[a]
<1>1. /\ Passes(st, s)
      /\ s.ok => /\ s.ip.i2 \in Clusters /\ s.store = st.store
                 /\ s.refs = T
                 /\ s.ip.d = st.ip.d /\ s.ip.i1 = st.ip.i1
                 /\ st.ip.i2 # NullReference =>
                      s.ip.i2 = st.ip.i2 /\ s.ip.clucnt = st.ip.clucnt /\ s.sb = st.sb
                 /\ st.ip.i2 = NullReference =>
                      /\ s.ip.clucnt = st.ip.clucnt + 1
                      /\ Drawing(st.sb, s.sb) =>
                           Shrinks(st.sb, s.sb) /\ Fresh(st.sb, s.sb, s.ip.i2)
  BY SecondLevel
<1> HIDE DEF T
<1>2. IsWork(s) /\ st.sb.damage \subseteq s.sb.damage
  BY <1>1 DEF Passes
<1>3. /\ Passes(s, p)
      /\ p.ok => /\ p.store = s.store /\ p.ip.d = s.ip.d /\ p.ip.i1 = s.ip.i1
                 /\ p.ip.i2 = s.ip.i2 /\ c \in Clusters
                 /\ p.refs2 = [s.refs EXCEPT ![a] = c]
                 /\ p.refs = Tab(s.store, s.refs[a])
                 /\ s.refs[a] # NullReference =>
                      /\ c = s.refs[a] /\ p.ip.clucnt = s.ip.clucnt /\ p.sb = s.sb
                 /\ s.refs[a] = NullReference =>
                      /\ p.ip.clucnt = s.ip.clucnt + 1
                      /\ Drawing(s.sb, p.sb) =>
                           Shrinks(s.sb, p.sb) /\ Fresh(s.sb, p.sb, c)
  BY <1>2, PartIs, SMTT(60)
<1> HIDE DEF c
<1>4. IsWork(p) /\ s.sb.damage \subseteq p.sb.damage
  BY <1>3 DEF Passes
<1>5. Passes(p, t) /\ (t.ok => Took1(p, t))
  BY <1>4, CountTake
<1>6. IsWork(t) /\ p.sb.damage \subseteq t.sb.damage
  BY <1>5 DEF Passes
<1>7. /\ Passes(t, r)
      /\ r.ok => /\ r.sb = t.sb /\ r.cn = t.cn /\ r.ip = t.ip
                 /\ r.store = PutTable(PutTable(t.store, t.refs2[a], [t.refs EXCEPT ![b] = t.cn]),
                                  t.ip.i2, t.refs2)
  BY <1>6, EnterBothIs
<1>8. Passes(st, r)
  <2>1. Passes(st, p)
    BY <1>1, <1>2, <1>3, PassesOn
  <2>2. Passes(st, t)
    BY <1>4, <1>5, <2>1, PassesOn
  <2>3. QED
    BY <1>6, <1>7, <2>2, PassesOn
<1>9. r.ok => t.ok /\ p.ok /\ s.ok
  BY <1>3, <1>5, <1>7 DEF Passes
<1> DEFINE Shape == r.store = PutTable(PutTable(t.store, t.refs2[a], [t.refs EXCEPT ![b] = t.cn]),
                                  t.ip.i2, t.refs2)
<1>14. r.ok => r.sb = t.sb /\ r.cn = t.cn /\ r.ip = t.ip
  <2>1. r.ok => r.sb = t.sb /\ r.cn = t.cn /\ r.ip = t.ip /\ Shape
    BY <1>7
  <2> HIDE DEF Shape
  <2>2. QED
    BY <2>1
<1>15. s.ok => /\ s.ip.i2 \in Clusters /\ s.store = st.store /\ s.refs = T
               /\ s.ip.d = st.ip.d /\ s.ip.i1 = st.ip.i1
               /\ st.ip.i2 # NullReference => s.ip.i2 = st.ip.i2 /\ s.sb = st.sb
  BY <1>1
<1> DEFINE Changed == p.refs2 = [s.refs EXCEPT ![a] = c]
<1>16. p.ok => /\ p.store = s.store /\ p.ip.d = s.ip.d /\ p.ip.i1 = s.ip.i1
               /\ p.ip.i2 = s.ip.i2 /\ c \in Clusters
               /\ s.refs[a] # NullReference => c = s.refs[a] /\ p.sb = s.sb
  <2>1. /\ Passes(s, p)
        /\ p.ok => /\ p.store = s.store /\ p.ip.d = s.ip.d /\ p.ip.i1 = s.ip.i1
                   /\ p.ip.i2 = s.ip.i2 /\ c \in Clusters
                   /\ Changed
                   /\ s.refs[a] # NullReference =>
                        /\ c = s.refs[a] /\ p.ip.clucnt = s.ip.clucnt /\ p.sb = s.sb
    BY <1>3
  <2> HIDE DEF Changed
  <2>2. QED
    BY <2>1
<1> HIDE DEF Shape, Changed
<1>10. /\ st.ip.clucnt \in Int /\ s.ip.clucnt \in Int /\ p.ip.clucnt \in Int
  BY <1>2, <1>4, SumType
<1>11. ASSUME r.ok
       PROVE  /\ r.ip.d = st.ip.d /\ r.ip.i1 = st.ip.i1 /\ r.ip.i2 \in Clusters /\ c \in Clusters
              /\ r.store = PutTable(PutTable(st.store, c, [Tab(st.store, T[a]) EXCEPT ![b] = r.cn]),
                               r.ip.i2, [T EXCEPT ![a] = c])
              /\ r.ip.clucnt = st.ip.clucnt + 1 + (IF st.ip.i2 = NullReference THEN 1 ELSE 0)
                                                + (IF T[a] = NullReference THEN 1 ELSE 0)
              /\ st.ip.i2 # NullReference => r.ip.i2 = st.ip.i2
              /\ T[a] # NullReference => c = T[a]
  <2>1. /\ t.store = p.store /\ t.refs = p.refs /\ t.refs2 = p.refs2 /\ t.ip.d = p.ip.d
        /\ t.ip.i1 = p.ip.i1 /\ t.ip.i2 = p.ip.i2 /\ t.ip.clucnt = p.ip.clucnt + 1
    BY <1>5, <1>9, <1>11 DEF Took1
  <2>2. r.ip.clucnt = p.ip.clucnt + 1 /\ s.refs = T
    BY <1>1, <1>7, <1>9, <1>11, <2>1
  <2>3. p.ip.clucnt = s.ip.clucnt + (IF T[a] = NullReference THEN 1 ELSE 0)
    BY <1>3, <1>9, <1>10, <1>11, <2>2
  <2>4. s.ip.clucnt = st.ip.clucnt + (IF st.ip.i2 = NullReference THEN 1 ELSE 0)
    BY <1>1, <1>9, <1>10, <1>11
  <2>5. r.ip.clucnt = st.ip.clucnt + 1 + (IF st.ip.i2 = NullReference THEN 1 ELSE 0)
                                       + (IF T[a] = NullReference THEN 1 ELSE 0)
    BY <1>10, <2>2, <2>3, <2>4
  <2>6. r.store = PutTable(PutTable(st.store, c, [Tab(st.store, T[a]) EXCEPT ![b] = r.cn]),
                      r.ip.i2, [T EXCEPT ![a] = c])
    <3>1. t.refs2[a] = c
      BY <2>1 DEF c
    <3>2. t.refs2 = [T EXCEPT ![a] = c]
      BY <1>3, <1>9, <1>11, <2>1, <2>2
    <3>3. t.refs = Tab(st.store, T[a])
      BY <1>1, <1>3, <1>9, <1>11, <2>1, <2>2
    <3>4. t.store = st.store /\ r.ip.i2 = t.ip.i2 /\ r.cn = t.cn
      BY <1>1, <1>3, <1>7, <1>9, <1>11, <2>1
    <3>5. r.store = PutTable(PutTable(t.store, t.refs2[a], [t.refs EXCEPT ![b] = t.cn]),
                        t.ip.i2, t.refs2)
      BY <1>7, <1>11
    <3>6. QED
      BY <3>1, <3>2, <3>3, <3>4, <3>5
  <2>7. QED
    BY <1>14, <1>15, <1>16, <1>9, <1>11, <2>1, <2>2, <2>5, <2>6
<1>12. ASSUME r.ok, Drawing(st.sb, r.sb)
       PROVE  /\ Shrinks(st.sb, r.sb)
              /\ r.cn # NullReference => Fresh(st.sb, r.sb, r.cn)
              /\ st.ip.i2 = NullReference => Fresh(st.sb, r.sb, r.ip.i2) /\ r.ip.i2 # r.cn
              /\ T[a] = NullReference => Fresh(st.sb, r.sb, c) /\ c # r.cn
              /\ st.ip.i2 = NullReference /\ T[a] = NullReference => c # r.ip.i2
  <2>1. /\ r.sb = t.sb /\ r.cn = t.cn /\ r.ip.i2 = s.ip.i2 /\ Took1(p, t) /\ s.refs = T
        /\ r.ip.i2 # NullReference /\ c # NullReference
    <3>1. t.ok /\ p.ok /\ s.ok
      BY <1>9, <1>12
    <3>2. Took1(p, t) /\ t.ip.i2 = p.ip.i2
      BY <1>5, <3>1 DEF Took1
    <3>3. /\ s.refs = T /\ s.ip.i2 \in Clusters /\ p.ip.i2 = s.ip.i2 /\ c \in Clusters
          /\ r.sb = t.sb /\ r.cn = t.cn /\ r.ip = t.ip
      BY <1>14, <1>15, <1>16, <1>12, <3>1
    <3>4. NullReference \notin Clusters
      BY Sizes2
    <3>5. QED
      BY <3>2, <3>3, <3>4
  <2>2. Drawing(st.sb, s.sb)
    BY <1>4, <1>6, <1>12, <2>1 DEF Drawing
  <2>3. Shrinks(st.sb, s.sb) /\ (st.ip.i2 = NullReference => Fresh(st.sb, s.sb, r.ip.i2))
    <3>1. CASE st.ip.i2 = NullReference
      BY <1>1, <1>9, <1>12, <2>1, <2>2, <3>1
    <3>2. CASE st.ip.i2 # NullReference
      BY <1>1, <1>9, <1>12, <2>2, <3>2 DEF Drawing, Shrinks
    <3>3. QED
      BY <3>1, <3>2
  <2>4. Drawing(s.sb, p.sb)
    BY <1>6, <1>12, <2>1, <2>3 DEF Drawing, Shrinks
  <2>5. Shrinks(s.sb, p.sb) /\ (T[a] = NullReference => Fresh(s.sb, p.sb, c))
    <3>1. CASE T[a] = NullReference
      BY <1>3, <1>9, <1>12, <2>1, <2>4, <3>1
    <3>2. CASE T[a] # NullReference
      BY <1>3, <1>9, <1>12, <2>1, <2>4, <3>2 DEF Drawing, Shrinks
    <3>3. QED
      BY <3>1, <3>2
  <2>6. Drawing(p.sb, t.sb)
    BY <1>12, <2>1, <2>5 DEF Drawing, Shrinks
  <2>7. Shrinks(p.sb, t.sb) /\ (t.cn # NullReference => Fresh(p.sb, t.sb, t.cn))
    BY <2>1, <2>6, Took1Fresh
  <2>8. QED
    BY <2>1, <2>3, <2>5, <2>7 DEF Fresh, Shrinks
<1>13. QED
  BY <1>8, <1>11, <1>12 DEF T, c

-----------------------------------------------------------------------------
(***************************************************************************)
(* The steps of a release.  GivesBack: what the superblock counts as free and  *)
(* what the operation counts as the file's stay together, the clusters are *)
(* not written, and references of the inode are only cleared.              *)
(***************************************************************************)
Books(st) == st.sb.cfree + st.total
GivesBack(st, r) ==
    /\ IsWork(r) /\ st.sb.damage \subseteq r.sb.damage /\ (r.ok => st.ok)
    /\ r.store = st.store /\ r.ip.clucnt = st.ip.clucnt
    /\ r.sb.cfree >= st.sb.cfree /\ Books(r) = Books(st)
    /\ \A n \in Direct : r.ip.d[n] \in {st.ip.d[n], NullReference}
    /\ r.ip.i1 \in {st.ip.i1, NullReference} /\ r.ip.i2 \in {st.ip.i2, NullReference}

LEMMA BooksType ==
  ASSUME NEW st, IsWork(st)
  PROVE  Books(st) \in Int /\ st.sb.cfree \in Nat /\ st.total \in Int
BY StateTypes, SbTypes DEF Books

LEMMA FreesSelf ==
  ASSUME NEW st, IsWork(st)
  PROVE  GivesBack(st, st)
BY BooksType DEF GivesBack

LEMMA FreesOn ==
  ASSUME NEW st, IsWork(st), NEW s, GivesBack(st, s), NEW r, GivesBack(s, r)
  PROVE  GivesBack(st, r)
<1>1. /\ st.sb.cfree \in Nat /\ s.sb.cfree \in Nat /\ r.sb.cfree \in Nat
  BY BooksType DEF GivesBack
<1>2. r.sb.cfree >= st.sb.cfree
  BY <1>1 DEF GivesBack
<1>3. QED
  BY <1>2 DEF GivesBack

LEMMA FreesThrow ==
  ASSUME NEW st, IsWork(st)
  PROVE  GivesBack(st, Throw(st)) /\ ~Throw(st).ok
<1>1. /\ IsWork(Throw(st)) /\ ~Throw(st).ok /\ Throw(st).sb = st.sb /\ Throw(st).ip = st.ip
      /\ Throw(st).store = st.store /\ Throw(st).total = st.total
  BY ThrowIs
<1>2. QED
  BY <1>1, BooksType DEF GivesBack, Books

LEMMA ReleaseIs ==
  ASSUME NEW st, IsWork(st), NEW cn \in Reference
  PROVE  LET r == Release(st, cn) IN
         /\ GivesBack(st, r) /\ r.ip = st.ip
         /\ cn = NullReference => r = st
         /\ cn # NullReference /\ r.ok =>
              /\ st.ok /\ cn \in Nat /\ ~Invalid(st.sb, cn)
              /\ r.sb = soFreeCluster(st.sb, cn) /\ r.total = st.total - 1
<1>1. CASE cn = NullReference
  BY <1>1, FreesSelf DEF Release
<1>2. CASE cn # NullReference /\ (~st.ok \/ Invalid(st.sb, cn))
  <2>1. Release(st, cn) = Throw(st)
    BY <1>2 DEF Release
  <2>2. Throw(st).ip = st.ip
    BY ThrowIs
  <2>3. QED
    BY <1>2, <2>1, <2>2, FreesThrow
<1>3. CASE cn # NullReference /\ ~(~st.ok \/ Invalid(st.sb, cn))
  <2> DEFINE s == soFreeCluster(st.sb, cn)
             r == Release(st, cn)
  <2>1. cn \in Nat /\ IsSb(st.sb)
    BY <1>3, StateTypes DEF Reference
  <2>2. IsSb(s) /\ s.cfree = st.sb.cfree + 1 /\ st.sb.damage \subseteq s.damage
    <3> DEFINE b == st.sb
    <3>1. IsSb(b)
      BY <2>1
    <3> HIDE DEF b
    <3>2. /\ IsSb(soFreeCluster(b, cn)) /\ soFreeCluster(b, cn).cfree = b.cfree + 1
          /\ b.damage \subseteq soFreeCluster(b, cn).damage
      BY <2>1, <3>1, FreeTypes
    <3>3. QED
      BY <3>2 DEF b
  <2>3. r = [st EXCEPT !.sb = s, !.total = @ - 1]
    BY <1>3 DEF Release
  <2> HIDE DEF s
  <2>4. st \in States /\ st.total \in Int /\ s \in Superblocks
    BY <2>2, StateTypes DEF IsSb
  <2>5. /\ r \in States /\ r.sb = s /\ r.total = st.total - 1 /\ r.ip = st.ip
        /\ r.store = st.store /\ r.ok = st.ok
    <3> DEFINE m == st.total - 1
    <3>1. r = [st EXCEPT !.sb = s, !.total = m] /\ m \in Int
      BY <2>3, <2>4
    <3> HIDE DEF m, r
    <3>2. /\ r \in States /\ r.sb = s /\ r.total = m /\ r.ip = st.ip
          /\ r.store = st.store /\ r.ok = st.ok
      BY <2>4, <3>1 DEF States
    <3>3. QED
      BY <3>2 DEF m
  <2> HIDE DEF r
  <2>6. IsWork(r)
    BY <2>2, <2>5 DEF IsWork, IsSb
  <2>7. st.sb.cfree \in Nat
    BY BooksType
  <2>8. GivesBack(st, r)
    BY <2>2, <2>4, <2>5, <2>6, <2>7 DEF GivesBack, Books
  <2>9. QED
    BY <1>3, <2>1, <2>5, <2>8 DEF r, s
<1>4. QED
  BY <1>1, <1>2, <1>3

LEMMA ClearI1Is ==
  ASSUME NEW st, IsWork(st)
  PROVE  LET r == ClearI1(st) IN
         /\ GivesBack(st, r) /\ r.sb = st.sb /\ r.total = st.total /\ r.ok = st.ok
         /\ r.ip.i2 = st.ip.i2 /\ (r.ok => r.ip.i1 = NullReference)
<1>1. CASE st.ok
  <2> DEFINE r == ClearI1(st)
  <2>1. r = [st EXCEPT !.ip.i1 = NullReference] /\ st \in States
    BY <1>1, StateTypes DEF ClearI1
  <2>2. /\ r \in States /\ r.sb = st.sb /\ r.total = st.total /\ r.ok = st.ok
        /\ r.store = st.store /\ r.ip.d = st.ip.d /\ r.ip.i1 = NullReference
        /\ r.ip.i2 = st.ip.i2 /\ r.ip.clucnt = st.ip.clucnt
    BY <2>1, Sizes2 DEF States, InodeParts
  <2> HIDE DEF r
  <2>3. IsWork(r)
    BY <2>2 DEF IsWork
  <2>4. QED
    BY <2>2, <2>3, BooksType DEF GivesBack, Books, r
<1>2. CASE ~st.ok
  BY <1>2, FreesSelf DEF ClearI1
<1>3. QED
  BY <1>1, <1>2

LEMMA ClearI2Is ==
  ASSUME NEW st, IsWork(st)
  PROVE  LET r == ClearI2(st) IN
         /\ GivesBack(st, r) /\ r.sb = st.sb /\ r.total = st.total /\ r.ok = st.ok
         /\ r.ip.i1 = st.ip.i1 /\ (r.ok => r.ip.i2 = NullReference)
<1>1. CASE st.ok
  <2> DEFINE r == ClearI2(st)
  <2>1. r = [st EXCEPT !.ip.i2 = NullReference] /\ st \in States
    BY <1>1, StateTypes DEF ClearI2
  <2>2. /\ r \in States /\ r.sb = st.sb /\ r.total = st.total /\ r.ok = st.ok
        /\ r.store = st.store /\ r.ip.d = st.ip.d /\ r.ip.i1 = st.ip.i1
        /\ r.ip.i2 = NullReference /\ r.ip.clucnt = st.ip.clucnt
    BY <2>1, Sizes2 DEF States, InodeParts
  <2> HIDE DEF r
  <2>3. IsWork(r)
    BY <2>2 DEF IsWork
  <2>4. QED
    BY <2>2, <2>3, BooksType DEF GivesBack, Books, r
<1>2. CASE ~st.ok
  BY <1>2, FreesSelf DEF ClearI2
<1>3. QED
  BY <1>1, <1>2

LEMMA SetCountIs ==
  ASSUME NEW st, IsWork(st)
  PROVE  LET r == SetCount(st) IN
         /\ IsWork(r) /\ r.sb = st.sb /\ r.store = st.store /\ r.ok = st.ok
         /\ r.ip.d = st.ip.d /\ r.ip.i1 = st.ip.i1 /\ r.ip.i2 = st.ip.i2
         /\ r.ip.clucnt = IF st.ok THEN st.total ELSE st.ip.clucnt
<1>1. CASE st.ok
  <2> DEFINE r == SetCount(st)
  <2>1. r = [st EXCEPT !.ip.clucnt = st.total] /\ st \in States /\ st.total \in Int
    BY <1>1, StateTypes DEF SetCount
  <2>2. /\ r \in States /\ r.sb = st.sb /\ r.ok = st.ok
        /\ r.store = st.store /\ r.ip.d = st.ip.d /\ r.ip.i1 = st.ip.i1
        /\ r.ip.i2 = st.ip.i2 /\ r.ip.clucnt = st.total
    BY <2>1, Sizes2 DEF States, InodeParts
  <2> HIDE DEF r
  <2>3. QED
    BY <1>1, <2>2 DEF IsWork, r
<1>2. CASE ~st.ok
  BY <1>2 DEF SetCount
<1>3. QED
  BY <1>1, <1>2

\* Max of a set, once its greatest element is known.
LEMMA MaxIs ==
  ASSUME NEW T, NEW m \in Nat, m \in T, \A x \in T : x \in Nat /\ x <= m
  PROVE  Max(T) = m
<1>1. \A x \in T : m >= x
  OBVIOUS
<1>2. \A x \in T : (\A y \in T : x >= y) => x = m
  OBVIOUS
<1>3. QED
  BY <1>1, <1>2 DEF Max

LEMMA StepByStep ==
  ASSUME NEW P, NEW n \in Nat, 0 \in P, \A k \in 1..n : k - 1 \in P => k \in P
  PROVE  \A k \in 0..n : k \in P
<1> DEFINE Bad == {k \in 0..n : k \notin P}
<1>1. ASSUME Bad # {} PROVE FALSE
  <2>1. PICK m \in Bad : \A k \in Bad : m <= k
    <3>1. Bad \in SUBSET Nat
      OBVIOUS
    <3> HIDE DEF Bad
    <3>2. QED
      BY <1>1, <3>1, Least
  <2>2. m \in 0..n /\ m # 0 /\ m \notin P
    OBVIOUS
  <2>3. m \in 1..n /\ m - 1 \in 0..n /\ ~(m <= m - 1)
    BY <2>2
  <2>4. m - 1 \notin Bad
    <3> HIDE DEF Bad
    <3>1. QED
      BY <2>1, <2>3
  <2>5. QED
    BY <2>2, <2>3, <2>4
<1>2. QED
  BY <1>1

-----------------------------------------------------------------------------
(***************************************************************************)
(* Releases, one after the other: the states on the way.                   *)
(***************************************************************************)
Releasing(f, s, n) == \A k \in 1..n : f[k] = Release(f[k - 1], s[k])
Freeing(f, s, n) == \A k \in 1..n : f[k] = FreeTable(f[k - 1], s[k])

LEMMA ReleaseTrace ==
  ASSUME NEW base, NEW s, NEW n \in Nat, DOMAIN s = 1..n
  PROVE  \E f : /\ ReleaseEach(base, s) = f[n] /\ f[0] = base /\ Releasing(f, s, n)
<1> DEFINE Body(g, m) ==
             [T \in SUBSET (1..m) |-> IF T = {} THEN base ELSE Release(g[T \ {Max(T)}], s[Max(T)])]
           Bad == {m \in 0..n : ~\E g : g = Body(g, m)}
<1>1. Bad = {}
  <2> SUFFICES ASSUME Bad # {} PROVE FALSE
    OBVIOUS
  <2>1. PICK m \in Bad : \A k \in Bad : m <= k
    <3>1. Bad \in SUBSET Nat
      OBVIOUS
    <3> HIDE DEF Bad
    <3>2. QED
      BY <3>1, Least
  <2>2. CASE m = 0
    <3> DEFINE g == [T \in SUBSET (1..0) |-> base]
    <3>1. g = Body(g, 0)
      OBVIOUS
    <3>2. QED
      BY <2>2, <3>1
  <2>3. CASE m # 0
    <3>1. m \in Nat /\ m >= 1 /\ m <= n /\ m - 1 \in 0..n
      BY <2>3
    <3>2. m - 1 \notin Bad
      <4> HIDE DEF Bad
      <4>1. QED
        BY <2>1, <3>1
    <3>3. PICK g : g = Body(g, m - 1)
      BY <3>1, <3>2
    <3> DEFINE h == [T \in SUBSET (1..m) |-> IF m \in T THEN Release(g[T \ {m}], s[m]) ELSE g[T]]
    <3>4. h = Body(h, m)
      <4> SUFFICES ASSUME NEW T \in SUBSET (1..m)
                   PROVE  h[T] = IF T = {} THEN base ELSE Release(h[T \ {Max(T)}], s[Max(T)])
        OBVIOUS
      <4>1. CASE m \in T
        <5>1. \A x \in T : x \in Nat /\ x <= m
          BY <3>1
        <5>2. Max(T) = m
          BY <3>1, <4>1, <5>1, MaxIs
        <5>3. T \ {m} \in SUBSET (1..m) /\ m \notin T \ {m}
          OBVIOUS
        <5>4. h[T \ {m}] = g[T \ {m}]
          BY <5>3
        <5>5. QED
          BY <4>1, <5>2, <5>4
      <4>2. CASE m \notin T
        <5>1. T \in SUBSET (1..(m - 1))
          BY <3>1, <4>2
        <5>2. h[T] = g[T]
          BY <4>2
        <5>3. h[T \ {Max(T)}] = g[T \ {Max(T)}]
          <6>1. T \ {Max(T)} \in SUBSET (1..m) /\ m \notin T \ {Max(T)}
            BY <4>2
          <6>2. QED
            BY <6>1
        <5>4. g[T] = IF T = {} THEN base ELSE Release(g[T \ {Max(T)}], s[Max(T)])
          BY <3>3, <5>1
        <5>5. QED
          BY <5>2, <5>3, <5>4
      <4>3. QED
        BY <4>1, <4>2
    <3> HIDE DEF h
    <3>5. QED
      BY <2>1, <3>4
  <2>4. QED
    BY <2>2, <2>3
<1> DEFINE iter == CHOOSE g : g = Body(g, n)
<1>2. iter = Body(iter, n)
  <2>1. n \notin Bad
    BY <1>1, Zenon
  <2>2. \E g : g = Body(g, n)
    <3>1. n \in 0..n
      OBVIOUS
    <3> HIDE DEF Body
    <3>2. QED
      BY <2>1, <3>1
  <2> HIDE DEF Body, Bad
  <2>3. QED
    BY <2>2
<1>3. ReleaseEach(base, s) = iter[1..n]
  BY DEF ReleaseEach, FoldLeft, MapThenFoldSet
<1> HIDE DEF iter
<1>4. iter[1..0] = base
  BY <1>2
<1>5. ASSUME NEW k \in 1..n PROVE iter[1..k] = Release(iter[1..(k - 1)], s[k])
  <2>1. k \in Nat /\ k \in 1..k /\ 1..k \in SUBSET (1..n)
    OBVIOUS
  <2>2. Max(1..k) = k
    <3>1. \A x \in 1..k : x \in Nat /\ x <= k
      OBVIOUS
    <3>2. QED
      BY <2>1, <3>1, MaxIs
  <2>3. (1..k) \ {k} = 1..(k - 1)
    OBVIOUS
  <2>4. iter[1..k] = Release(iter[(1..k) \ {k}], s[k])
    BY <1>2, <2>1, <2>2
  <2>5. QED
    BY <2>3, <2>4
<1> DEFINE f == [k \in 0..n |-> iter[1..k]]
<1>6. f[n] = iter[1..n] /\ f[0] = iter[1..0]
  OBVIOUS
<1>7. ASSUME NEW k \in 1..n PROVE f[k] = Release(f[k - 1], s[k])
  <2>1. f[k] = iter[1..k] /\ f[k - 1] = iter[1..(k - 1)]
    OBVIOUS
  <2> HIDE DEF f
  <2>2. QED
    BY <1>5, <2>1
<1> HIDE DEF f
<1>8. QED
  BY <1>3, <1>4, <1>6, <1>7 DEF Releasing

LEMMA TableTrace ==
  ASSUME NEW base, NEW s, NEW n \in Nat, DOMAIN s = 1..n
  PROVE  \E f : /\ FreeTables(base, s) = f[n] /\ f[0] = base /\ Freeing(f, s, n)
<1> DEFINE Body(g, m) ==
             [T \in SUBSET (1..m) |-> IF T = {} THEN base ELSE FreeTable(g[T \ {Max(T)}], s[Max(T)])]
           Bad == {m \in 0..n : ~\E g : g = Body(g, m)}
<1>1. Bad = {}
  <2> SUFFICES ASSUME Bad # {} PROVE FALSE
    OBVIOUS
  <2>1. PICK m \in Bad : \A k \in Bad : m <= k
    <3>1. Bad \in SUBSET Nat
      OBVIOUS
    <3> HIDE DEF Bad
    <3>2. QED
      BY <3>1, Least
  <2>2. CASE m = 0
    <3> DEFINE g == [T \in SUBSET (1..0) |-> base]
    <3>1. g = Body(g, 0)
      OBVIOUS
    <3>2. QED
      BY <2>2, <3>1
  <2>3. CASE m # 0
    <3>1. m \in Nat /\ m >= 1 /\ m <= n /\ m - 1 \in 0..n
      BY <2>3
    <3>2. m - 1 \notin Bad
      <4> HIDE DEF Bad
      <4>1. QED
        BY <2>1, <3>1
    <3>3. PICK g : g = Body(g, m - 1)
      BY <3>1, <3>2
    <3> DEFINE h == [T \in SUBSET (1..m) |-> IF m \in T THEN FreeTable(g[T \ {m}], s[m]) ELSE g[T]]
    <3>4. h = Body(h, m)
      <4> SUFFICES ASSUME NEW T \in SUBSET (1..m)
                   PROVE  h[T] = IF T = {} THEN base ELSE FreeTable(h[T \ {Max(T)}], s[Max(T)])
        OBVIOUS
      <4>1. CASE m \in T
        <5>1. \A x \in T : x \in Nat /\ x <= m
          BY <3>1
        <5>2. Max(T) = m
          BY <3>1, <4>1, <5>1, MaxIs
        <5>3. T \ {m} \in SUBSET (1..m) /\ m \notin T \ {m}
          OBVIOUS
        <5>4. h[T \ {m}] = g[T \ {m}]
          BY <5>3
        <5>5. QED
          BY <4>1, <5>2, <5>4
      <4>2. CASE m \notin T
        <5>1. T \in SUBSET (1..(m - 1))
          BY <3>1, <4>2
        <5>2. h[T] = g[T]
          BY <4>2
        <5>3. h[T \ {Max(T)}] = g[T \ {Max(T)}]
          <6>1. T \ {Max(T)} \in SUBSET (1..m) /\ m \notin T \ {Max(T)}
            BY <4>2
          <6>2. QED
            BY <6>1
        <5>4. g[T] = IF T = {} THEN base ELSE FreeTable(g[T \ {Max(T)}], s[Max(T)])
          BY <3>3, <5>1
        <5>5. QED
          BY <5>2, <5>3, <5>4
      <4>3. QED
        BY <4>1, <4>2
    <3> HIDE DEF h
    <3>5. QED
      BY <2>1, <3>4
  <2>4. QED
    BY <2>2, <2>3
<1> DEFINE iter == CHOOSE g : g = Body(g, n)
<1>2. iter = Body(iter, n)
  <2>1. n \notin Bad
    BY <1>1, Zenon
  <2>2. \E g : g = Body(g, n)
    <3>1. n \in 0..n
      OBVIOUS
    <3> HIDE DEF Body
    <3>2. QED
      BY <2>1, <3>1
  <2> HIDE DEF Body, Bad
  <2>3. QED
    BY <2>2
<1>3. FreeTables(base, s) = iter[1..n]
  BY DEF FreeTables, FoldLeft, MapThenFoldSet
<1> HIDE DEF iter
<1>4. iter[1..0] = base
  BY <1>2
<1>5. ASSUME NEW k \in 1..n PROVE iter[1..k] = FreeTable(iter[1..(k - 1)], s[k])
  <2>1. k \in Nat /\ k \in 1..k /\ 1..k \in SUBSET (1..n)
    OBVIOUS
  <2>2. Max(1..k) = k
    <3>1. \A x \in 1..k : x \in Nat /\ x <= k
      OBVIOUS
    <3>2. QED
      BY <2>1, <3>1, MaxIs
  <2>3. (1..k) \ {k} = 1..(k - 1)
    OBVIOUS
  <2>4. iter[1..k] = FreeTable(iter[(1..k) \ {k}], s[k])
    BY <1>2, <2>1, <2>2
  <2>5. QED
    BY <2>3, <2>4
<1> DEFINE f == [k \in 0..n |-> iter[1..k]]
<1>6. f[n] = iter[1..n] /\ f[0] = iter[1..0]
  OBVIOUS
<1>7. ASSUME NEW k \in 1..n PROVE f[k] = FreeTable(f[k - 1], s[k])
  <2>1. f[k] = iter[1..k] /\ f[k - 1] = iter[1..(k - 1)]
    OBVIOUS
  <2> HIDE DEF f
  <2>2. QED
    BY <1>5, <2>1
<1> HIDE DEF f
<1>8. QED
  BY <1>3, <1>4, <1>6, <1>7 DEF Freeing

LEMMA ReleaseEachFrees ==
  ASSUME NEW st, IsWork(st), NEW n \in Nat, NEW refs \in [1..n -> Reference]
  PROVE  GivesBack(st, ReleaseEach(st, refs)) /\ ReleaseEach(st, refs).ip = st.ip
<1>1. PICK f : ReleaseEach(st, refs) = f[n] /\ f[0] = st /\ Releasing(f, refs, n)
  <2>1. DOMAIN refs = 1..n
    OBVIOUS
  <2>2. QED
    BY <2>1, ReleaseTrace
<1> DEFINE P == {k \in 0..n : GivesBack(st, f[k]) /\ f[k].ip = st.ip}
<1>2. 0 \in P
  BY <1>1, FreesSelf
<1>3. ASSUME NEW k \in 1..n, k - 1 \in P PROVE k \in P
  <2>1. k \in 0..n /\ refs[k] \in Reference /\ f[k] = Release(f[k - 1], refs[k])
    BY <1>1 DEF Releasing
  <2> DEFINE s == f[k - 1]
             r == Release(s, refs[k])
  <2>2. GivesBack(st, s) /\ s.ip = st.ip /\ IsWork(s)
    BY <1>3 DEF GivesBack
  <2> HIDE DEF s
  <2>3. GivesBack(s, r) /\ r.ip = s.ip
    BY <2>1, <2>2, ReleaseIs
  <2> HIDE DEF r
  <2>4. GivesBack(st, r)
    BY <2>2, <2>3, FreesOn
  <2>5. QED
    BY <2>1, <2>2, <2>3, <2>4 DEF r, s
<1> HIDE DEF P
<1>4. \A k \in 0..n : k \in P
  BY <1>2, <1>3, StepByStep
<1>5. QED
  BY <1>1, <1>4 DEF P

LEMMA Tail1Type ==
  ASSUME NEW refs \in Tables, NEW from \in Int
  PROVE  /\ Tail1(refs, from) \in [1..ReferencesPerBlock -> Reference]
         /\ \A k \in 1..ReferencesPerBlock :
               k - 1 \in Refs /\ Tail1(refs, from)[k] \in {NullReference, refs[k - 1]}
<1>1. \A k \in 1..ReferencesPerBlock : k - 1 \in Refs
  BY Sizes2 DEF Refs
<1>2. QED
  BY <1>1, Sizes2 DEF Tail1, Tables

LEMMA FreeIndirectFrees ==
  ASSUME NEW st, IsWork(st), NEW i1 \in Reference, NEW from \in Int
  PROVE  LET r == soFreeIndirectFileClusters(st, i1, from) IN
         /\ GivesBack(st, r) /\ r.ip.i2 = st.ip.i2
         /\ r.ok /\ i1 # NullReference => r.ip.i1 = NullReference
<1>1. CASE ~st.ok \/ i1 = NullReference
  <2>1. soFreeIndirectFileClusters(st, i1, from) = st
    BY <1>1 DEF soFreeIndirectFileClusters
  <2>2. QED
    BY <1>1, <2>1, FreesSelf
<1>2. CASE ~(~st.ok \/ i1 = NullReference) /\ i1 \notin Clusters
  <2>1. soFreeIndirectFileClusters(st, i1, from) = Throw(st)
    BY <1>2 DEF soFreeIndirectFileClusters, Exists
  <2>2. Throw(st).ip = st.ip
    BY ThrowIs
  <2>3. QED
    BY <2>1, <2>2, FreesThrow
<1>3. CASE ~(~st.ok \/ i1 = NullReference) /\ i1 \in Clusters
  <2> DEFINE refs == Tail1(RefsIn(st.store[i1]), from)
             s == ReleaseEach(st, refs)
             t == Release(s, i1)
             r == ClearI1(t)
  <2>1. soFreeIndirectFileClusters(st, i1, from) = r
    BY <1>3 DEF soFreeIndirectFileClusters, Exists
  <2>2. refs \in [1..ReferencesPerBlock -> Reference]
    <3>1. RefsIn(st.store[i1]) \in Tables
      BY <1>3, StateTypes, RefsInType DEF Stores
    <3>2. QED
      BY <3>1, Tail1Type
  <2> HIDE DEF refs
  <2>3. GivesBack(st, s) /\ s.ip = st.ip
    <3>1. ReferencesPerBlock \in Nat
      BY Sizes2
    <3>2. QED
      BY <2>2, <3>1, ReleaseEachFrees
  <2> HIDE DEF s
  <2>4. IsWork(s)
    BY <2>3 DEF GivesBack
  <2>5. GivesBack(s, t) /\ t.ip = s.ip
    BY <2>4, ReleaseIs
  <2> HIDE DEF t
  <2>6. IsWork(t)
    BY <2>5 DEF GivesBack
  <2>7. GivesBack(t, r) /\ r.ip.i2 = t.ip.i2 /\ (r.ok => r.ip.i1 = NullReference)
    BY <2>6, ClearI1Is
  <2> HIDE DEF r
  <2>8. GivesBack(st, r)
    BY <2>3, <2>4, <2>5, <2>6, <2>7, FreesOn
  <2>9. QED
    BY <2>1, <2>3, <2>5, <2>7, <2>8
<1>4. QED
  BY <1>1, <1>2, <1>3

LEMMA FreeTablesFrees ==
  ASSUME NEW st, IsWork(st), NEW n \in Nat, NEW refs \in [1..n -> Reference]
  PROVE  GivesBack(st, FreeTables(st, refs)) /\ FreeTables(st, refs).ip.i2 = st.ip.i2
<1>1. PICK f : FreeTables(st, refs) = f[n] /\ f[0] = st /\ Freeing(f, refs, n)
  <2>1. DOMAIN refs = 1..n
    OBVIOUS
  <2>2. QED
    BY <2>1, TableTrace
<1> DEFINE P == {k \in 0..n : GivesBack(st, f[k]) /\ f[k].ip.i2 = st.ip.i2}
<1>2. 0 \in P
  BY <1>1, FreesSelf
<1>3. ASSUME NEW k \in 1..n, k - 1 \in P PROVE k \in P
  <2>1. k \in 0..n /\ refs[k] \in Reference /\ f[k] = FreeTable(f[k - 1], refs[k])
    BY <1>1 DEF Freeing
  <2> DEFINE s == f[k - 1]
             r == FreeTable(s, refs[k])
  <2>2. GivesBack(st, s) /\ s.ip.i2 = st.ip.i2 /\ IsWork(s)
    BY <1>3 DEF GivesBack
  <2> HIDE DEF s
  <2>3. GivesBack(s, r) /\ r.ip.i2 = s.ip.i2
    BY <2>1, <2>2, FreeIndirectFrees DEF FreeTable
  <2> HIDE DEF r
  <2>4. GivesBack(st, r)
    BY <2>2, <2>3, FreesOn
  <2>5. QED
    BY <2>1, <2>2, <2>3, <2>4 DEF r, s
<1> HIDE DEF P
<1>4. \A k \in 0..n : k \in P
  BY <1>2, <1>3, StepByStep
<1>5. QED
  BY <1>1, <1>4 DEF P

LEMMA FreeDoubleFrees ==
  ASSUME NEW st, IsWork(st), NEW from \in Int
  PROVE  LET r == soFreeDoubleIndirectFileClusters(st, from) IN
         GivesBack(st, r) /\ (r.ok => r.ip.i2 = NullReference)
<1> DEFINE i2 == st.ip.i2
<1>0. i2 \in Reference
  BY StateTypes
<1>1. CASE ~st.ok \/ i2 = NullReference
  <2>1. soFreeDoubleIndirectFileClusters(st, from) = st
    BY <1>1 DEF soFreeDoubleIndirectFileClusters
  <2>2. QED
    BY <1>1, <2>1, FreesSelf
<1>2. CASE ~(~st.ok \/ i2 = NullReference) /\ i2 \notin Clusters
  <2>1. soFreeDoubleIndirectFileClusters(st, from) = Throw(st)
    BY <1>2 DEF soFreeDoubleIndirectFileClusters, Exists
  <2>2. QED
    BY <2>1, FreesThrow
<1>3. CASE ~(~st.ok \/ i2 = NullReference) /\ i2 \in Clusters
  <2> DEFINE refs == Tail1(RefsIn(st.store[i2]), from)
             s == FreeTables(st, refs)
             t == Release(s, i2)
             r == ClearI2(t)
  <2>1. soFreeDoubleIndirectFileClusters(st, from) = r
    BY <1>3 DEF soFreeDoubleIndirectFileClusters, Exists
  <2> HIDE DEF i2
  <2>2. refs \in [1..ReferencesPerBlock -> Reference]
    <3>1. RefsIn(st.store[i2]) \in Tables
      BY <1>3, StateTypes, RefsInType DEF Stores
    <3>2. QED
      BY <3>1, Tail1Type
  <2> HIDE DEF refs
  <2>3. GivesBack(st, s) /\ s.ip.i2 = st.ip.i2
    <3>1. ReferencesPerBlock \in Nat
      BY Sizes2
    <3>2. QED
      BY <2>2, <3>1, FreeTablesFrees
  <2> HIDE DEF s
  <2>4. IsWork(s)
    BY <2>3 DEF GivesBack
  <2>5. GivesBack(s, t) /\ t.ip = s.ip
    BY <1>0, <2>4, ReleaseIs
  <2> HIDE DEF t
  <2>6. IsWork(t)
    BY <2>5 DEF GivesBack
  <2>7. GivesBack(t, r) /\ (r.ok => r.ip.i2 = NullReference)
    BY <2>6, ClearI2Is
  <2> HIDE DEF r
  <2>8. GivesBack(st, r)
    BY <2>3, <2>4, <2>5, <2>6, <2>7, FreesOn
  <2>9. QED
    BY <2>1, <2>7, <2>8
<1>4. QED
  BY <1>1, <1>2, <1>3

LEMMA FreeRestFrees ==
  ASSUME NEW st, IsWork(st)
  PROVE  GivesBack(st, FreeRest(st))
<1> DEFINE s == IF st.total > 0 THEN soFreeIndirectFileClusters(st, st.ip.i1, 0) ELSE st
           r == IF s.total > 0 THEN soFreeDoubleIndirectFileClusters(s, 0) ELSE s
<1>1. GivesBack(st, s)
  <2>1. st.ip.i1 \in Reference
    BY StateTypes
  <2>2. GivesBack(st, soFreeIndirectFileClusters(st, st.ip.i1, 0))
    BY <2>1, FreeIndirectFrees
  <2>3. QED
    BY <2>2, FreesSelf
<1>2. FreeRest(st) = r
  BY DEF FreeRest
<1> HIDE DEF s
<1>3. IsWork(s)
  BY <1>1 DEF GivesBack
<1>4. GivesBack(s, r)
  BY <1>3, FreeDoubleFrees, FreesSelf
<1> HIDE DEF r
<1>5. QED
  BY <1>1, <1>2, <1>3, <1>4, FreesOn

\* The release of direct clusters marks the damage it does.
MarkedAs(m, d, dam) == [m EXCEPT !.ip.d = d, !.sb.damage = dam]

LEMMA MarkedIs ==
  ASSUME NEW m, IsWork(m), NEW d \in [Direct -> Reference], NEW dam \in Damages
  PROVE  LET r == MarkedAs(m, d, dam) IN
         /\ IsWork(r) /\ r.store = m.store /\ r.total = m.total /\ r.ok = m.ok
         /\ r.ip.d = d /\ r.ip.i1 = m.ip.i1 /\ r.ip.i2 = m.ip.i2 /\ r.ip.clucnt = m.ip.clucnt
         /\ r.sb.damage = dam /\ r.sb.cfree = m.sb.cfree
         /\ dam = m.sb.damage => r.sb = m.sb
<1> DEFINE r == MarkedAs(m, d, dam)
           x == [m.sb EXCEPT !.damage = dam]
           y == [m.ip EXCEPT !.d = d]
<1>1. m \in States /\ m.sb \in Superblocks /\ m.ip \in InodeParts /\ InsertionEnds(m.sb)
  BY StateTypes DEF IsWork, IsSb
<1>2. r.sb = x /\ r.ip = y /\ DOMAIN r = DOMAIN m
  BY <1>1 DEF MarkedAs, States
<1>3. /\ x \in Superblocks /\ x.damage = dam /\ x.cfree = m.sb.cfree /\ x.icache = m.sb.icache
      /\ dam = m.sb.damage => x = m.sb
  BY <1>1 DEF Superblocks
<1>4. /\ y \in InodeParts /\ y.d = d /\ y.i1 = m.ip.i1 /\ y.i2 = m.ip.i2 /\ y.clucnt = m.ip.clucnt
  BY <1>1 DEF InodeParts
<1> HIDE DEF x, y
<1>5. /\ r.store = m.store /\ r.total = m.total /\ r.ok = m.ok /\ r.cn = m.cn
      /\ r.refs = m.refs /\ r.refs2 = m.refs2
  BY <1>1 DEF MarkedAs, States
<1>6. r \in States
  BY <1>1, <1>2, <1>3, <1>4 DEF MarkedAs, States
<1> HIDE DEF r
<1>7. InsertionEnds(r.sb)
  BY <1>1, <1>2, <1>3 DEF InsertionEnds
<1>8. QED
  BY <1>2, <1>3, <1>4, <1>5, <1>6, <1>7 DEF IsWork, r

LEMMA FreeDirectFrees ==
  ASSUME NEW st, IsWork(st)
  PROVE  LET r == FreeDirect(st) IN
         /\ GivesBack(st, r)
         /\ Fine(r) => r.sb = st.sb /\ r.total = st.total /\ r.ip.i1 = st.ip.i1
                       /\ r.ip.i2 = st.ip.i2
<1> DEFINE places == [k \in 1 .. N_DIRECT |-> IF st.ip.d[k - 1] = NullReference THEN NullReference
                                                                               ELSE k]
           given == {n \in DOMAIN st.ip.d : st.ip.d[n] # NullReference /\ ~Invalid(st.sb, n + 1)}
           m == ReleaseEach(st, places)
           d == [n \in DOMAIN m.ip.d |-> IF n \in given THEN NullReference ELSE m.ip.d[n]]
           dam == IF given = {} THEN m.sb.damage ELSE m.sb.damage \union {"gaveBackPlace"}
           r == FreeDirect(st)
<1>1. r = MarkedAs(m, d, dam)
  BY DEF FreeDirect, MarkedAs
<1>2. places \in [1..N_DIRECT -> Reference] /\ N_DIRECT \in Nat
  BY Sizes2 DEF Reference
<1>3. \A k \in 1..N_DIRECT : places[k] # NullReference /\ given = {} => Invalid(st.sb, k)
  <2> SUFFICES ASSUME NEW k \in 1..N_DIRECT, places[k] # NullReference, given = {}
               PROVE  Invalid(st.sb, k)
    OBVIOUS
  <2>1. k - 1 \in Direct /\ (k - 1) + 1 = k /\ st.ip.d[k - 1] # NullReference
    BY <1>2 DEF Direct
  <2>2. DOMAIN st.ip.d = Direct
    BY StateTypes
  <2> DEFINE i == k - 1
  <2>3. i \in DOMAIN st.ip.d /\ st.ip.d[i] # NullReference /\ i + 1 = k
    BY <2>1, <2>2
  <2> HIDE DEF i
  <2>4. QED
    BY <2>3
<1>4. \A k \in 1..N_DIRECT : places[k] # NullReference => places[k] = k
  OBVIOUS
<1> HIDE DEF places
<1>5. GivesBack(st, m) /\ m.ip = st.ip
  BY <1>2, ReleaseEachFrees
<1>6. given = {} => m = st \/ ~m.ok
  <2> SUFFICES ASSUME given = {} PROVE m = st \/ ~m.ok
    OBVIOUS
  <2>1. PICK f : m = f[N_DIRECT] /\ f[0] = st /\ Releasing(f, places, N_DIRECT)
    <3>1. DOMAIN places = 1..N_DIRECT
      BY <1>2
    <3>2. QED
      BY <1>2, <3>1, ReleaseTrace
  <2> DEFINE P == {k \in 0..N_DIRECT : IsWork(f[k]) /\ (f[k] = st \/ ~f[k].ok)}
  <2>2. 0 \in P
    BY <1>2, <2>1
  <2>3. ASSUME NEW k \in 1..N_DIRECT, k - 1 \in P PROVE k \in P
    <3> DEFINE s == f[k - 1]
    <3>1. f[k] = Release(s, places[k]) /\ k \in 0..N_DIRECT /\ IsWork(s) /\ (s = st \/ ~s.ok)
      BY <2>1, <2>3, <1>2 DEF Releasing
    <3> HIDE DEF s
    <3>2. CASE places[k] = NullReference
      BY <3>1, <3>2 DEF Release
    <3>3. CASE places[k] # NullReference
      <4>1. places[k] = k /\ Invalid(st.sb, k)
        BY <1>3, <1>4, <3>3
      <4>2. Release(s, places[k]) = Throw(s)
        BY <3>1, <3>3, <4>1 DEF Release
      <4>3. QED
        BY <3>1, <4>2, ThrowIs
    <3>4. QED
      BY <3>2, <3>3
  <2> HIDE DEF P
  <2>4. N_DIRECT \in P
    BY <1>2, <2>2, <2>3, StepByStep
  <2>5. QED
    BY <2>1, <2>4 DEF P
<1> HIDE DEF m
<1>7. IsWork(m)
  BY <1>5 DEF GivesBack
<1>8. /\ d \in [Direct -> Reference]
      /\ \A n \in Direct : d[n] \in {m.ip.d[n], NullReference}
  BY <1>7, StateTypes, Sizes2
<1>9. dam \in Damages /\ m.sb.damage \subseteq dam /\ (dam = {} => given = {} /\ dam = m.sb.damage)
  <2>1. m.sb.damage \in Damages
    BY <1>7, StateTypes, SbTypes
  <2> HIDE DEF given
  <2>2. QED
    BY <2>1 DEF Damages
<1> HIDE DEF d, dam, given
<1>10. /\ IsWork(r) /\ r.store = m.store /\ r.total = m.total /\ r.ok = m.ok
       /\ r.ip.d = d /\ r.ip.i1 = m.ip.i1 /\ r.ip.i2 = m.ip.i2 /\ r.ip.clucnt = m.ip.clucnt
       /\ r.sb.damage = dam /\ r.sb.cfree = m.sb.cfree
       /\ dam = m.sb.damage => r.sb = m.sb
  BY <1>1, <1>7, <1>8, <1>9, MarkedIs
<1> HIDE DEF r
<1>11. GivesBack(m, r)
  BY <1>7, <1>8, <1>9, <1>10, BooksType DEF GivesBack, Books
<1>12. GivesBack(st, r)
  BY <1>5, <1>7, <1>11, FreesOn
<1>13. ASSUME Fine(r)
       PROVE  r.sb = st.sb /\ r.total = st.total /\ r.ip.i1 = st.ip.i1 /\ r.ip.i2 = st.ip.i2
  <2>1. dam = {} /\ m.ok
    BY <1>10, <1>13 DEF Fine
  <2>2. QED
    BY <1>5, <1>6, <1>9, <1>10, <2>1
<1>14. QED
  BY <1>12, <1>13 DEF r

LEMMA FreeClustersIs ==
  ASSUME NEW st, IsWork(st), NEW ffcn \in Nat, NEW s,
         s = CASE ffcn < N_DIRECT -> FreeRest(FreeDirect(st))
               [] ffcn \in N_DIRECT .. FirstDouble - 1 ->
                    soFreeDoubleIndirectFileClusters(
                        soFreeIndirectFileClusters(st, st.ip.i1, ffcn - N_DIRECT), 0)
               [] OTHER ->
                    soFreeDoubleIndirectFileClusters(st, ffcn - N_DIRECT - ReferencesPerBlock)
  PROVE  GivesBack(st, s) /\ soFreeFileClusters(st, ffcn) = SetCount(s)
<1>1. soFreeFileClusters(st, ffcn) = SetCount(s)
  BY DEF soFreeFileClusters
<1>2. N_DIRECT \in Nat /\ FirstDouble \in Nat /\ ReferencesPerBlock \in Nat
  BY Sizes2 DEF FirstDouble
<1>3. CASE ffcn < N_DIRECT
  <2> DEFINE d == FreeDirect(st)
  <2>1. s = FreeRest(d)
    BY <1>2, <1>3
  <2>2. GivesBack(st, d)
    BY FreeDirectFrees
  <2> HIDE DEF d
  <2>3. IsWork(d)
    BY <2>2 DEF GivesBack
  <2>4. GivesBack(d, FreeRest(d))
    BY <2>3, FreeRestFrees
  <2>5. QED
    BY <1>1, <2>1, <2>2, <2>3, <2>4, FreesOn
<1>4. CASE ~(ffcn < N_DIRECT) /\ ffcn \in N_DIRECT .. FirstDouble - 1
  <2> DEFINE d == soFreeIndirectFileClusters(st, st.ip.i1, ffcn - N_DIRECT)
  <2>1. s = soFreeDoubleIndirectFileClusters(d, 0)
    BY <1>2, <1>4
  <2>2. GivesBack(st, d)
    <3>1. st.ip.i1 \in Reference /\ ffcn - N_DIRECT \in Int
      BY <1>2, StateTypes
    <3>2. QED
      BY <3>1, FreeIndirectFrees
  <2> HIDE DEF d
  <2>3. IsWork(d)
    BY <2>2 DEF GivesBack
  <2>4. GivesBack(d, soFreeDoubleIndirectFileClusters(d, 0))
    BY <2>3, FreeDoubleFrees
  <2>5. QED
    BY <1>1, <2>1, <2>2, <2>3, <2>4, FreesOn
<1>5. CASE ~(ffcn < N_DIRECT) /\ ~(ffcn \in N_DIRECT .. FirstDouble - 1)
  <2>1. s = soFreeDoubleIndirectFileClusters(st, ffcn - N_DIRECT - ReferencesPerBlock)
    BY <1>5
  <2>2. ffcn - N_DIRECT - ReferencesPerBlock \in Int
    BY <1>2
  <2>3. QED
    BY <1>1, <2>1, <2>2, FreeDoubleFrees
<1>6. QED
  BY <1>3, <1>4, <1>5

-----------------------------------------------------------------------------
(***************************************************************************)
(* What all inodes count.                                                  *)
(***************************************************************************)
Counted(ino, D) == MapThenSumSet(LAMBDA f : ino[f].clucnt, D)

\* The element that a fold over a set takes first.
AnyOf(T) == CHOOSE x \in T : TRUE

\* The function behind a sum over finite sets: what it is for a set, for each element it
\* may take first.
Adds(it, ino, D) ==
    /\ it[{}] = 0
    /\ \A T \in SUBSET D : T # {} => it[T] = ino[AnyOf(T)].clucnt + it[T \ {AnyOf(T)}]

LEMMA Smaller ==
  ASSUME NEW D, IsFiniteSet(D), NEW T \in SUBSET D, T # {}
  PROVE  /\ AnyOf(T) \in T /\ T \ {AnyOf(T)} \in SUBSET D
         /\ Cardinality(T) \in Nat /\ Cardinality(T \ {AnyOf(T)}) \in Nat
         /\ Cardinality(T \ {AnyOf(T)}) = Cardinality(T) - 1
<1>1. AnyOf(T) \in T
  BY DEF AnyOf
<1>2. IsFiniteSet(T)
  BY FS_Subset
<1>3. QED
  BY <1>1, <1>2, FS_RemoveElement, FS_CardinalityType

\* The sum is computed by such a function: there is one for the sets of up to n elements, for
\* each n.
LEMMA TotalAdds ==
  ASSUME NEW ino, NEW D, IsFiniteSet(D)
  PROVE  \E it : Adds(it, ino, D) /\ Counted(ino, D) = it[D]
<1> DEFINE Body(g) == [T \in SUBSET D |-> IF T = {} THEN 0 ELSE ino[AnyOf(T)].clucnt + g[T \ {AnyOf(T)}]]
           IsFcn(g) == g = [T \in SUBSET D |-> g[T]]
           UpTo(g, n) == \A T \in SUBSET D : Cardinality(T) <= n => g[T] = Body(g)[T]
           Bad == {n \in Nat : ~\E g : IsFcn(g) /\ UpTo(g, n)}
<1>1. Bad = {}
  <2> SUFFICES ASSUME Bad # {} PROVE FALSE
    OBVIOUS
  <2>1. PICK n \in Bad : \A k \in Bad : n <= k
    <3>1. Bad \in SUBSET Nat
      OBVIOUS
    <3> HIDE DEF Bad
    <3>2. QED
      BY <3>1, Least
  <2>2. n \in Nat
    OBVIOUS
  <2>3. CASE n = 0
    <3> DEFINE g == [T \in SUBSET D |-> 0]
    <3>1. \A T \in SUBSET D : Cardinality(T) <= 0 => T = {}
      <4>1. ASSUME NEW T \in SUBSET D, T # {}
            PROVE  ~(Cardinality(T) <= 0)
        <5>1. /\ Cardinality(T) \in Nat /\ Cardinality(T \ {AnyOf(T)}) \in Nat
              /\ Cardinality(T \ {AnyOf(T)}) = Cardinality(T) - 1
          BY <4>1, Smaller
        <5>2. QED
          BY <5>1
      <4>2. QED
        BY <4>1
    <3>2. IsFcn(g) /\ UpTo(g, 0)
      BY <3>1
    <3> HIDE DEF UpTo, IsFcn, g
    <3>3. QED
      BY <2>3, <3>2
  <2>4. CASE n # 0
    <3>1. n - 1 \in Nat /\ n - 1 \notin Bad
      <4> HIDE DEF Bad
      <4>1. QED
        BY <2>1, <2>2, <2>4
    <3>2. PICK g : IsFcn(g) /\ UpTo(g, n - 1)
      <4> HIDE DEF UpTo, IsFcn
      <4>1. QED
        BY <3>1
    <3> DEFINE h == Body(g)
    <3>3. ASSUME NEW T \in SUBSET D, Cardinality(T) <= n, T # {}
          PROVE  h[T \ {AnyOf(T)}] = g[T \ {AnyOf(T)}]
      <4>1. T \ {AnyOf(T)} \in SUBSET D /\ Cardinality(T \ {AnyOf(T)}) <= n - 1
        <5> DEFINE c == Cardinality(T)
                   e == Cardinality(T \ {AnyOf(T)})
        <5>1. T \ {AnyOf(T)} \in SUBSET D /\ c \in Nat /\ e \in Nat /\ e = c - 1 /\ c <= n
          BY <3>3, Smaller
        <5> HIDE DEF c, e
        <5>2. e <= n - 1
          BY <2>2, <5>1
        <5>3. QED
          BY <5>1, <5>2 DEF e
      <4> HIDE DEF Body
      <4>2. QED
        BY <3>2, <4>1
    <3>4. UpTo(h, n)
      <4> SUFFICES ASSUME NEW T \in SUBSET D, Cardinality(T) <= n
                   PROVE  h[T] = Body(h)[T]
        OBVIOUS
      <4>1. CASE T = {}
        BY <4>1
      <4>2. CASE T # {}
        <5>1. h[T] = ino[AnyOf(T)].clucnt + g[T \ {AnyOf(T)}]
          BY <4>2
        <5>2. Body(h)[T] = ino[AnyOf(T)].clucnt + h[T \ {AnyOf(T)}]
          <6> HIDE DEF h
          <6>1. QED
            BY <4>2
        <5> HIDE DEF h, Body
        <5>3. QED
          BY <3>3, <4>2, <5>1, <5>2
      <4>3. QED
        BY <4>1, <4>2
    <3>5. IsFcn(h)
      OBVIOUS
    <3> HIDE DEF h, UpTo, IsFcn
    <3>6. QED
      BY <3>4, <3>5
  <2>5. QED
    BY <2>3, <2>4
<1> DEFINE it == CHOOSE g : g = Body(g)
<1>2. it = Body(it)
  <2>1. Cardinality(D) \in Nat /\ Cardinality(D) \notin Bad
    BY <1>1, FS_CardinalityType
  <2>2. PICK g : IsFcn(g) /\ UpTo(g, Cardinality(D))
    <3> HIDE DEF UpTo, IsFcn
    <3>1. QED
      BY <2>1
  <2>3. \A T \in SUBSET D : Cardinality(T) <= Cardinality(D)
    BY FS_Subset
  <2>4. \A T \in SUBSET D : g[T] = Body(g)[T]
    <3> HIDE DEF Body
    <3>1. QED
      BY <2>2, <2>3
  <2>6. g = Body(g)
    <3>1. g = [T \in SUBSET D |-> Body(g)[T]]
      <4> HIDE DEF Body
      <4>1. QED
        BY <2>2, <2>4
    <3>2. QED
      BY <3>1
  <2> HIDE DEF Body
  <2>7. QED
    BY <2>6
<1>3. Counted(ino, D) = it[D]
  BY DEF Counted, MapThenSumSet, MapThenFoldSet, AnyOf
<1> HIDE DEF it
<1>4. Adds(it, ino, D)
  <2>1. \A T \in SUBSET D : it[T] = IF T = {} THEN 0 ELSE ino[AnyOf(T)].clucnt + it[T \ {AnyOf(T)}]
    BY <1>2
  <2>2. it[{}] = 0
    BY <2>1
  <2>3. \A T \in SUBSET D : T # {} => it[T] = ino[AnyOf(T)].clucnt + it[T \ {AnyOf(T)}]
    BY <2>1
  <2>4. QED
    BY <2>2, <2>3, Zenon DEF Adds
<1>5. QED
  BY <1>3, <1>4

\* A set of subsets that has neither the empty set nor, with a set, the one from which its
\* element was taken, is empty.
LEMMA NoneBad ==
  ASSUME NEW D, IsFiniteSet(D), NEW Bad \in SUBSET (SUBSET D), {} \notin Bad,
         \A T \in SUBSET D : T # {} /\ T \ {AnyOf(T)} \notin Bad => T \notin Bad
  PROVE  Bad = {}
<1> SUFFICES ASSUME Bad # {} PROVE FALSE
  OBVIOUS
<1> DEFINE sizes == {Cardinality(T) : T \in Bad}
<1>1. sizes \in SUBSET Nat
  BY FS_Subset, FS_CardinalityType
<1>2. PICK n \in sizes : \A k \in sizes : n <= k
  <2>1. sizes # {}
    OBVIOUS
  <2> HIDE DEF sizes
  <2>2. QED
    BY <1>1, <2>1, Least
<1>3. PICK T \in Bad : n = Cardinality(T)
  BY <1>2
<1>4. T \in SUBSET D /\ T # {}
  OBVIOUS
<1>5. T \ {AnyOf(T)} \in Bad
  BY <1>4
<1>6. Cardinality(T \ {AnyOf(T)}) \in sizes
  BY <1>5
<1>7. /\ Cardinality(T) \in Nat /\ Cardinality(T \ {AnyOf(T)}) \in Nat
      /\ Cardinality(T \ {AnyOf(T)}) = Cardinality(T) - 1
  BY <1>4, Smaller
<1> HIDE DEF sizes
<1>8. QED
  BY <1>2, <1>3, <1>6, <1>7

\* When one inode counts otherwise, the sum changes by the difference.
LEMMA OneCounts ==
  ASSUME NEW i \in [Files -> InodeParts], NEW j \in [Files -> InodeParts], NEW g \in Files,
         \A f \in Files : f # g => j[f].clucnt = i[f].clucnt
  PROVE  /\ Counted(i, Files) \in Int /\ Counted(j, Files) \in Int
         /\ Counted(j, Files) - Counted(i, Files) = j[g].clucnt - i[g].clucnt
<1>0. IsFiniteSet(Files)
  BY FileClustersAssumption
<1>1. PICK fs : Adds(fs, i, Files) /\ Counted(i, Files) = fs[Files]
  BY <1>0, TotalAdds
<1>2. PICK gs : Adds(gs, j, Files) /\ Counted(j, Files) = gs[Files]
  BY <1>0, TotalAdds
<1> DEFINE delta == j[g].clucnt - i[g].clucnt
           P(T) == /\ fs[T] \in Int /\ gs[T] \in Int
                   /\ gs[T] - fs[T] = IF g \in T THEN delta ELSE 0
           Bad == {T \in SUBSET Files : ~P(T)}
<1>3. {} \notin Bad
  BY <1>1, <1>2 DEF Adds
<1>4. ASSUME NEW T \in SUBSET Files, T # {}, T \ {AnyOf(T)} \notin Bad
      PROVE  T \notin Bad
  <2> DEFINE x == AnyOf(T)
             U == T \ {x}
  <2>1. x \in T /\ U \in SUBSET Files
    BY <1>0, <1>4, Smaller
  <2>2. P(U)
    BY <1>4, <2>1
  <2>3. fs[T] = i[x].clucnt + fs[U] /\ gs[T] = j[x].clucnt + gs[U]
    BY <1>1, <1>2, <1>4 DEF Adds
  <2>4. i[x].clucnt \in Int /\ j[x].clucnt \in Int /\ i[g].clucnt \in Int /\ j[g].clucnt \in Int
    BY <2>1 DEF InodeParts
  <2>5. CASE x = g
    <3>1. g \in T /\ g \notin U /\ fs[U] \in Int /\ gs[U] \in Int /\ gs[U] - fs[U] = 0
      BY <2>1, <2>2, <2>5
    <3>2. fs[T] = i[g].clucnt + fs[U] /\ gs[T] = j[g].clucnt + gs[U]
      BY <2>3, <2>5
    <3> HIDE DEF x, U
    <3>3. P(T)
      BY <2>4, <3>1, <3>2
    <3>4. QED
      BY <3>3
  <2>6. CASE x # g
    <3>1. i[x].clucnt = j[x].clucnt /\ (g \in U <=> g \in T)
      BY <2>1, <2>6
    <3> HIDE DEF x, U
    <3>2. P(T)
      BY <2>2, <2>3, <2>4, <3>1
    <3>3. QED
      BY <3>2
  <2>7. QED
    BY <2>5, <2>6
<1>5. Bad = {}
  <2>1. Bad \in SUBSET (SUBSET Files)
    OBVIOUS
  <2> HIDE DEF Bad
  <2>2. QED
    BY <1>0, <1>3, <1>4, <2>1, NoneBad
<1>6. P(Files)
  <2>1. Files \in SUBSET Files /\ Files \notin Bad
    BY <1>5
  <2> HIDE DEF P
  <2>2. QED
    BY <2>1
<1>7. QED
  BY <1>1, <1>2, <1>6

LEMMA NoneCounts ==
  ASSUME NEW i, \A f \in Files : i[f].clucnt = 0
  PROVE  Counted(i, Files) = 0
<1>0. IsFiniteSet(Files)
  BY FileClustersAssumption
<1>1. PICK fs : Adds(fs, i, Files) /\ Counted(i, Files) = fs[Files]
  BY <1>0, TotalAdds
<1> DEFINE Bad == {T \in SUBSET Files : fs[T] # 0}
<1>3. {} \notin Bad
  BY <1>1 DEF Adds
<1>4. ASSUME NEW T \in SUBSET Files, T # {}, T \ {AnyOf(T)} \notin Bad
      PROVE  T \notin Bad
  <2> DEFINE x == AnyOf(T)
             U == T \ {x}
  <2>1. x \in T /\ U \in SUBSET Files
    BY <1>0, <1>4, Smaller
  <2>2. fs[U] = 0
    BY <1>4, <2>1
  <2>3. fs[T] = i[x].clucnt + fs[U]
    BY <1>1, <1>4 DEF Adds
  <2> HIDE DEF x, U
  <2>4. QED
    BY <2>1, <2>2, <2>3
<1>5. Bad = {}
  <2>1. Bad \in SUBSET (SUBSET Files)
    OBVIOUS
  <2> HIDE DEF Bad
  <2>2. QED
    BY <1>0, <1>3, <1>4, <2>1, NoneBad
<1>6. QED
  BY <1>1, <1>5

-----------------------------------------------------------------------------
(***************************************************************************)
(* Types and counts of the volume: an invariant, whatever goes wrong.      *)
(***************************************************************************)
Balanced(s, ino, wrong) ==
    /\ s.cfree + Counted(ino, Files) >= CTotal - 1
    /\ wrong \/ s.cfree + Counted(ino, Files) = CTotal - 1
CountsInv ==
    /\ IsSb(sb) /\ inode \in [Files -> InodeParts] /\ store \in Stores
    /\ written \subseteq Files \X FileClusterNumbers /\ failed \in BOOLEAN
    /\ Balanced(sb, inode, failed)

LEMMA Parts ==
  ASSUME NEW n \in 0 .. ReferencesPerCluster * ReferencesPerCluster - 1
  PROVE  n \div ReferencesPerCluster \in Refs /\ n % ReferencesPerCluster \in Refs
<1> DEFINE R == ReferencesPerCluster
<1>1. R \in Nat \ {0}
  BY Sizes2
<1>2. \A R_ \in Nat \ {0} : \A m \in 0 .. R_ * R_ - 1 : m \div R_ \in 0 .. R_ - 1 /\ m % R_ \in 0 .. R_ - 1
  <2> SUFFICES ASSUME NEW R_ \in Nat \ {0}, NEW m \in 0 .. R_ * R_ - 1
               PROVE  m \div R_ \in 0 .. R_ - 1 /\ m % R_ \in 0 .. R_ - 1
    OBVIOUS
  <2>0. R_ * R_ \in Nat
    OBVIOUS
  <2>1. m \in Nat /\ m < R_ * R_
    BY <2>0
  <2> DEFINE q == m \div R_
             w == m % R_
  <2>2. q \in Nat /\ w \in 0 .. R_ - 1 /\ m = R_ * q + w
    BY <2>1
  <2> HIDE DEF q, w
  <2>3. ASSUME q >= R_ PROVE FALSE
    <3>1. R_ * q >= R_ * R_
      BY <2>2, <2>3
    <3>2. w >= 0 /\ R_ * q \in Nat
      BY <2>2
    <3>3. QED
      BY <2>0, <2>1, <2>2, <3>1, <3>2
  <2>4. q \in 0 .. R_ - 1
    BY <2>2, <2>3
  <2>5. QED
    BY <2>2, <2>4 DEF q, w
<1>3. QED
  BY <1>1, <1>2 DEF Refs

LEMMA StateIs ==
  ASSUME CountsInv, NEW f \in Files
  PROVE  LET st == State(f) IN
         /\ IsWork(st) /\ st.sb = sb /\ st.ip = inode[f] /\ st.store = store
         /\ st.total = inode[f].clucnt /\ st.ok /\ st.cn = NullReference
BY Sizes2 DEF CountsInv, State, IsWork, States, IsSb, InodeParts

\* An operation that counts nothing less, and everything unless it throws, may end.
LEMMA DoneCounts ==
  ASSUME CountsInv, NEW f \in Files, NEW r, IsWork(r), Done(f, r),
         r.sb.cfree + r.ip.clucnt >= sb.cfree + inode[f].clucnt,
         r.ok => r.sb.cfree + r.ip.clucnt = sb.cfree + inode[f].clucnt,
         written' \subseteq Files \X FileClusterNumbers
  PROVE  CountsInv'
<1>1. /\ sb' = r.sb /\ inode' = [inode EXCEPT ![f] = r.ip] /\ store' = r.store
      /\ failed' = (failed \/ ~r.ok)
  BY DEF Done
<1>2. /\ IsSb(r.sb) /\ r.ip \in InodeParts /\ r.store \in Stores /\ r.ok \in BOOLEAN
  BY StateTypes
<1>3. inode \in [Files -> InodeParts] /\ failed \in BOOLEAN /\ IsSb(sb)
  BY DEF CountsInv
<1>4. inode' \in [Files -> InodeParts] /\ inode'[f] = r.ip /\ \A g \in Files : g # f => inode'[g] = inode[g]
  BY <1>1, <1>2, <1>3
<1>5. /\ Counted(inode, Files) \in Int /\ Counted(inode', Files) \in Int
      /\ Counted(inode', Files) - Counted(inode, Files) = r.ip.clucnt - inode[f].clucnt
  BY <1>3, <1>4, OneCounts
<1>6. /\ sb.cfree \in Nat /\ r.sb.cfree \in Nat /\ r.ip.clucnt \in Int /\ inode[f].clucnt \in Int
      /\ CTotal \in Nat
  BY <1>2, <1>3, SbTypes, Sizes2 DEF InodeParts
<1>7. Balanced(sb, inode, failed)
  BY DEF CountsInv
<1>8. r.sb.cfree + Counted(inode', Files) >= CTotal - 1
  BY <1>5, <1>6, <1>7 DEF Balanced
<1>9. ASSUME ~(failed \/ ~r.ok)
      PROVE  r.sb.cfree + Counted(inode', Files) = CTotal - 1
  BY <1>5, <1>6, <1>7, <1>9 DEF Balanced
<1>10. Balanced(sb', inode', failed')
  BY <1>1, <1>8, <1>9 DEF Balanced
<1>11. QED
  BY <1>1, <1>2, <1>3, <1>4, <1>10 DEF CountsInv

LEMMA AllocPasses ==
  ASSUME NEW st, IsWork(st), NEW fcn \in FileClusterNumbers
  PROVE  Passes(st, soAllocFileCluster(st, fcn))
<1>1. /\ N_DIRECT \in Nat /\ ReferencesPerCluster \in Nat \ {0} /\ fcn \in Nat
      /\ FirstDouble = N_DIRECT + ReferencesPerCluster
      /\ ReferencesPerCluster * ReferencesPerCluster \in Nat
      /\ fcn <= FirstDouble + ReferencesPerCluster * ReferencesPerCluster - 1
  <2>1. /\ N_DIRECT \in Nat /\ ReferencesPerCluster \in Nat \ {0}
    BY Sizes2
  <2>2. ReferencesPerCluster * ReferencesPerCluster \in Nat
    BY <2>1
  <2>3. QED
    BY <2>1, <2>2 DEF FileClusterNumbers, FirstDouble
<1>2. CASE fcn < N_DIRECT
  <2>1. soAllocFileCluster(st, fcn) = AllocDirect(st, fcn) /\ fcn \in Direct
    BY <1>1, <1>2 DEF soAllocFileCluster, Direct
  <2>2. QED
    BY <2>1, AllocDirectIs
<1>3. CASE fcn \in N_DIRECT .. FirstDouble - 1
  <2> DEFINE n == fcn - N_DIRECT
  <2>1. soAllocFileCluster(st, fcn) = soAllocIndirectFileCluster(st, n) /\ n \in Refs
    <3>1. ~(fcn < N_DIRECT) /\ n \in Refs
      BY <1>1, <1>3 DEF Refs
    <3>2. QED
      BY <1>3, <3>1 DEF soAllocFileCluster
  <2> HIDE DEF n
  <2>2. Passes(st, soAllocIndirectFileCluster(st, n))
    BY <2>1, AllocIndirectIs
  <2>3. QED
    BY <2>1, <2>2
<1>4. CASE ~(fcn < N_DIRECT) /\ ~(fcn \in N_DIRECT .. FirstDouble - 1)
  <2> DEFINE n == fcn - FirstDouble
             a == n \div ReferencesPerCluster
             b == n % ReferencesPerCluster
             s == IF st.ip.i2 = NullReference THEN AllocI2(st) ELSE ReadRefs(st, st.ip.i2)
             p == Part(s, a)
             t == Count(Take(p))
             r == EnterBoth(t, a, b)
  <2>1. soAllocFileCluster(st, fcn) = soAllocDoubleIndirectFileCluster(st, n)
    BY <1>1, <1>4 DEF soAllocFileCluster
  <2>2. n \in 0 .. ReferencesPerCluster * ReferencesPerCluster - 1
    BY <1>1, <1>4
  <2>3. soAllocDoubleIndirectFileCluster(st, n) = r
    BY DEF soAllocDoubleIndirectFileCluster
  <2> HIDE DEF n
  <2>4. a \in Refs /\ b \in Refs
    BY <2>2, Parts
  <2> HIDE DEF a, b
  <2>5. Passes(st, r)
    <3> DEFINE st1 == s
               p1 == p
               t1 == t
               r1 == r
    <3>1. /\ st1 = (IF st.ip.i2 = NullReference THEN AllocI2(st) ELSE ReadRefs(st, st.ip.i2))
          /\ p1 = Part(st1, a) /\ t1 = Count(Take(p1)) /\ r1 = EnterBoth(t1, a, b)
      OBVIOUS
    <3> HIDE DEF st1, p1, t1, r1
    <3>2. Passes(st, r1)
      BY <2>4, <3>1, AllocDoubleIs
    <3>3. QED
      BY <3>2 DEF r1
  <2>6. QED
    BY <2>1, <2>3, <2>5
<1>5. QED
  BY <1>2, <1>3, <1>4

LEMMA AllocCounts ==
  ASSUME CountsInv, NEW f \in Files, NEW fcn \in FileClusterNumbers, AllocFileCluster(f, fcn)
  PROVE  CountsInv'
<1> DEFINE st == State(f)
           r == soAllocFileCluster(st, fcn)
<1>1. IsWork(st) /\ st.sb = sb /\ st.ip = inode[f]
  BY StateIs
<1>2. Done(f, r) /\ written' = written \ {<<f, fcn>>}
  BY DEF AllocFileCluster
<1> HIDE DEF st
<1>3. Passes(st, r)
  BY <1>1, AllocPasses
<1> HIDE DEF r
<1>4. /\ IsWork(r) /\ r.sb.cfree + r.ip.clucnt >= sb.cfree + inode[f].clucnt
      /\ r.ok => r.sb.cfree + r.ip.clucnt = sb.cfree + inode[f].clucnt
  BY <1>1, <1>3 DEF Passes, Sum
<1>5. written' \subseteq Files \X FileClusterNumbers
  BY <1>2 DEF CountsInv
<1>6. QED
  BY <1>2, <1>4, <1>5, DoneCounts

LEMMA FreeCounts ==
  ASSUME CountsInv, NEW f \in Files, NEW ffcn \in FileClusterNumbers, FreeFileClusters(f, ffcn)
  PROVE  CountsInv'
<1> DEFINE st == State(f)
           r == soFreeFileClusters(st, ffcn)
<1>1. IsWork(st) /\ st.sb = sb /\ st.ip = inode[f] /\ st.total = inode[f].clucnt
  BY StateIs
<1>2. Done(f, r) /\ written' \subseteq written
  BY DEF FreeFileClusters
<1> HIDE DEF st
<1>3. PICK s : GivesBack(st, s) /\ r = SetCount(s)
  <2>1. ffcn \in Nat
    BY DEF FileClusterNumbers
  <2>2. QED
    BY <1>1, <2>1, FreeClustersIs
<1> HIDE DEF r
<1>4. IsWork(s) /\ s.sb.cfree >= st.sb.cfree /\ Books(s) = Books(st) /\ s.ip.clucnt = st.ip.clucnt
  BY <1>3 DEF GivesBack
<1>5. /\ IsWork(r) /\ r.sb = s.sb /\ r.ok = s.ok
      /\ r.ip.clucnt = IF s.ok THEN s.total ELSE s.ip.clucnt
  BY <1>3, <1>4, SetCountIs
<1>6. /\ s.sb.cfree \in Nat /\ s.total \in Int /\ st.sb.cfree \in Nat /\ st.total \in Int
      /\ st.ip.clucnt = st.total
  BY <1>1, <1>4, BooksType
<1>7. /\ r.sb.cfree + r.ip.clucnt >= sb.cfree + inode[f].clucnt
      /\ r.ok => r.sb.cfree + r.ip.clucnt = sb.cfree + inode[f].clucnt
  BY <1>1, <1>4, <1>5, <1>6 DEF Books
<1>8. written' \subseteq Files \X FileClusterNumbers
  BY <1>2 DEF CountsInv
<1>9. QED
  BY <1>2, <1>5, <1>7, <1>8, DoneCounts

\* The cluster of a file is written.
Data(st, c) == [st EXCEPT !.store[st.cn] = c]

LEMMA DataIs ==
  ASSUME NEW st, IsWork(st), st.cn \in Clusters, NEW c \in Contents
  PROVE  LET r == Data(st, c) IN
         /\ IsWork(r) /\ r.sb = st.sb /\ r.ip = st.ip /\ r.ok = st.ok
         /\ r.store = [st.store EXCEPT ![st.cn] = c]
<1> DEFINE k == st.cn
           e == [st.store EXCEPT ![k] = c]
           r == Data(st, c)
<1>1. st \in States /\ e \in Stores
  BY StateTypes DEF Stores
<1>2. r = [st EXCEPT !.store = e]
  BY <1>1 DEF Data, States
<1> HIDE DEF e
<1>3. r \in States /\ r.sb = st.sb /\ r.ip = st.ip /\ r.ok = st.ok /\ r.store = e
  BY <1>1, <1>2 DEF States
<1> HIDE DEF r
<1>4. IsWork(r)
  BY <1>3 DEF IsWork
<1>5. QED
  BY <1>3, <1>4 DEF r, e

LEMMA ContentType ==
  ASSUME NEW f \in Files, NEW fcn \in FileClusterNumbers
  PROVE  Content(f, fcn) \in Contents
BY DEF Content, Contents

LEMMA GotType ==
  ASSUME NEW st, IsWork(st), NEW fcn \in FileClusterNumbers, ~GetThrows(st.ip, st.store, fcn)
  PROVE  soGetFileCluster(st.ip, st.store, fcn) \in Reference
<1> DEFINE ip == st.ip
           r == soGetFileCluster(ip, st.store, fcn)
<1>1. /\ N_DIRECT \in Nat /\ fcn \in Nat
      /\ FirstDouble = N_DIRECT + ReferencesPerCluster /\ FirstDouble \in Nat
      /\ fcn - FirstDouble <= ReferencesPerCluster * ReferencesPerCluster - 1
  <2>1. /\ N_DIRECT \in Nat /\ ReferencesPerCluster \in Nat \ {0}
    BY Sizes2
  <2>2. ReferencesPerCluster * ReferencesPerCluster \in Nat
    BY <2>1
  <2>3. QED
    BY <2>1, <2>2 DEF FileClusterNumbers, FirstDouble
<1>2. /\ ip.d \in [Direct -> Reference] /\ st.store \in Stores /\ NullReference \in Reference
  BY StateTypes, Sizes2
<1>3. \A cn \in Clusters : \A n \in Refs : RefsIn(st.store[cn])[n] \in Reference
  <2> SUFFICES ASSUME NEW cn \in Clusters, NEW n \in Refs PROVE RefsIn(st.store[cn])[n] \in Reference
    OBVIOUS
  <2>1. RefsIn(st.store[cn]) \in Tables
    BY <1>2, RefsInType DEF Stores
  <2>2. QED
    BY <2>1 DEF Tables
<1>4. CASE fcn < N_DIRECT
  <2>1. r = ip.d[fcn] /\ fcn \in Direct
    BY <1>1, <1>4 DEF soGetFileCluster, Direct
  <2>2. QED
    BY <1>2, <2>1
<1>5. CASE ~(fcn < N_DIRECT) /\ fcn \in N_DIRECT .. FirstDouble - 1
  <2> DEFINE n == fcn - N_DIRECT
  <2>1. r = IF ip.i1 = NullReference THEN NullReference ELSE RefsIn(st.store[ip.i1])[n]
    BY <1>5 DEF soGetFileCluster
  <2>2. ip.i1 # NullReference => ip.i1 \in Clusters
    BY <1>5 DEF GetThrows, Exists
  <2>3. n \in Refs
    BY <1>1, <1>5, Sizes2 DEF Refs
  <2> HIDE DEF n, r, ip
  <2>4. r \in Reference
    BY <1>2, <1>3, <2>1, <2>2, <2>3
  <2>5. QED
    BY <2>4 DEF r, ip
<1>6. CASE ~(fcn < N_DIRECT) /\ ~(fcn \in N_DIRECT .. FirstDouble - 1)
  <2> DEFINE m == fcn - FirstDouble
             n == m % ReferencesPerCluster
             c == Second(ip, st.store, m)
  <2>1. r = IF ip.i2 = NullReference THEN NullReference ELSE RefsIn(st.store[c])[n]
    BY <1>6 DEF soGetFileCluster
  <2>2. fcn >= FirstDouble
    BY <1>1, <1>6
  <2>3. ip.i2 # NullReference => c \in Clusters
    BY <2>2 DEF GetThrows, Exists
  <2>4. m \in 0 .. ReferencesPerCluster * ReferencesPerCluster - 1
    <3>1. ReferencesPerCluster * ReferencesPerCluster \in Nat
      <4>1. ReferencesPerCluster \in Nat
        BY Sizes2
      <4>2. QED
        BY <4>1
    <3>2. QED
      BY <1>1, <2>2, <3>1
  <2> HIDE DEF m
  <2>5. n \in Refs
    BY <2>4, Parts
  <2> HIDE DEF n, r, ip, c
  <2>6. r \in Reference
    BY <1>2, <1>3, <2>1, <2>3, <2>5
  <2>7. QED
    BY <2>6 DEF r, ip
<1>7. QED
  BY <1>4, <1>5, <1>6

LEMMA GetType ==
  ASSUME NEW st, IsWork(st), NEW cn \in Reference
  PROVE  LET r == [st EXCEPT !.cn = cn] IN
         /\ IsWork(r) /\ r.sb = st.sb /\ r.ip = st.ip /\ r.ok = st.ok /\ r.store = st.store
         /\ r.cn = cn
BY StateTypes DEF IsWork, States

\* The state in which the cluster of a file is found, or allocated, before it is written.
Found(f, fcn) ==
    LET get == soGetFileCluster(inode[f], store, fcn)
    IN IF GetThrows(inode[f], store, fcn) THEN Throw(State(f))
       ELSE IF get = NullReference THEN soAllocFileCluster(State(f), fcn)
       ELSE [State(f) EXCEPT !.cn = get]

LEMMA WriteIsFound ==
  ASSUME NEW f, NEW fcn, WriteFileCluster(f, fcn)
  PROVE  LET st == Found(f, fcn)
         IN IF st.ok /\ Exists(st.cn)
            THEN /\ Done(f, Data(st, Content(f, fcn)))
                 /\ written' = written \union {<<f, fcn>>}
            ELSE Done(f, Throw(st)) /\ written' = written
BY DEF WriteFileCluster, Found, Data

LEMMA FoundIs ==
  ASSUME CountsInv, NEW f \in Files, NEW fcn \in FileClusterNumbers
  PROVE  Passes(State(f), Found(f, fcn))
<1> DEFINE st == State(f)
           get == soGetFileCluster(st.ip, st.store, fcn)
           r == Found(f, fcn)
<1>1. IsWork(st) /\ st.ip = inode[f] /\ st.store = store
  BY StateIs
<1>2. r = IF GetThrows(st.ip, st.store, fcn) THEN Throw(st)
          ELSE IF get = NullReference THEN soAllocFileCluster(st, fcn)
          ELSE [st EXCEPT !.cn = get]
  BY <1>1 DEF Found
<1> HIDE DEF st, r
<1>3. CASE GetThrows(st.ip, st.store, fcn)
  BY <1>1, <1>2, <1>3, PassesThrow DEF st, r
<1>4. CASE ~GetThrows(st.ip, st.store, fcn) /\ get = NullReference
  BY <1>1, <1>2, <1>4, AllocPasses DEF st, r
<1>5. CASE ~GetThrows(st.ip, st.store, fcn) /\ get # NullReference
  <2>1. get \in Reference
    BY <1>1, <1>5, GotType
  <2> HIDE DEF get
  <2>2. r = [st EXCEPT !.cn = get]
    BY <1>2, <1>5
  <2>3. IsWork(r) /\ r.sb = st.sb /\ r.ip = st.ip /\ r.ok = st.ok
    BY <1>1, <2>1, <2>2, GetType
  <2>4. Passes(st, r)
    BY <1>1, <2>3, SameSum
  <2>5. QED
    BY <2>4 DEF st, r
<1>6. QED
  BY <1>3, <1>4, <1>5

LEMMA WriteCounts ==
  ASSUME CountsInv, NEW f \in Files, NEW fcn \in FileClusterNumbers, WriteFileCluster(f, fcn)
  PROVE  CountsInv'
<1> DEFINE st == State(f)
           s == Found(f, fcn)
<1>1. IsWork(st) /\ st.sb = sb /\ st.ip = inode[f]
  BY StateIs
<1>2. Passes(st, s)
  BY FoundIs
<1>3. IF s.ok /\ s.cn \in Clusters
      THEN /\ Done(f, Data(s, Content(f, fcn)))
           /\ written' = written \union {<<f, fcn>>}
      ELSE Done(f, Throw(s)) /\ written' = written
  BY WriteIsFound DEF Exists
<1> HIDE DEF st, s
<1>4. /\ IsWork(s) /\ s.sb.cfree + s.ip.clucnt >= sb.cfree + inode[f].clucnt
      /\ s.ok => s.sb.cfree + s.ip.clucnt = sb.cfree + inode[f].clucnt
  BY <1>1, <1>2 DEF Passes, Sum
<1>5. written \subseteq Files \X FileClusterNumbers
  BY DEF CountsInv
<1>6. CASE s.ok /\ s.cn \in Clusters
  <2> DEFINE r == Data(s, Content(f, fcn))
  <2>1. Done(f, r) /\ written' \subseteq Files \X FileClusterNumbers
    BY <1>3, <1>5, <1>6
  <2>2. IsWork(r) /\ r.sb = s.sb /\ r.ip = s.ip /\ r.ok = s.ok
    BY <1>4, <1>6, ContentType, DataIs
  <2> HIDE DEF r
  <2>3. QED
    BY <1>4, <2>1, <2>2, DoneCounts
<1>7. CASE ~(s.ok /\ s.cn \in Clusters)
  <2> DEFINE r == Throw(s)
  <2>1. Done(f, r) /\ written' \subseteq Files \X FileClusterNumbers
    BY <1>3, <1>5, <1>7
  <2>2. IsWork(r) /\ r.sb = s.sb /\ r.ip = s.ip /\ ~r.ok
    BY <1>4, ThrowIs
  <2> HIDE DEF r
  <2>3. QED
    BY <1>4, <2>1, <2>2, DoneCounts
<1>8. QED
  BY <1>6, <1>7

LEMMA CacheCounts ==
  ASSUME CountsInv, Replenish \/ Deplete
  PROVE  CountsInv' /\ sb.damage \subseteq sb'.damage
<1>1. IsSb(sb)
  BY DEF CountsInv
<1>2. IsSb(sb') /\ sb'.cfree = sb.cfree /\ sb.damage \subseteq sb'.damage
  BY <1>1, ReplenishTypes, DepleteTypes DEF Replenish, Deplete
<1>3. UNCHANGED <<inode, store, written, failed>>
  BY DEF Replenish, Deplete
<1>4. QED
  BY <1>2, <1>3 DEF CountsInv, Balanced

LEMMA OperationCounts ==
  ASSUME CountsInv, Operation
  PROVE  CountsInv'
<1>1. Positions \subseteq FileClusterNumbers
  BY PositionsAssumption
<1>2. CASE \E f \in Files, fcn \in Positions :
              AllocFileCluster(f, fcn) \/ FreeFileClusters(f, fcn) \/ WriteFileCluster(f, fcn)
  BY <1>1, <1>2, AllocCounts, FreeCounts, WriteCounts
<1>3. CASE Replenish \/ Deplete
  BY <1>3, CacheCounts
<1>4. QED
  BY <1>2, <1>3 DEF Operation

\* mksofs leaves a superblock and a bitmap in which each free cluster has one place.
LEMMA FirstSb ==
  LET s == fillInFreeClusterTable(fillInSuperBlock(CTotal))
  IN /\ IsSb(s) /\ s.cfree = CTotal - 1 /\ s.damage = {} /\ PoolOK(s)
<1> DEFINE null == [j \in Slots |-> NullReference]
           ones == 1 .. ReferencesPerBitmapBlock - 1
           s == [ctotal |-> CTotal, cfree |-> CTotal - 1, rmidx |-> 0,
                 rcache |-> [ref |-> null, idx |-> CacheSize],
                 icache |-> [ref |-> null, idx |-> 0],
                 map |-> ones, damage |-> {}]
<1>1. fillInFreeClusterTable(fillInSuperBlock(CTotal)) = s
  <2> DEFINE n == CTotal - 1
             e == [ctotal |-> CTotal, cfree |-> n, rmidx |-> 0,
                   rcache |-> [ref |-> null, idx |-> CacheSize],
                   icache |-> [ref |-> null, idx |-> 0],
                   map |-> {}, damage |-> {}]
  <2>1. fillInSuperBlock(CTotal) = e
    BY DEF fillInSuperBlock
  <2>2. fillInFreeClusterTable(e) = [e EXCEPT !.map = ones]
    BY DEF fillInFreeClusterTable
  <2> HIDE DEF null, ones, n
  <2>3. [e EXCEPT !.map = ones] = [ctotal |-> CTotal, cfree |-> n, rmidx |-> 0,
                   rcache |-> [ref |-> null, idx |-> CacheSize],
                   icache |-> [ref |-> null, idx |-> 0],
                   map |-> ones, damage |-> {}]
    OBVIOUS
  <2>4. QED
    BY <2>1, <2>2, <2>3 DEF n
<1>2. /\ null \in [Slots -> Reference] /\ \A j \in Slots : null[j] = NullReference
      /\ CTotal - 1 \in Nat /\ ones \in SUBSET Nat /\ ones \subseteq 0 .. ReferencesPerBitmapBlock - 1
      /\ \A j \in Slots : j >= 0 /\ ~(j < 0) /\ ~(j >= CacheSize)
      /\ 0 \in 0 .. CacheSize /\ CacheSize \in 0 .. CacheSize /\ 0 \in 0 .. BytesPerBlock
  BY Sizes1, Sizes2 DEF Reference, Slots
<1> HIDE DEF null, ones
<1>3. IsSb(s)
  BY <1>2 DEF IsSb, Superblocks, Caches, InsertionEnds, Damages
<1>4. Live(s) = {} /\ Given(s) = {}
  BY <1>2 DEF Live, Given
<1>5. PoolOK(s)
  BY <1>2, <1>4 DEF PoolOK
<1>6. QED
  BY <1>1, <1>3, <1>5

LEMMA InitCounts ==
  ASSUME Init
  PROVE  CountsInv
<1>1. IsSb(sb) /\ sb.cfree = CTotal - 1
  BY FirstSb DEF Init
<1>2. NewInode \in InodeParts /\ NewInode.clucnt = 0
  BY Sizes2 DEF NewInode, InodeParts, Direct
<1>3. inode \in [Files -> InodeParts] /\ \A f \in Files : inode[f].clucnt = 0
  BY <1>2 DEF Init
<1>4. Counted(inode, Files) = 0
  BY <1>3, NoneCounts
<1>5. store \in Stores
  BY DEF Init, Stores, Contents, Zeros
<1>6. Balanced(sb, inode, failed)
  BY <1>1, <1>4, Sizes2 DEF Balanced
<1>7. QED
  BY <1>1, <1>3, <1>5, <1>6 DEF CountsInv, Init

LEMMA CountsAccounting ==
  ASSUME CountsInv
  PROVE  Accounting
BY DEF CountsInv, Balanced, Counted, Accounting

\* All of TypeOK but the count of each inode.
LEMMA CountsTypeOK ==
  ASSUME CountsInv, Undamaged => \A f \in Files : inode[f].clucnt >= 0
  PROVE  TypeOK
<1>1. /\ IsSb(sb) /\ sb \in Superblocks /\ InsertionEnds(sb) /\ inode \in [Files -> InodeParts]
      /\ written \subseteq Files \X FileClusterNumbers
  BY DEF CountsInv, IsSb
<1>2. /\ sb.cfree \in Nat /\ sb.rmidx \in 0 .. BytesPerBlock /\ sb.map \subseteq Nat
      /\ sb.rcache.idx \in 0 .. CacheSize /\ sb.icache.idx \in 0 .. CacheSize
      /\ sb.rcache.ref \in [Slots -> Reference] /\ sb.icache.ref \in [Slots -> Reference]
  BY <1>1 DEF Superblocks, Caches
<1>3. \A f \in Files : /\ inode[f].clucnt \in Int /\ inode[f].i1 \in Reference
                       /\ inode[f].i2 \in Reference
  BY <1>1 DEF InodeParts
<1>4. QED
  BY <1>1, <1>2, <1>3 DEF TypeOK, InsertionEnds

-----------------------------------------------------------------------------
(***************************************************************************)
(* The places at which an inode may lead to a cluster: direct, first and   *)
(* second level, the tables of the second level, and the references of     *)
(* each table (the first level's is part 0).                               *)
(***************************************************************************)
DSpot(n) == <<"d", 0, n>>
I1Spot == <<"i1", 0, 0>>
I2Spot == <<"i2", 0, 0>>
TSpot(n) == <<"t", 0, n>>
RSpot(a, b) == <<"r", a, b>>
AllParts == 0 .. ReferencesPerCluster
Tops == {I1Spot, I2Spot} \union {TSpot(n) : n \in Refs}
Leaves == {DSpot(n) : n \in Direct} \union {RSpot(x[1], x[2]) : x \in AllParts \X Refs}
Spots == Tops \union Leaves
Host(a) == IF a = 0 THEN I1Spot ELSE TSpot(a - 1)

Base(ip, sto, a) == IF a = 0 THEN ip.i1 ELSE Tab(sto, ip.i2)[a - 1]
LeadOf(ip, sto, p) ==
    IF p[1] = "d" THEN ip.d[p[3]]
    ELSE IF p[1] = "i1" THEN ip.i1
    ELSE IF p[1] = "i2" THEN ip.i2
    ELSE IF p[1] = "t" THEN Tab(sto, ip.i2)[p[3]]
    ELSE Tab(sto, Base(ip, sto, p[2]))[p[3]]

LEMMA SpotsIn ==
  /\ \A n \in Direct : DSpot(n) \in Leaves
  /\ I1Spot \in Tops /\ I2Spot \in Tops
  /\ \A n \in Refs : TSpot(n) \in Tops
  /\ \A a \in AllParts, b \in Refs : RSpot(a, b) \in Leaves
  /\ Spots = Tops \union Leaves
  /\ \A a \in AllParts : Host(a) \in Tops
<1>1. \A a \in AllParts : a = 0 \/ a - 1 \in Refs
  BY Sizes2 DEF AllParts, Refs
<1>2. \A a \in AllParts, b \in Refs : RSpot(a, b) \in Leaves
  <2> SUFFICES ASSUME NEW a \in AllParts, NEW b \in Refs PROVE RSpot(a, b) \in Leaves
    OBVIOUS
  <2>1. <<a, b>> \in AllParts \X Refs /\ RSpot(a, b) = RSpot(<<a, b>>[1], <<a, b>>[2])
    OBVIOUS
  <2>2. QED
    BY <2>1 DEF Leaves
<1>3. QED
  BY <1>1, <1>2 DEF Tops, Leaves, Spots, Host

LEMMA SpotCases ==
  ASSUME NEW p \in Spots
  PROVE  \/ \E n \in Direct : p = DSpot(n)
         \/ p = I1Spot
         \/ p = I2Spot
         \/ \E n \in Refs : p = TSpot(n)
         \/ \E a \in AllParts, b \in Refs : p = RSpot(a, b)
BY DEF Spots, Tops, Leaves

LEMMA SpotsDiffer ==
  /\ I1Spot # I2Spot
  /\ \A n, m : /\ DSpot(n) \notin Tops /\ TSpot(n) # I1Spot /\ TSpot(n) # I2Spot
               /\ RSpot(n, m) \notin Tops /\ \A k : RSpot(n, m) # DSpot(k)
               /\ (DSpot(n) = DSpot(m) => n = m) /\ (TSpot(n) = TSpot(m) => n = m)
  /\ \A a, b, c, d : RSpot(a, b) = RSpot(c, d) => a = c /\ b = d
  /\ \A p \in Leaves : p \notin Tops
<1>1. /\ I1Spot # I2Spot
      /\ \A n, m : /\ DSpot(n) \notin Tops /\ TSpot(n) # I1Spot /\ TSpot(n) # I2Spot
                   /\ RSpot(n, m) \notin Tops /\ \A k : RSpot(n, m) # DSpot(k)
                   /\ (DSpot(n) = DSpot(m) => n = m) /\ (TSpot(n) = TSpot(m) => n = m)
      /\ \A a, b, c, d : RSpot(a, b) = RSpot(c, d) => a = c /\ b = d
  BY DEF DSpot, I1Spot, I2Spot, TSpot, RSpot, Tops
<1>2. QED
  BY <1>1 DEF Leaves

LEMMA HostsDiffer ==
  ASSUME NEW a \in AllParts, NEW b \in AllParts, Host(a) = Host(b)
  PROVE  a = b
<1>1. a \in Nat /\ b \in Nat
  BY Sizes2 DEF AllParts
<1>2. CASE a = 0 /\ b # 0
  <2>1. I1Spot = TSpot(b - 1)
    BY <1>2 DEF Host
  <2>2. QED
    BY <2>1, SpotsDiffer
<1>3. CASE a # 0 /\ b = 0
  <2>1. I1Spot = TSpot(a - 1)
    BY <1>3 DEF Host
  <2>2. QED
    BY <2>1, SpotsDiffer
<1>4. CASE a # 0 /\ b # 0
  <2>1. TSpot(a - 1) = TSpot(b - 1)
    BY <1>4 DEF Host
  <2>2. a - 1 = b - 1
    BY <2>1 DEF TSpot
  <2>3. QED
    BY <1>1, <2>2
<1>5. QED
  BY <1>2, <1>3, <1>4

LEMMA LeadIs ==
  ASSUME NEW ip, NEW sto
  PROVE  /\ \A n : LeadOf(ip, sto, DSpot(n)) = ip.d[n]
         /\ LeadOf(ip, sto, I1Spot) = ip.i1
         /\ LeadOf(ip, sto, I2Spot) = ip.i2
         /\ \A n : LeadOf(ip, sto, TSpot(n)) = Tab(sto, ip.i2)[n]
         /\ \A a, b : LeadOf(ip, sto, RSpot(a, b)) = Tab(sto, Base(ip, sto, a))[b]
BY DEF LeadOf, DSpot, I1Spot, I2Spot, TSpot, RSpot

LEMMA HostIs ==
  ASSUME NEW ip, NEW sto, NEW a
  PROVE  LeadOf(ip, sto, Host(a)) = Base(ip, sto, a)
<1>1. CASE a = 0
  BY <1>1, LeadIs DEF Host, Base
<1>2. CASE a # 0
  <2> DEFINE m == a - 1
  <2>1. Host(a) = TSpot(m) /\ Base(ip, sto, a) = Tab(sto, ip.i2)[m]
    BY <1>2 DEF Host, Base
  <2>2. \A n : LeadOf(ip, sto, TSpot(n)) = Tab(sto, ip.i2)[n]
    BY LeadIs
  <2> HIDE DEF m
  <2>3. LeadOf(ip, sto, TSpot(m)) = Tab(sto, ip.i2)[m]
    BY <2>2
  <2>4. QED
    BY <2>1, <2>3
<1>3. QED
  BY <1>1, <1>2

LEMMA LeadType ==
  ASSUME NEW ip \in InodeParts, NEW sto \in Stores, NEW p \in Spots
  PROVE  LeadOf(ip, sto, p) \in Reference
<1>1. /\ \A n \in Direct : ip.d[n] \in Reference
      /\ ip.i1 \in Reference /\ ip.i2 \in Reference
  BY DEF InodeParts
<1>2. \A cn : \A n \in Refs : Tab(sto, cn)[n] \in Reference
  BY TabType DEF Tables
<1>l. \A n : LeadOf(ip, sto, DSpot(n)) = ip.d[n]
  BY LeadIs
<1>m. \A n : LeadOf(ip, sto, TSpot(n)) = Tab(sto, ip.i2)[n]
  BY LeadIs
<1>n. \A a, b : LeadOf(ip, sto, RSpot(a, b)) = Tab(sto, Base(ip, sto, a))[b]
  BY DEF LeadOf, RSpot
<1>3. CASE \E n \in Direct : p = DSpot(n)
  <2>1. PICK n \in Direct : p = DSpot(n)
    BY <1>3
  <2>2. LeadOf(ip, sto, DSpot(n)) = ip.d[n]
    BY <1>l
  <2>3. QED
    BY <1>1, <2>1, <2>2
<1>4. CASE p = I1Spot \/ p = I2Spot
  <2>1. LeadOf(ip, sto, I1Spot) = ip.i1 /\ LeadOf(ip, sto, I2Spot) = ip.i2
    BY LeadIs
  <2>2. QED
    BY <1>1, <1>4, <2>1
<1>5. CASE \E n \in Refs : p = TSpot(n)
  <2>1. PICK n \in Refs : p = TSpot(n)
    BY <1>5
  <2>2. LeadOf(ip, sto, TSpot(n)) = Tab(sto, ip.i2)[n]
    BY <1>m
  <2>3. QED
    BY <1>2, <2>1, <2>2
<1>6. CASE \E a \in AllParts, b \in Refs : p = RSpot(a, b)
  <2>1. PICK a \in AllParts, b \in Refs : p = RSpot(a, b)
    BY <1>6
  <2>2. LeadOf(ip, sto, RSpot(a, b)) = Tab(sto, Base(ip, sto, a))[b]
    BY <1>n
  <2>3. QED
    BY <1>2, <2>1, <2>2
<1>7. QED
  BY <1>3, <1>4, <1>5, <1>6, SpotCases

LEMMA ImageFinite ==
  ASSUME NEW S, IsFiniteSet(S), NEW f, DOMAIN f = S
  PROVE  IsFiniteSet({f[x] : x \in S})
<1> DEFINE T == {f[x] : x \in S}
           g == [x \in S |-> f[x]]
<1>1. g \in Surjection(S, T)
  BY DEF Surjection
<1>2. QED
  BY <1>1, FS_Surjection

LEMMA SpotsFinite == IsFiniteSet(Spots)
<1>1. \A m, n \in Int : IsFiniteSet(m .. n)
  BY FS_Interval
<1>2. IsFiniteSet(Refs) /\ IsFiniteSet(Direct) /\ IsFiniteSet(AllParts)
  <2>1. /\ ReferencesPerCluster \in Int /\ ReferencesPerCluster - 1 \in Int
        /\ N_DIRECT - 1 \in Int /\ 0 \in Int
    BY Sizes2
  <2> DEFINE r == ReferencesPerCluster - 1
             d == N_DIRECT - 1
  <2>2. r \in Int /\ d \in Int
    BY <2>1
  <2> HIDE DEF r, d
  <2>3. IsFiniteSet(0 .. r) /\ IsFiniteSet(0 .. d) /\ IsFiniteSet(0 .. ReferencesPerCluster)
    BY <1>1, <2>1, <2>2
  <2>4. QED
    BY <2>3 DEF r, d, Refs, Direct, AllParts
<1>3. IsFiniteSet(AllParts \X Refs)
  BY <1>2, FS_Product
<1>4. IsFiniteSet({DSpot(n) : n \in Direct})
  <2> DEFINE f == [n \in Direct |-> DSpot(n)]
  <2>1. IsFiniteSet({f[n] : n \in Direct})
    <3>1. DOMAIN f = Direct
      OBVIOUS
    <3> HIDE DEF f
    <3>2. QED
      BY <1>2, <3>1, ImageFinite
  <2>2. {DSpot(n) : n \in Direct} = {f[n] : n \in Direct}
    OBVIOUS
  <2>3. QED
    BY <2>1, <2>2
<1>5. IsFiniteSet({TSpot(n) : n \in Refs})
  <2> DEFINE f == [n \in Refs |-> TSpot(n)]
  <2>1. IsFiniteSet({f[n] : n \in Refs})
    <3>1. DOMAIN f = Refs
      OBVIOUS
    <3> HIDE DEF f
    <3>2. QED
      BY <1>2, <3>1, ImageFinite
  <2>2. {TSpot(n) : n \in Refs} = {f[n] : n \in Refs}
    OBVIOUS
  <2>3. QED
    BY <2>1, <2>2
<1>6. IsFiniteSet({RSpot(x[1], x[2]) : x \in AllParts \X Refs})
  <2> DEFINE f == [x \in AllParts \X Refs |-> RSpot(x[1], x[2])]
  <2>1. IsFiniteSet({f[x] : x \in AllParts \X Refs})
    <3>1. DOMAIN f = AllParts \X Refs
      OBVIOUS
    <3> HIDE DEF f
    <3>2. QED
      BY <1>3, <3>1, ImageFinite
  <2>2. {RSpot(x[1], x[2]) : x \in AllParts \X Refs} = {f[x] : x \in AllParts \X Refs}
    OBVIOUS
  <2>3. QED
    BY <2>1, <2>2
<1>7. IsFiniteSet({I1Spot, I2Spot})
  <2>1. IsFiniteSet({} \union {I1Spot})
    BY FS_EmptySet, FS_AddElement
  <2>2. IsFiniteSet(({} \union {I1Spot}) \union {I2Spot})
    BY <2>1, FS_AddElement
  <2>3. ({} \union {I1Spot}) \union {I2Spot} = {I1Spot, I2Spot}
    OBVIOUS
  <2>4. QED
    BY <2>2, <2>3
<1>8. QED
  <2>1. IsFiniteSet(Tops)
    BY <1>5, <1>7, FS_Union DEF Tops
  <2>2. IsFiniteSet(Leaves)
    BY <1>4, <1>6, FS_Union DEF Leaves
  <2>3. QED
    BY <2>1, <2>2, FS_Union DEF Spots

-----------------------------------------------------------------------------
(***************************************************************************)
(* The place of a file cluster number.                                     *)
(***************************************************************************)
PartOf(fcn) == IF fcn < FirstDouble THEN 0 ELSE (fcn - FirstDouble) \div ReferencesPerCluster + 1
SlotOf(fcn) == IF fcn < FirstDouble THEN fcn - N_DIRECT
                                    ELSE (fcn - FirstDouble) % ReferencesPerCluster
SpotOf(fcn) == IF fcn < N_DIRECT THEN DSpot(fcn) ELSE RSpot(PartOf(fcn), SlotOf(fcn))

LEMMA NumbersIs ==
  ASSUME NEW fcn \in FileClusterNumbers
  PROVE  /\ fcn \in Nat /\ N_DIRECT \in Nat /\ FirstDouble \in Nat
         /\ FirstDouble = N_DIRECT + ReferencesPerCluster
         /\ fcn < N_DIRECT => fcn \in Direct
         /\ fcn >= N_DIRECT /\ fcn < FirstDouble =>
              fcn - N_DIRECT \in Refs /\ fcn \in N_DIRECT .. FirstDouble - 1
         /\ fcn >= FirstDouble =>
              /\ fcn - FirstDouble \in 0 .. ReferencesPerCluster * ReferencesPerCluster - 1
              /\ fcn \notin N_DIRECT .. FirstDouble - 1 /\ ~(fcn < N_DIRECT)
<1> DEFINE R == ReferencesPerCluster
           Q == R * R
<1>1. N_DIRECT \in Nat /\ R \in Nat \ {0}
  BY Sizes2
<1>2. Q \in Nat
  BY <1>1
<1>3. fcn \in 0 .. FirstDouble + Q - 1 /\ FirstDouble = N_DIRECT + R
  BY DEF FileClusterNumbers, FirstDouble
<1> HIDE DEF Q, R
<1>4. fcn \in Nat /\ FirstDouble \in Nat /\ fcn <= FirstDouble + Q - 1
  BY <1>1, <1>2, <1>3
<1>5. fcn < N_DIRECT => fcn \in Direct
  BY <1>1, <1>4 DEF Direct
<1>6. fcn >= N_DIRECT /\ fcn < FirstDouble =>
              fcn - N_DIRECT \in 0 .. R - 1 /\ fcn \in N_DIRECT .. FirstDouble - 1
  BY <1>1, <1>3, <1>4
<1>7. fcn >= FirstDouble =>
              /\ fcn - FirstDouble \in 0 .. Q - 1
              /\ fcn \notin N_DIRECT .. FirstDouble - 1 /\ ~(fcn < N_DIRECT)
  BY <1>1, <1>2, <1>3, <1>4
<1>8. QED
  BY <1>1, <1>3, <1>4, <1>5, <1>6, <1>7 DEF Q, R, Refs

LEMMA SpotOfIs ==
  ASSUME NEW fcn \in FileClusterNumbers
  PROVE  /\ SpotOf(fcn) \in Leaves
         /\ fcn >= N_DIRECT => PartOf(fcn) \in AllParts /\ SlotOf(fcn) \in Refs
<1>1. CASE fcn < N_DIRECT
  BY <1>1, NumbersIs, SpotsIn DEF SpotOf
<1>2. CASE fcn >= N_DIRECT /\ fcn < FirstDouble
  <2>1. SlotOf(fcn) \in Refs /\ PartOf(fcn) = 0 /\ ~(fcn < N_DIRECT)
    BY <1>2, NumbersIs DEF SlotOf, PartOf
  <2>2. 0 \in AllParts
    BY Sizes2 DEF AllParts
  <2>3. QED
    BY <2>1, <2>2, SpotsIn DEF SpotOf
<1>3. CASE fcn >= FirstDouble
  <2> DEFINE m == fcn - FirstDouble
  <2>1. m \in 0 .. ReferencesPerCluster * ReferencesPerCluster - 1 /\ ~(fcn < N_DIRECT) /\ ~(fcn < FirstDouble)
    BY <1>3, NumbersIs
  <2>2. PartOf(fcn) = (m \div ReferencesPerCluster) + 1 /\ SlotOf(fcn) = m % ReferencesPerCluster
    BY <2>1 DEF PartOf, SlotOf
  <2> HIDE DEF m
  <2> DEFINE q == m \div ReferencesPerCluster
  <2>3. q \in Refs /\ SlotOf(fcn) \in Refs
    BY <2>1, <2>2, Parts
  <2>4. PartOf(fcn) = q + 1
    BY <2>2
  <2> HIDE DEF q
  <2>5. q + 1 \in AllParts
    BY <2>3, Sizes2 DEF Refs, AllParts
  <2>6. QED
    BY <2>1, <2>3, <2>4, <2>5, SpotsIn DEF SpotOf
<1>4. QED
  BY <1>1, <1>2, <1>3, NumbersIs

LEMMA SpotOfInjective ==
  ASSUME NEW m \in FileClusterNumbers, NEW n \in FileClusterNumbers, SpotOf(m) = SpotOf(n)
  PROVE  m = n
<1>1. /\ m \in Nat /\ n \in Nat /\ N_DIRECT \in Nat /\ FirstDouble \in Nat
      /\ FirstDouble = N_DIRECT + ReferencesPerCluster /\ ReferencesPerCluster \in Nat \ {0}
  BY NumbersIs, Sizes2
<1>2. CASE m < N_DIRECT \/ n < N_DIRECT
  BY <1>2, SpotsDiffer DEF SpotOf
<1>3. CASE ~(m < N_DIRECT) /\ ~(n < N_DIRECT)
  <2>1. PartOf(m) = PartOf(n) /\ SlotOf(m) = SlotOf(n)
    BY <1>3, SpotsDiffer DEF SpotOf
  <2>2. \A x \in Nat : x >= FirstDouble =>
           (x - FirstDouble) \div ReferencesPerCluster \in Nat
    BY <1>1
  <2>3. m < FirstDouble <=> n < FirstDouble
    BY <1>1, <2>1, <2>2 DEF PartOf
  <2>4. CASE m < FirstDouble
    BY <1>1, <2>1, <2>3, <2>4 DEF SlotOf
  <2>5. CASE ~(m < FirstDouble)
    <3> DEFINE R == ReferencesPerCluster
               x == m - FirstDouble
               y == n - FirstDouble
    <3>1. x \in Nat /\ y \in Nat /\ ~(n < FirstDouble)
      BY <1>1, <2>3, <2>5
    <3> DEFINE qx == x \div R
               qy == y \div R
    <3>2. qx + 1 = qy + 1 /\ x % R = y % R
      <4>1. PartOf(m) = qx + 1 /\ PartOf(n) = qy + 1
        BY <2>5, <3>1 DEF PartOf
      <4>2. SlotOf(m) = x % R /\ SlotOf(n) = y % R
        BY <2>5, <3>1 DEF SlotOf
      <4>3. QED
        BY <2>1, <4>1, <4>2
    <3> DEFINE rx == x % R
               ry == y % R
    <3>3. /\ qx \in Nat /\ qy \in Nat /\ rx \in Nat /\ ry \in Nat /\ R \in Nat \ {0}
          /\ x = R * qx + rx /\ y = R * qy + ry
      <4>1. R \in Nat \ {0}
        BY <1>1
      <4> HIDE DEF R, x, y
      <4>2. QED
        BY <4>1, <3>1
    <3>4. x = y
      <4>1. qx + 1 = qy + 1 /\ rx = ry
        BY <3>2
      <4> HIDE DEF R, x, y, qx, qy, rx, ry
      <4>2. qx = qy
        BY <3>3, <4>1
      <4>3. QED
        BY <3>3, <4>1, <4>2
    <3>5. QED
      BY <1>1, <3>4
  <2>6. QED
    BY <2>4, <2>5
<1>4. QED
  BY <1>2, <1>3

-----------------------------------------------------------------------------
(***************************************************************************)
(* Where the references of an inode lead, as long as nothing went wrong:   *)
(* the tables are tables.                                                  *)
(***************************************************************************)
TreeOK(ip, sto) ==
    \A p \in Tops : LeadOf(ip, sto, p) # NullReference =>
                       /\ LeadOf(ip, sto, p) \in Clusters
                       /\ sto[LeadOf(ip, sto, p)].kind = "references"

LEMMA NoTable ==
  ASSUME NEW sto, NEW n \in Refs
  PROVE  Tab(sto, NullReference)[n] = NullReference
BY Sizes2 DEF Tab, NullRefs

LEMMA LeadOfTable ==
  ASSUME NEW ip, NEW sto, NEW a \in AllParts, NEW b \in Refs
  PROVE  LeadOf(ip, sto, RSpot(a, b)) = Tab(sto, LeadOf(ip, sto, Host(a)))[b]
<1>1. \A m, n : LeadOf(ip, sto, RSpot(m, n)) = Tab(sto, Base(ip, sto, m))[n]
  BY DEF LeadOf, RSpot
<1>2. LeadOf(ip, sto, Host(a)) = Base(ip, sto, a)
  BY HostIs
<1>3. QED
  BY <1>1, <1>2

\* What soGetFileCluster finds is what the place of the file cluster leads to; it throws
\* only where there is nothing.
LEMMA GetIs ==
  ASSUME NEW ip \in InodeParts, NEW sto \in Stores, TreeOK(ip, sto), NEW fcn \in FileClusterNumbers
  PROVE  /\ ~GetThrows(ip, sto, fcn) => soGetFileCluster(ip, sto, fcn) = LeadOf(ip, sto, SpotOf(fcn))
         /\ GetThrows(ip, sto, fcn) => LeadOf(ip, sto, SpotOf(fcn)) = NullReference
<1> DEFINE lead == LeadOf(ip, sto, SpotOf(fcn))
<1>1. CASE fcn < N_DIRECT
  <2>1. SpotOf(fcn) = DSpot(fcn) /\ fcn \notin N_DIRECT .. FirstDouble - 1 /\ ~(fcn >= FirstDouble)
    BY <1>1, NumbersIs, Sizes2 DEF SpotOf
  <2>2. \A n : LeadOf(ip, sto, DSpot(n)) = ip.d[n]
    BY DEF LeadOf, DSpot
  <2>3. lead = ip.d[fcn]
    BY <2>1, <2>2
  <2>4. soGetFileCluster(ip, sto, fcn) = ip.d[fcn] /\ ~GetThrows(ip, sto, fcn)
    BY <1>1, <2>1 DEF soGetFileCluster, GetThrows
  <2>5. QED
    BY <2>3, <2>4
<1>2. CASE fcn >= N_DIRECT /\ fcn < FirstDouble
  <2> DEFINE n == fcn - N_DIRECT
  <2>1. /\ n \in Refs /\ fcn \in N_DIRECT .. FirstDouble - 1 /\ ~(fcn < N_DIRECT)
        /\ ~(fcn >= FirstDouble)
    BY <1>2, NumbersIs
  <2>2. SpotOf(fcn) = RSpot(0, n)
    BY <1>2, <2>1 DEF SpotOf, PartOf, SlotOf
  <2>3. /\ soGetFileCluster(ip, sto, fcn) = IF ip.i1 = NullReference THEN NullReference
                                            ELSE RefsIn(sto[ip.i1])[n]
        /\ GetThrows(ip, sto, fcn) <=> ip.i1 # NullReference /\ ip.i1 \notin Clusters
    BY <2>1 DEF soGetFileCluster, GetThrows, Exists
  <2> HIDE DEF n
  <2>4. LeadOf(ip, sto, I1Spot) = ip.i1 /\ 0 \in AllParts /\ Host(0) = I1Spot
    BY LeadIs, Sizes2 DEF AllParts, Host
  <2>5. lead = Tab(sto, ip.i1)[n]
    BY <2>1, <2>2, <2>4, LeadOfTable
  <2>6. ip.i1 # NullReference => ip.i1 \in Clusters
    BY <2>4, SpotsIn DEF TreeOK
  <2>7. CASE ip.i1 = NullReference
    BY <2>1, <2>3, <2>5, <2>7, NoTable
  <2>8. CASE ip.i1 # NullReference
    BY <2>3, <2>5, <2>6, <2>8 DEF Tab
  <2>9. QED
    BY <2>7, <2>8
<1>3. CASE fcn >= FirstDouble
  <2> DEFINE m == fcn - FirstDouble
             a == m \div ReferencesPerCluster
             b == m % ReferencesPerCluster
  <2>1. /\ m \in 0 .. ReferencesPerCluster * ReferencesPerCluster - 1
        /\ fcn \notin N_DIRECT .. FirstDouble - 1 /\ ~(fcn < N_DIRECT) /\ ~(fcn < FirstDouble)
    BY <1>3, NumbersIs
  <2>2. SpotOf(fcn) = RSpot(a + 1, b)
    BY <2>1 DEF SpotOf, PartOf, SlotOf
  <2>3. /\ soGetFileCluster(ip, sto, fcn) = IF ip.i2 = NullReference THEN NullReference
                                            ELSE RefsIn(sto[RefsIn(sto[ip.i2])[a]])[b]
        /\ GetThrows(ip, sto, fcn) <=>
              /\ ip.i2 # NullReference
              /\ ip.i2 \notin Clusters \/ RefsIn(sto[ip.i2])[a] \notin Clusters
    BY <1>3, <2>1 DEF soGetFileCluster, GetThrows, Exists, Second
  <2>4. a \in Refs /\ b \in Refs
    <3> HIDE DEF m
    <3>1. QED
      BY <2>1, Parts
  <2> HIDE DEF m, a, b
  <2>5. a \in Nat /\ a + 1 \in AllParts /\ Host(a + 1) = TSpot(a)
    <3>1. a \in Nat /\ a + 1 \in AllParts /\ a + 1 # 0 /\ (a + 1) - 1 = a
      BY <2>4, Sizes2 DEF Refs, AllParts
    <3>2. QED
      BY <3>1 DEF Host
  <2>6. /\ LeadOf(ip, sto, I2Spot) = ip.i2
        /\ LeadOf(ip, sto, TSpot(a)) = Tab(sto, ip.i2)[a]
    BY DEF LeadOf, I2Spot, TSpot
  <2>7. lead = Tab(sto, Tab(sto, ip.i2)[a])[b]
    BY <2>2, <2>4, <2>5, <2>6, LeadOfTable
  <2>8. /\ ip.i2 # NullReference => ip.i2 \in Clusters
        /\ Tab(sto, ip.i2)[a] # NullReference => Tab(sto, ip.i2)[a] \in Clusters
    BY <2>4, <2>6, SpotsIn DEF TreeOK
  <2>9. CASE ip.i2 = NullReference
    <3>1. Tab(sto, ip.i2)[a] = NullReference
      BY <2>4, <2>9, NoTable
    <3>2. lead = NullReference
      BY <2>4, <2>7, <3>1, NoTable
    <3>3. QED
      BY <2>3, <2>9, <3>2
  <2>10. CASE ip.i2 # NullReference
    <3>1. Tab(sto, ip.i2)[a] = RefsIn(sto[ip.i2])[a] /\ ip.i2 \in Clusters
      BY <2>8, <2>10 DEF Tab
    <3>2. CASE Tab(sto, ip.i2)[a] = NullReference
      <4>1. lead = NullReference /\ GetThrows(ip, sto, fcn)
        BY <2>3, <2>4, <2>7, <2>10, <3>1, <3>2, NoTable, Sizes2
      <4>2. QED
        BY <4>1
    <3>3. CASE Tab(sto, ip.i2)[a] # NullReference
      <4>1. lead = RefsIn(sto[Tab(sto, ip.i2)[a]])[b] /\ Tab(sto, ip.i2)[a] \in Clusters
        BY <2>7, <2>8, <3>3 DEF Tab
      <4>2. QED
        BY <2>3, <2>10, <3>1, <4>1
    <3>4. QED
      BY <3>2, <3>3
  <2>11. QED
    BY <2>9, <2>10
<1>4. QED
  BY <1>1, <1>2, <1>3, NumbersIs

\* A step that leaves the tables of an inode alone leaves its places alone.
LEMMA LeadFrame ==
  ASSUME NEW ip \in InodeParts, NEW s0 \in Stores, NEW s1 \in Stores,
         \A p \in Tops : LeadOf(ip, s0, p) \in Clusters =>
                            s1[LeadOf(ip, s0, p)] = s0[LeadOf(ip, s0, p)]
  PROVE  \A p \in Spots : LeadOf(ip, s1, p) = LeadOf(ip, s0, p)
<1>1. \A p \in Tops : Tab(s1, LeadOf(ip, s0, p)) = Tab(s0, LeadOf(ip, s0, p))
  BY DEF Tab
<1>2. \A n : /\ LeadOf(ip, s0, DSpot(n)) = ip.d[n] /\ LeadOf(ip, s1, DSpot(n)) = ip.d[n]
  BY DEF LeadOf, DSpot
<1>3. /\ LeadOf(ip, s0, I1Spot) = ip.i1 /\ LeadOf(ip, s1, I1Spot) = ip.i1
      /\ LeadOf(ip, s0, I2Spot) = ip.i2 /\ LeadOf(ip, s1, I2Spot) = ip.i2
  BY LeadIs
<1>4. \A n : /\ LeadOf(ip, s0, TSpot(n)) = Tab(s0, ip.i2)[n]
             /\ LeadOf(ip, s1, TSpot(n)) = Tab(s1, ip.i2)[n]
  BY DEF LeadOf, TSpot
<1>5. Tab(s1, ip.i2) = Tab(s0, ip.i2)
  BY <1>1, <1>3, SpotsIn
<1>6. \A n : LeadOf(ip, s1, TSpot(n)) = LeadOf(ip, s0, TSpot(n))
  BY <1>4, <1>5
<1>7. \A p \in Tops : LeadOf(ip, s1, p) = LeadOf(ip, s0, p)
  BY <1>3, <1>6 DEF Tops
<1>8. \A a \in AllParts, b \in Refs : LeadOf(ip, s1, RSpot(a, b)) = LeadOf(ip, s0, RSpot(a, b))
  <2> SUFFICES ASSUME NEW a \in AllParts, NEW b \in Refs
               PROVE  LeadOf(ip, s1, RSpot(a, b)) = LeadOf(ip, s0, RSpot(a, b))
    OBVIOUS
  <2>1. /\ LeadOf(ip, s1, RSpot(a, b)) = Tab(s1, LeadOf(ip, s1, Host(a)))[b]
        /\ LeadOf(ip, s0, RSpot(a, b)) = Tab(s0, LeadOf(ip, s0, Host(a)))[b]
    BY LeadOfTable
  <2>2. Host(a) \in Tops
    BY SpotsIn
  <2>3. QED
    BY <1>1, <1>7, <2>1, <2>2
<1>9. QED
  BY <1>2, <1>7, <1>8, SpotCases, SpotsIn

-----------------------------------------------------------------------------
(***************************************************************************)
(* The volume as long as nothing went wrong: a superblock s, inodes ino,   *)
(* contents sto, and the file clusters wr that were written.               *)
(***************************************************************************)
Occupied(ip, sto) == {p \in Spots : LeadOf(ip, sto, p) # NullReference}
Holding(ino, sto, w) ==
    LET c == LeadOf(ino[w[1]], sto, SpotOf(w[2]))
    IN c \in Clusters /\ sto[c] = Content(w[1], w[2])
SoundAt(s, ino, sto, wr) ==
    /\ PoolOK(s)
    /\ \A f \in Files : TreeOK(ino[f], sto)
    /\ \A f, g \in Files : \A p, q \in Spots :
          /\ LeadOf(ino[f], sto, p) = LeadOf(ino[g], sto, q)
          /\ LeadOf(ino[f], sto, p) # NullReference
          => f = g /\ p = q
    /\ \A f \in Files : \A p \in Spots : LeadOf(ino[f], sto, p) \notin FreeSet(s)
    /\ \A f \in Files : ino[f].clucnt >= Cardinality(Occupied(ino[f], sto))
    /\ \A w \in wr : Holding(ino, sto, w)

LEMMA OccupiedFinite ==
  ASSUME NEW ip, NEW sto
  PROVE  IsFiniteSet(Occupied(ip, sto)) /\ Cardinality(Occupied(ip, sto)) \in Nat
BY SpotsFinite, FS_Subset, FS_CardinalityType DEF Occupied

\* One file changes: where it leads now it led before, or to what was free, and only what was
\* free or its own is written.
Changes(s0, ino, sto, wr, f, s1, ip, sto1, wr1) ==
    /\ PoolOK(s1) /\ TreeOK(ip, sto1)
    /\ \A p \in Spots : \/ LeadOf(ip, sto1, p) \in {NullReference, LeadOf(ino[f], sto, p)}
                        \/ LeadOf(ip, sto1, p) \in FreeSet(s0)
    /\ \A p, q \in Spots : LeadOf(ip, sto1, p) = LeadOf(ip, sto1, q)
                           /\ LeadOf(ip, sto1, p) # NullReference => p = q
    /\ \A p \in Spots : LeadOf(ip, sto1, p) \notin FreeSet(s1)
    /\ \A g \in Files : \A p \in Spots : g # f => LeadOf(ino[g], sto, p) \notin FreeSet(s1)
    /\ \A c \in Clusters : sto1[c] # sto[c] =>
           c \in FreeSet(s0) \/ \E p \in Spots : c = LeadOf(ino[f], sto, p)
    /\ ip.clucnt >= Cardinality(Occupied(ip, sto1))
    /\ \A w \in wr1 : /\ w[1] \in Files /\ w[2] \in FileClusterNumbers
                      /\ w[1] = f => Holding(With(ino, f, ip), sto1, w)
                      /\ w[1] # f => w \in wr

LEMMA OneFile ==
  ASSUME NEW s0, NEW ino \in [Files -> InodeParts], NEW sto \in Stores, NEW wr, SoundAt(s0, ino, sto, wr),
         NEW f \in Files, NEW s1, NEW ip \in InodeParts, NEW sto1 \in Stores, NEW wr1,
         Changes(s0, ino, sto, wr, f, s1, ip, sto1, wr1)
  PROVE  SoundAt(s1, With(ino, f, ip), sto1, wr1)
<1> DEFINE ino1 == With(ino, f, ip)
<1>0. /\ PoolOK(s1) /\ TreeOK(ip, sto1)
      /\ \A p \in Spots : \/ LeadOf(ip, sto1, p) \in {NullReference, LeadOf(ino[f], sto, p)}
                          \/ LeadOf(ip, sto1, p) \in FreeSet(s0)
      /\ \A p, q \in Spots : LeadOf(ip, sto1, p) = LeadOf(ip, sto1, q)
                             /\ LeadOf(ip, sto1, p) # NullReference => p = q
      /\ \A p \in Spots : LeadOf(ip, sto1, p) \notin FreeSet(s1)
      /\ \A g \in Files : \A p \in Spots : g # f => LeadOf(ino[g], sto, p) \notin FreeSet(s1)
      /\ \A c \in Clusters : sto1[c] # sto[c] =>
             c \in FreeSet(s0) \/ \E p \in Spots : c = LeadOf(ino[f], sto, p)
      /\ ip.clucnt >= Cardinality(Occupied(ip, sto1))
      /\ \A w \in wr1 : /\ w[1] \in Files /\ w[2] \in FileClusterNumbers
                        /\ w[1] = f => Holding(ino1, sto1, w)
                        /\ w[1] # f => w \in wr
  BY DEF Changes
<1>1. ino1[f] = ip /\ \A g \in Files : g # f => ino1[g] = ino[g] /\ ino[g] \in InodeParts
  BY DEF With
<1> HIDE DEF ino1
<1>2. ASSUME NEW g \in Files, g # f, NEW p \in Spots, LeadOf(ino[g], sto, p) \in Clusters
      PROVE  sto1[LeadOf(ino[g], sto, p)] = sto[LeadOf(ino[g], sto, p)]
  <2>1. LeadOf(ino[g], sto, p) \notin FreeSet(s0) /\ LeadOf(ino[g], sto, p) # NullReference
    BY <1>2, Sizes2 DEF SoundAt
  <2>2. \A q \in Spots : LeadOf(ino[g], sto, p) # LeadOf(ino[f], sto, q)
    BY <1>2, <2>1 DEF SoundAt
  <2>3. QED
    BY <1>0, <1>2, <2>1, <2>2
<1>3. ASSUME NEW g \in Files, g # f
      PROVE  \A p \in Spots : LeadOf(ino1[g], sto1, p) = LeadOf(ino[g], sto, p)
  <2>1. \A p \in Tops : LeadOf(ino[g], sto, p) \in Clusters =>
                            sto1[LeadOf(ino[g], sto, p)] = sto[LeadOf(ino[g], sto, p)]
    BY <1>2, <1>3, SpotsIn
  <2>2. ino1[g] = ino[g] /\ ino[g] \in InodeParts
    BY <1>1, <1>3
  <2>3. \A p \in Spots : LeadOf(ino[g], sto1, p) = LeadOf(ino[g], sto, p)
    BY <2>1, <2>2, LeadFrame
  <2>4. QED
    BY <2>2, <2>3
<1> DEFINE old(g, p) == LeadOf(ino[g], sto, p)
           new(g, p) == LeadOf(ino1[g], sto1, p)
<1>4. \A p \in Spots : new(f, p) = LeadOf(ip, sto1, p)
  BY <1>1
<1>5. \A g \in Files : TreeOK(ino1[g], sto1)
  <2> SUFFICES ASSUME NEW g \in Files PROVE TreeOK(ino1[g], sto1)
    OBVIOUS
  <2>1. CASE g = f
    BY <1>0, <1>1, <2>1
  <2>2. CASE g # f
    <3>1. TreeOK(ino[g], sto)
      BY DEF SoundAt
    <3>2. \A p \in Tops : old(g, p) # NullReference =>
            old(g, p) \in Clusters /\ sto1[old(g, p)].kind = "references"
      <4>1. \A p \in Tops : p \in Spots
        BY SpotsIn
      <4>2. QED
        BY <1>2, <2>2, <3>1, <4>1 DEF TreeOK
    <3>3. \A p \in Tops : new(g, p) = old(g, p)
      BY <1>3, <2>2, SpotsIn
    <3>4. QED
      BY <3>2, <3>3 DEF TreeOK
  <2>3. QED
    BY <2>1, <2>2
<1>6. ASSUME NEW g \in Files, NEW h \in Files, NEW p \in Spots, NEW q \in Spots,
             new(g, p) = new(h, q), new(g, p) # NullReference
      PROVE  g = h /\ p = q
  <2>1. \A k \in Files : k # f => \A r \in Spots : old(k, r) \notin FreeSet(s0)
    BY DEF SoundAt
  <2>2. \A k, l \in Files : \A r, t \in Spots :
            old(k, r) = old(l, t) /\ old(k, r) # NullReference => k = l /\ r = t
    BY DEF SoundAt
  <2>3. CASE g = f /\ h = f
    BY <1>0, <1>4, <1>6, <2>3
  <2>4. CASE g # f /\ h # f
    BY <1>3, <1>6, <2>2, <2>4
  <2>5. CASE g = f /\ h # f
    <3>1. new(f, p) \in {NullReference, old(f, p)} \/ new(f, p) \in FreeSet(s0)
      BY <1>0, <1>4
    <3>2. new(h, q) = old(h, q)
      BY <1>3, <2>5
    <3>3. QED
      BY <1>6, <2>1, <2>2, <2>5, <3>1, <3>2
  <2>6. CASE g # f /\ h = f
    <3>1. new(f, q) \in {NullReference, old(f, q)} \/ new(f, q) \in FreeSet(s0)
      BY <1>0, <1>4
    <3>2. new(g, p) = old(g, p)
      BY <1>3, <2>6
    <3>3. QED
      BY <1>6, <2>1, <2>2, <2>6, <3>1, <3>2
  <2>7. QED
    BY <2>3, <2>4, <2>5, <2>6
<1>7. \A g \in Files : \A p \in Spots : new(g, p) \notin FreeSet(s1)
  BY <1>0, <1>3, <1>4
<1>8. \A g \in Files : ino1[g].clucnt >= Cardinality(Occupied(ino1[g], sto1))
  <2> SUFFICES ASSUME NEW g \in Files
               PROVE  ino1[g].clucnt >= Cardinality(Occupied(ino1[g], sto1))
    OBVIOUS
  <2>1. CASE g = f
    BY <1>0, <1>1, <2>1
  <2>2. CASE g # f
    <3>1. Occupied(ino1[g], sto1) = Occupied(ino[g], sto)
      BY <1>3, <2>2 DEF Occupied
    <3>2. ino[g].clucnt >= Cardinality(Occupied(ino[g], sto))
      BY DEF SoundAt
    <3>3. QED
      BY <1>1, <2>2, <3>1, <3>2
  <2>3. QED
    BY <2>1, <2>2
<1>9. ASSUME NEW w \in wr1
      PROVE  Holding(ino1, sto1, w)
  <2>1. CASE w[1] = f
    BY <1>0, <2>1
  <2>2. CASE w[1] # f
    <3>1. Holding(ino, sto, w) /\ w[1] \in Files /\ w[2] \in FileClusterNumbers
      BY <1>0, <2>2 DEF SoundAt
    <3> DEFINE p == SpotOf(w[2])
    <3>2. p \in Spots
      BY <3>1, SpotOfIs, SpotsIn
    <3>3. old(w[1], p) \in Clusters /\ sto[old(w[1], p)] = Content(w[1], w[2])
      BY <3>1 DEF Holding
    <3> HIDE DEF p
    <3>4. new(w[1], p) = old(w[1], p) /\ sto1[old(w[1], p)] = sto[old(w[1], p)]
      BY <1>2, <1>3, <2>2, <3>1, <3>2, <3>3
    <3>5. QED
      BY <3>3, <3>4 DEF Holding, p
  <2>3. QED
    BY <2>1, <2>2
<1>10. \A g, h \in Files : \A p, q \in Spots :
          new(g, p) = new(h, q) /\ new(g, p) # NullReference => g = h /\ p = q
  BY <1>6
<1>11. QED
  <2>1. SoundAt(s1, ino1, sto1, wr1)
    BY <1>0, <1>5, <1>7, <1>8, <1>9, <1>10 DEF SoundAt
  <2>2. QED
    BY <2>1 DEF ino1

\* A file has grown by the places of N: each leads to a cluster of its own that was free.
Grows(s0, ino, sto, f, s1, ip, sto1, N) ==
    /\ Shrinks(s0, s1) /\ TreeOK(ip, sto1) /\ N \in SUBSET Spots
    /\ \A p \in Spots : p \notin N => LeadOf(ip, sto1, p) = LeadOf(ino[f], sto, p)
    /\ \A p \in N : LeadOf(ip, sto1, p) # NullReference => Fresh(s0, s1, LeadOf(ip, sto1, p))
    /\ \A p, q \in N : LeadOf(ip, sto1, p) = LeadOf(ip, sto1, q)
                       /\ LeadOf(ip, sto1, p) # NullReference => p = q
    /\ \A c \in Clusters : sto1[c] # sto[c] =>
           c \in FreeSet(s0) \/ \E p \in Tops : c = LeadOf(ino[f], sto, p)
    /\ ip.clucnt >= ino[f].clucnt + Cardinality(N)

LEMMA Grown ==
  ASSUME NEW s0, NEW ino \in [Files -> InodeParts], NEW sto \in Stores, NEW wr, SoundAt(s0, ino, sto, wr),
         \A w \in wr : w[1] \in Files /\ w[2] \in FileClusterNumbers,
         NEW f \in Files, NEW s1, IsSb(s1), NEW ip \in InodeParts, NEW sto1 \in Stores,
         NEW N, Grows(s0, ino, sto, f, s1, ip, sto1, N),
         NEW wr1 \in SUBSET wr, \A w \in wr1 : w[1] = f => SpotOf(w[2]) \notin N
  PROVE  SoundAt(s1, With(ino, f, ip), sto1, wr1)
<1>0. /\ Shrinks(s0, s1) /\ TreeOK(ip, sto1) /\ N \in SUBSET Spots
      /\ \A p \in Spots : p \notin N => LeadOf(ip, sto1, p) = LeadOf(ino[f], sto, p)
      /\ \A p \in N : LeadOf(ip, sto1, p) # NullReference => Fresh(s0, s1, LeadOf(ip, sto1, p))
      /\ \A p, q \in N : LeadOf(ip, sto1, p) = LeadOf(ip, sto1, q)
                         /\ LeadOf(ip, sto1, p) # NullReference => p = q
      /\ \A c \in Clusters : sto1[c] # sto[c] =>
             c \in FreeSet(s0) \/ \E p \in Tops : c = LeadOf(ino[f], sto, p)
      /\ ip.clucnt >= ino[f].clucnt + Cardinality(N)
  BY DEF Grows
<1> DEFINE ino1 == With(ino, f, ip)
           old(p) == LeadOf(ino[f], sto, p)
           new(p) == LeadOf(ip, sto1, p)
<1>1. \A p \in Spots : old(p) \notin FreeSet(s0)
  BY DEF SoundAt
<1>2. \A p, q \in Spots : old(p) = old(q) /\ old(p) # NullReference => p = q
  BY DEF SoundAt
<1>3. FreeSet(s1) \subseteq FreeSet(s0) /\ PoolOK(s1)
  BY <1>0 DEF Shrinks
<1>4. \A p \in Spots : new(p) \in {NullReference, old(p)} \/ new(p) \in FreeSet(s0)
  BY <1>0 DEF Fresh
<1>5. \A p, q \in Spots : new(p) = new(q) /\ new(p) # NullReference => p = q
  <2> SUFFICES ASSUME NEW p \in Spots, NEW q \in Spots, new(p) = new(q), new(p) # NullReference
               PROVE  p = q
    OBVIOUS
  <2>1. CASE p \in N /\ q \in N
    BY <1>0, <2>1
  <2>2. CASE p \in N /\ q \notin N
    <3>1. new(p) \in FreeSet(s0) /\ new(q) = old(q)
      BY <1>0, <2>2 DEF Fresh
    <3>2. QED
      BY <1>1, <3>1
  <2>3. CASE p \notin N /\ q \in N
    <3>1. new(q) \in FreeSet(s0) /\ new(p) = old(p)
      BY <1>0, <2>3 DEF Fresh
    <3>2. QED
      BY <1>1, <3>1
  <2>4. CASE p \notin N /\ q \notin N
    BY <1>0, <1>2, <2>4
  <2>5. QED
    BY <2>1, <2>2, <2>3, <2>4
<1>6. \A p \in Spots : new(p) \notin FreeSet(s1)
  <2>1. NullReference \notin FreeSet(s1)
    BY NullNotFree
  <2>2. QED
    BY <1>0, <1>1, <1>3, <2>1 DEF Fresh
<1>7. \A g \in Files : \A p \in Spots : g # f => LeadOf(ino[g], sto, p) \notin FreeSet(s1)
  BY <1>3 DEF SoundAt
<1>8. \A c \in Clusters : sto1[c] # sto[c] => c \in FreeSet(s0) \/ \E p \in Spots : c = old(p)
  BY <1>0, SpotsIn
<1>9. ip.clucnt >= Cardinality(Occupied(ip, sto1))
  <2> DEFINE A == Occupied(ip, sto1)
             B == Occupied(ino[f], sto)
  <2>1. A \subseteq B \union N
    BY <1>0 DEF Occupied
  <2>2. IsFiniteSet(A) /\ IsFiniteSet(B) /\ IsFiniteSet(N)
    BY <1>0, OccupiedFinite, SpotsFinite, FS_Subset
  <2> HIDE DEF A, B
  <2>3. IsFiniteSet(B \union N) /\ IsFiniteSet(B \intersect N)
    BY <2>2, FS_Union, FS_Intersection
  <2>4. Cardinality(B \union N) = Cardinality(B) + Cardinality(N) - Cardinality(B \intersect N)
    BY <2>2, FS_Union
  <2>5. Cardinality(A) <= Cardinality(B \union N)
    BY <2>1, <2>3, FS_Subset
  <2>6. /\ Cardinality(A) \in Nat /\ Cardinality(B) \in Nat /\ Cardinality(N) \in Nat
        /\ Cardinality(B \intersect N) \in Nat
    BY <2>2, <2>3, FS_CardinalityType
  <2>7. ino[f].clucnt >= Cardinality(B) /\ ino[f].clucnt \in Int /\ ip.clucnt \in Int
    BY DEF SoundAt, B, InodeParts
  <2>8. ip.clucnt >= ino[f].clucnt + Cardinality(N)
    BY <1>0
  <2>9. QED
    BY <2>4, <2>5, <2>6, <2>7, <2>8 DEF A
<1>10. ASSUME NEW w \in wr1
       PROVE  /\ w[1] \in Files /\ w[2] \in FileClusterNumbers
              /\ w[1] = f => Holding(ino1, sto1, w)
              /\ w[1] # f => w \in wr
  <2>1. w \in wr /\ w[1] \in Files /\ w[2] \in FileClusterNumbers
    OBVIOUS
  <2>2. ASSUME w[1] = f PROVE Holding(ino1, sto1, w)
    <3> DEFINE p == SpotOf(w[2])
    <3>1. p \in Leaves /\ p \in Spots /\ p \notin N
      BY <2>1, <2>2, SpotOfIs, SpotsIn
    <3>2. Holding(ino, sto, w)
      BY <2>1 DEF SoundAt
    <3>3. old(p) \in Clusters /\ sto[old(p)] = Content(w[1], w[2])
      BY <2>2, <3>2 DEF Holding
    <3> HIDE DEF p
    <3>4. new(p) = old(p)
      BY <1>0, <3>1
    <3>5. \A q \in Tops : old(p) # old(q)
      <4>1. old(p) # NullReference
        BY <3>3, Sizes2
      <4>2. \A q \in Tops : q \in Spots /\ q # p
        BY <3>1, SpotsIn, SpotsDiffer
      <4>3. QED
        BY <1>2, <3>1, <4>1, <4>2
    <3>6. sto1[old(p)] = sto[old(p)]
      BY <1>0, <1>1, <3>1, <3>3, <3>5
    <3>7. ino1[f] = ip
      BY DEF With
    <3>8. QED
      BY <2>2, <3>3, <3>4, <3>6, <3>7 DEF Holding, p
  <2>3. QED
    BY <2>1, <2>2
<1>11. QED
  <2>0. TreeOK(ip, sto1)
    BY <1>0
  <2>1. Changes(s0, ino, sto, wr, f, s1, ip, sto1, wr1)
    BY <2>0, <1>3, <1>4, <1>5, <1>6, <1>7, <1>8, <1>9, <1>10 DEF Changes
  <2>2. QED
    BY <2>1, OneFile

LEMMA PutIs ==
  ASSUME NEW sto \in Stores, NEW x \in Clusters, NEW refs \in Tables
  PROVE  LET r == PutTable(sto, x, refs) IN
         /\ r \in Stores /\ r[x].kind = "references" /\ Tab(r, x) = refs
         /\ \A c : c # x => Tab(r, c) = Tab(sto, c)
         /\ \A c \in Clusters : c # x => r[c] = sto[c]
<1> DEFINE r == PutTable(sto, x, refs)
<1>1. Table(refs) \in Contents /\ Table(refs).kind = "references" /\ Table(refs).ref = refs
  BY DEF Table, Contents
<1>2. r \in Stores /\ r[x] = Table(refs) /\ \A c \in Clusters : c # x => r[c] = sto[c]
  BY <1>1 DEF PutTable, Stores
<1> HIDE DEF r
<1>3. Tab(r, x) = refs
  BY <1>1, <1>2 DEF Tab, RefsIn
<1>4. \A c : c # x => Tab(r, c) = Tab(sto, c)
  BY <1>2 DEF Tab
<1>5. QED
  BY <1>1, <1>2, <1>3, <1>4 DEF r

\* Data is written where a file cluster leads to.
LEMMA DataSound ==
  ASSUME NEW s, NEW ino \in [Files -> InodeParts], NEW sto \in Stores, NEW wr, SoundAt(s, ino, sto, wr),
         \A w \in wr : w \in Files \X FileClusterNumbers,
         NEW f \in Files, NEW fcn \in FileClusterNumbers,
         NEW c \in Clusters, c = LeadOf(ino[f], sto, SpotOf(fcn)),
         NEW sto1 \in Stores, sto1 = With(sto, c, Content(f, fcn))
  PROVE  SoundAt(s, ino, sto1, wr \union {<<f, fcn>>})
<1> DEFINE x == SpotOf(fcn)
<1>1. x \in Leaves /\ x \in Spots /\ x \notin Tops
  BY SpotOfIs, SpotsIn, SpotsDiffer
<1>2. sto1[c] = Content(f, fcn) /\ \A b \in Clusters : b # c => sto1[b] = sto[b]
  BY DEF Stores, With
<1>3. c # NullReference
  BY Sizes2
<1>4. ASSUME NEW g \in Files, NEW p \in Spots, g # f \/ p # x, LeadOf(ino[g], sto, p) \in Clusters
      PROVE  LeadOf(ino[g], sto, p) # c /\ sto1[LeadOf(ino[g], sto, p)] = sto[LeadOf(ino[g], sto, p)]
  <2>1. LeadOf(ino[f], sto, x) = c
    OBVIOUS
  <2> HIDE DEF x
  <2>2. LeadOf(ino[g], sto, p) # c
    BY <1>1, <1>3, <1>4, <2>1 DEF SoundAt
  <2>3. QED
    BY <1>2, <1>4, <2>2
<1>5. ASSUME NEW g \in Files
      PROVE  \A p \in Spots : LeadOf(ino[g], sto1, p) = LeadOf(ino[g], sto, p)
  <2>1. \A p \in Tops : LeadOf(ino[g], sto, p) \in Clusters =>
                            sto1[LeadOf(ino[g], sto, p)] = sto[LeadOf(ino[g], sto, p)]
    BY <1>1, <1>4, SpotsIn
  <2>2. ino[g] \in InodeParts
    OBVIOUS
  <2>3. QED
    BY <2>1, <2>2, LeadFrame
<1>6. ASSUME NEW g \in Files
      PROVE  TreeOK(ino[g], sto1)
  <2>1. TreeOK(ino[g], sto)
    BY DEF SoundAt
  <2>2. \A p \in Tops : p \in Spots /\ p # x
    BY <1>1, SpotsIn
  <2>3. QED
    BY <1>4, <1>5, <2>1, <2>2 DEF TreeOK
<1>7. ASSUME NEW w \in wr \union {<<f, fcn>>}
      PROVE  Holding(ino, sto1, w)
  <2>1. CASE w = <<f, fcn>>
    <3>1. w[1] = f /\ w[2] = fcn
      BY <2>1
    <3>2. LeadOf(ino[f], sto1, x) = c
      BY <1>1, <1>5
    <3>3. QED
      BY <1>2, <3>1, <3>2 DEF Holding
  <2>2. CASE w # <<f, fcn>>
    <3>1. w \in Files \X FileClusterNumbers /\ Holding(ino, sto, w)
      BY <2>2 DEF SoundAt
    <3> DEFINE g == w[1]
               p == SpotOf(w[2])
    <3>2. g \in Files /\ w[2] \in FileClusterNumbers /\ w = <<w[1], w[2]>>
      BY <3>1
    <3>3. g # f \/ p # x
      BY <2>2, <3>2, SpotOfInjective
    <3>4. p \in Spots /\ LeadOf(ino[g], sto, p) \in Clusters
          /\ sto[LeadOf(ino[g], sto, p)] = Content(w[1], w[2])
      BY <3>1, <3>2, SpotOfIs, SpotsIn DEF Holding
    <3>5. /\ sto1[LeadOf(ino[g], sto, p)] = sto[LeadOf(ino[g], sto, p)]
          /\ LeadOf(ino[g], sto1, p) = LeadOf(ino[g], sto, p)
      <4> HIDE DEF p, x, g
      <4>1. QED
        BY <1>4, <1>5, <3>2, <3>3, <3>4
    <3>6. QED
      BY <3>4, <3>5 DEF Holding
  <2>3. QED
    BY <2>1, <2>2
<1>8. QED
  <2>1. \A g \in Files : Occupied(ino[g], sto1) = Occupied(ino[g], sto)
    BY <1>5 DEF Occupied
  <2> HIDE DEF x
  <2>2. \A g \in Files : ino[g].clucnt >= Cardinality(Occupied(ino[g], sto1))
    BY <2>1 DEF SoundAt
  <2>3. \A g \in Files : \A p \in Spots : LeadOf(ino[g], sto1, p) \notin FreeSet(s)
    BY <1>5 DEF SoundAt
  <2>4. \A g, h \in Files : \A p, q \in Spots :
          LeadOf(ino[g], sto1, p) = LeadOf(ino[h], sto1, q)
          /\ LeadOf(ino[g], sto1, p) # NullReference => g = h /\ p = q
    <3> SUFFICES ASSUME NEW g \in Files, NEW h \in Files, NEW p \in Spots, NEW q \in Spots,
                        LeadOf(ino[g], sto1, p) = LeadOf(ino[h], sto1, q),
                        LeadOf(ino[g], sto1, p) # NullReference
                 PROVE  g = h /\ p = q
      OBVIOUS
    <3>1. /\ LeadOf(ino[g], sto1, p) = LeadOf(ino[g], sto, p)
          /\ LeadOf(ino[h], sto1, q) = LeadOf(ino[h], sto, q)
      BY <1>5
    <3>2. \A i, j \in Files : \A k, m \in Spots :
            LeadOf(ino[i], sto, k) = LeadOf(ino[j], sto, m)
            /\ LeadOf(ino[i], sto, k) # NullReference => i = j /\ k = m
      BY DEF SoundAt
    <3>3. /\ LeadOf(ino[g], sto, p) = LeadOf(ino[h], sto, q)
          /\ LeadOf(ino[g], sto, p) # NullReference
      BY <3>1
    <3>4. QED
      BY <3>2, <3>3
  <2>5. PoolOK(s)
    BY DEF SoundAt
  <2>6. QED
    BY <1>6, <1>7, <2>2, <2>3, <2>4, <2>5 DEF SoundAt

-----------------------------------------------------------------------------
(***************************************************************************)
(* An allocation adds one place for the file cluster, and one for each     *)
(* table that it needs.                                                    *)
(***************************************************************************)
Starts(st, ino, f, wr) ==
    /\ IsWork(st) /\ ino \in [Files -> InodeParts] /\ f \in Files /\ st.ip = ino[f]
    /\ SoundAt(st.sb, ino, st.store, wr) /\ wr \subseteq Files \X FileClusterNumbers

LEMMA GrownBut ==
  ASSUME NEW st, NEW ino, NEW f, NEW wr, Starts(st, ino, f, wr), NEW fcn \in FileClusterNumbers,
         NEW r, IsWork(r), NEW N, N \intersect Leaves \subseteq {SpotOf(fcn)},
         Grows(st.sb, ino, st.store, f, r.sb, r.ip, r.store, N)
  PROVE  SoundAt(r.sb, With(ino, f, r.ip), r.store, wr \ {<<f, fcn>>})
<1>1. /\ IsWork(st) /\ ino \in [Files -> InodeParts] /\ f \in Files /\ st.ip = ino[f]
      /\ SoundAt(st.sb, ino, st.store, wr) /\ wr \subseteq Files \X FileClusterNumbers
  BY DEF Starts
<1>2. st.store \in Stores /\ r.store \in Stores /\ r.ip \in InodeParts /\ IsSb(r.sb)
  BY <1>1, StateTypes
<1> DEFINE wr1 == wr \ {<<f, fcn>>}
<1>3. \A w \in wr : w[1] \in Files /\ w[2] \in FileClusterNumbers
  BY <1>1
<1>4. \A w \in wr1 : w[1] = f => SpotOf(w[2]) \notin N
  <2> SUFFICES ASSUME NEW w \in wr1, w[1] = f, SpotOf(w[2]) \in N
               PROVE  FALSE
    OBVIOUS
  <2>1. w \in Files \X FileClusterNumbers /\ w # <<f, fcn>>
    BY <1>1
  <2>2. w[2] \in FileClusterNumbers /\ w[2] # fcn
    BY <2>1
  <2>3. SpotOf(w[2]) \in Leaves
    BY <2>2, SpotOfIs
  <2>4. SpotOf(w[2]) = SpotOf(fcn)
    BY <2>3
  <2>5. QED
    BY <2>2, <2>4, SpotOfInjective
<1>5. wr1 \in SUBSET wr
  OBVIOUS
<1> HIDE DEF wr1
<1>6. SoundAt(r.sb, With(ino, f, r.ip), r.store, wr1)
  BY <1>1, <1>2, <1>3, <1>4, <1>5, Grown
<1>7. QED
  BY <1>6 DEF wr1

\* With most one place more is counted.
LEMMA OneMore ==
  ASSUME NEW N, IsFiniteSet(N), NEW a
  PROVE  /\ IsFiniteSet(N \union {a}) /\ Cardinality(N \union {a}) \in Nat /\ Cardinality(N) \in Nat
         /\ Cardinality(N \union {a}) <= Cardinality(N) + 1
<1>1. IsFiniteSet(N \union {a}) /\ Cardinality(N \union {a}) \in Nat /\ Cardinality(N) \in Nat
  BY FS_AddElement, FS_CardinalityType
<1>2. CASE a \in N
  <2>1. N \union {a} = N
    BY <1>2
  <2>2. QED
    BY <1>1, <2>1
<1>3. CASE a \notin N
  <2>1. Cardinality(N \union {a}) = Cardinality(N) + 1
    BY <1>3, FS_AddElement
  <2>2. QED
    BY <1>1, <2>1
<1>4. QED
  BY <1>1, <1>2, <1>3

LEMMA SomeMore ==
  ASSUME NEW a, NEW b, NEW c
  PROVE  /\ Cardinality({a}) <= 1 /\ Cardinality({a, b}) <= 2 /\ Cardinality({a, b, c}) <= 3
         /\ Cardinality({a}) \in Nat /\ Cardinality({a, b}) \in Nat /\ Cardinality({a, b, c}) \in Nat
<1>1. IsFiniteSet({}) /\ Cardinality({}) = 0
  BY FS_EmptySet
<1>2. IsFiniteSet({} \union {a}) /\ Cardinality({} \union {a}) <= 1 /\ Cardinality({} \union {a}) \in Nat
  <2>1. /\ IsFiniteSet({} \union {a}) /\ Cardinality({} \union {a}) <= Cardinality({}) + 1
        /\ Cardinality({} \union {a}) \in Nat
    BY <1>1, OneMore
  <2>2. QED
    BY <1>1, <2>1
<1>3. {} \union {a} = {a} /\ {a} \union {b} = {a, b} /\ {a, b} \union {c} = {a, b, c}
  OBVIOUS
<1>4. IsFiniteSet({a}) /\ Cardinality({a}) <= 1 /\ Cardinality({a}) \in Nat
  BY <1>2, <1>3
<1>5. /\ IsFiniteSet({a} \union {b}) /\ Cardinality({a} \union {b}) <= Cardinality({a}) + 1
      /\ Cardinality({a} \union {b}) \in Nat
  BY <1>4, OneMore
<1>6. IsFiniteSet({a, b}) /\ Cardinality({a, b}) <= 2 /\ Cardinality({a, b}) \in Nat
  BY <1>3, <1>4, <1>5
<1>7. /\ Cardinality({a, b} \union {c}) <= Cardinality({a, b}) + 1
      /\ Cardinality({a, b} \union {c}) \in Nat
  BY <1>6, OneMore
<1>8. Cardinality({a, b, c}) <= 3 /\ Cardinality({a, b, c}) \in Nat
  BY <1>3, <1>6, <1>7
<1>9. QED
  BY <1>4, <1>6, <1>8

LEMMA DirectGrows ==
  ASSUME NEW st, NEW ino, NEW f, NEW wr, Starts(st, ino, f, wr), NEW n \in Direct,
         NEW r, r = AllocDirect(st, n), Fine(r)
  PROVE  /\ Grows(st.sb, ino, st.store, f, r.sb, r.ip, r.store, {DSpot(n)})
         /\ LeadOf(r.ip, r.store, DSpot(n)) = r.cn
<1>1. /\ IsWork(st) /\ ino[f] = st.ip /\ SoundAt(st.sb, ino, st.store, wr) /\ f \in Files
  BY DEF Starts
<1>2. st.ip \in InodeParts /\ st.store \in Stores
  BY <1>1, StateTypes
<1>3. PoolOK(st.sb) /\ TreeOK(st.ip, st.store)
  BY <1>1 DEF SoundAt
<1>4. /\ r.store = st.store /\ r.ip.d = With(st.ip.d, n, r.cn)
      /\ r.ip.i1 = st.ip.i1 /\ r.ip.i2 = st.ip.i2 /\ r.ip.clucnt = st.ip.clucnt + 1
      /\ Shrinks(st.sb, r.sb) /\ (r.cn # NullReference => Fresh(st.sb, r.sb, r.cn))
  BY <1>1, <1>3, AllocDirectIs DEF Fine, Drawing
<1> DEFINE old(p) == LeadOf(st.ip, st.store, p)
           new(p) == LeadOf(r.ip, r.store, p)
<1>5. \A p \in Spots : new(p) = IF p = DSpot(n) THEN r.cn ELSE old(p)
  <2>1. \A m \in Direct : r.ip.d[m] = IF m = n THEN r.cn ELSE st.ip.d[m]
    BY <1>2, <1>4 DEF With, InodeParts
  <2>2. \A m \in Direct : new(DSpot(m)) = IF m = n THEN r.cn ELSE old(DSpot(m))
    BY <2>1 DEF LeadOf, DSpot
  <2>3. \A p : p[1] # "d" => new(p) = old(p)
    BY <1>4 DEF LeadOf, Base
  <2>4. \A p \in Tops : new(p) = old(p) /\ p # DSpot(n)
    BY <2>3, SpotsDiffer DEF Tops, I1Spot, I2Spot, TSpot
  <2>5. \A a, b : new(RSpot(a, b)) = old(RSpot(a, b)) /\ RSpot(a, b) # DSpot(n)
    BY <2>3, SpotsDiffer DEF RSpot
  <2> HIDE DEF old, new
  <2>6. \A m \in Direct : new(DSpot(m)) = IF DSpot(m) = DSpot(n) THEN r.cn ELSE old(DSpot(m))
    BY <2>2, SpotsDiffer
  <2>7. QED
    BY <2>4, <2>5, <2>6, SpotCases, SpotsIn
<1>6. TreeOK(r.ip, r.store)
  <2>1. \A p \in Tops : new(p) = old(p)
    BY <1>5, SpotsIn, SpotsDiffer
  <2>2. QED
    BY <1>3, <1>4, <2>1 DEF TreeOK
<1>7. Cardinality({DSpot(n)}) <= 1 /\ Cardinality({DSpot(n)}) \in Nat /\ st.ip.clucnt \in Int
  BY <1>1, SomeMore, StateTypes
<1>8. DSpot(n) \in Spots
  BY SpotsIn
<1>9. QED
  <2>1. \A p \in Spots : p \notin {DSpot(n)} => LeadOf(r.ip, r.store, p) = LeadOf(ino[f], st.store, p)
    BY <1>1, <1>5
  <2>2. LeadOf(r.ip, r.store, DSpot(n)) = r.cn
    BY <1>5, <1>8
  <2>3. r.ip.clucnt >= ino[f].clucnt + Cardinality({DSpot(n)})
    BY <1>1, <1>4, <1>7
  <2>4. QED
    BY <1>4, <1>6, <1>8, <2>1, <2>2, <2>3 DEF Grows

\* A cluster of the file at one place, or a free one, is at no other place of the file.
LEMMA NowhereElse ==
  ASSUME NEW st, NEW ino, NEW f, NEW wr, Starts(st, ino, f, wr), NEW h \in Spots, NEW x \in Clusters,
         x = LeadOf(st.ip, st.store, h) \/ x \in FreeSet(st.sb)
  PROVE  \A p \in Spots : p # h => LeadOf(st.ip, st.store, p) # x
<1>1. ino[f] = st.ip /\ SoundAt(st.sb, ino, st.store, wr) /\ f \in Files /\ x # NullReference
  BY Sizes2 DEF Starts
<1>2. \A p \in Spots : LeadOf(st.ip, st.store, p) \notin FreeSet(st.sb)
  BY <1>1 DEF SoundAt
<1>3. \A p, q \in Spots : LeadOf(ino[f], st.store, p) = LeadOf(ino[f], st.store, q)
                          /\ LeadOf(ino[f], st.store, p) # NullReference => p = q
  BY <1>1 DEF SoundAt
<1>4. \A p, q \in Spots : LeadOf(st.ip, st.store, p) = LeadOf(st.ip, st.store, q)
                          /\ LeadOf(st.ip, st.store, p) # NullReference => p = q
  BY <1>1, <1>3
<1>5. QED
  BY <1>1, <1>2, <1>4

LEMMA IndirectGrows ==
  ASSUME NEW st, NEW ino, NEW f, NEW wr, Starts(st, ino, f, wr), NEW n \in Refs,
         NEW r, r = soAllocIndirectFileCluster(st, n), Fine(r), NEW N,
         N = IF st.ip.i1 = NullReference THEN {I1Spot, RSpot(0, n)} ELSE {RSpot(0, n)}
  PROVE  /\ Grows(st.sb, ino, st.store, f, r.sb, r.ip, r.store, N)
         /\ LeadOf(r.ip, r.store, RSpot(0, n)) = r.cn
<1> DEFINE x == r.ip.i1
           refs == [Tab(st.store, st.ip.i1) EXCEPT ![n] = r.cn]
           old(p) == LeadOf(st.ip, st.store, p)
           new(p) == LeadOf(r.ip, r.store, p)
<1>1. /\ IsWork(st) /\ ino[f] = st.ip /\ SoundAt(st.sb, ino, st.store, wr) /\ f \in Files
  BY DEF Starts
<1>2. st.ip \in InodeParts /\ st.store \in Stores
  BY <1>1, StateTypes
<1>3. PoolOK(st.sb) /\ TreeOK(st.ip, st.store)
  BY <1>1 DEF SoundAt
<1>4. /\ IsWork(r) /\ r.ip.d = st.ip.d /\ r.ip.i2 = st.ip.i2 /\ x \in Clusters
      /\ r.store = PutTable(st.store, x, refs)
      /\ r.ip.clucnt = st.ip.clucnt + (IF st.ip.i1 = NullReference THEN 2 ELSE 1)
      /\ st.ip.i1 # NullReference => x = st.ip.i1
      /\ Shrinks(st.sb, r.sb)
      /\ r.cn # NullReference => Fresh(st.sb, r.sb, r.cn)
      /\ st.ip.i1 = NullReference => Fresh(st.sb, r.sb, x) /\ x # r.cn
  <2>1. r.ok /\ Drawing(st.sb, r.sb)
    BY <1>3 DEF Fine, Drawing
  <2>2. LET z == r.ip.i1 IN
         /\ Passes(st, r)
         /\ r.ok =>
              /\ r.ip.d = st.ip.d /\ r.ip.i2 = st.ip.i2 /\ z \in Clusters
              /\ r.store = PutTable(st.store, z, [Tab(st.store, st.ip.i1) EXCEPT ![n] = r.cn])
              /\ r.ip.clucnt = st.ip.clucnt + (IF st.ip.i1 = NullReference THEN 2 ELSE 1)
              /\ st.ip.i1 # NullReference => z = st.ip.i1
              /\ Drawing(st.sb, r.sb) =>
                   /\ Shrinks(st.sb, r.sb)
                   /\ r.cn # NullReference => Fresh(st.sb, r.sb, r.cn)
                   /\ st.ip.i1 = NullReference => Fresh(st.sb, r.sb, z) /\ z # r.cn
    BY <1>1, AllocIndirectIs
  <2> HIDE DEF refs
  <2>3. QED
    BY <2>1, <2>2 DEF Passes, refs
<1>5. r.cn \in Reference
  BY <1>4, StateTypes
<1>6. /\ refs \in Tables
      /\ \A m \in Refs : refs[m] = IF m = n THEN r.cn ELSE Tab(st.store, st.ip.i1)[m]
  BY <1>2, <1>5, TabType DEF Tables
<1> HIDE DEF refs
<1>7. /\ r.store \in Stores /\ r.store[x].kind = "references" /\ Tab(r.store, x) = refs
      /\ \A c : c # x => Tab(r.store, c) = Tab(st.store, c)
      /\ \A c \in Clusters : c # x => r.store[c] = st.store[c]
  BY <1>2, <1>4, <1>6, PutIs
<1>8. /\ \A n_ : old(DSpot(n_)) = st.ip.d[n_] /\ new(DSpot(n_)) = r.ip.d[n_]
      /\ old(I1Spot) = st.ip.i1 /\ new(I1Spot) = x
      /\ old(I2Spot) = st.ip.i2 /\ new(I2Spot) = r.ip.i2
      /\ \A m : old(TSpot(m)) = Tab(st.store, st.ip.i2)[m] /\ new(TSpot(m)) = Tab(r.store, r.ip.i2)[m]
  BY DEF LeadOf, DSpot, I1Spot, I2Spot, TSpot
<1>9. /\ \A a \in AllParts, b \in Refs : old(RSpot(a, b)) = Tab(st.store, old(Host(a)))[b]
      /\ \A a \in AllParts, b \in Refs : new(RSpot(a, b)) = Tab(r.store, new(Host(a)))[b]
  BY LeadOfTable
<1>10. old(I1Spot) \in {x, NullReference} /\ \A p \in Spots : p # I1Spot => old(p) # x
  <2>1. x = old(I1Spot) \/ x \in FreeSet(st.sb)
    BY <1>4, <1>8 DEF Fresh
  <2>2. I1Spot \in Spots
    BY SpotsIn
  <2>3. QED
    BY <1>4, <1>8, <2>1, <2>2, NowhereElse
<1>11. 0 \in AllParts /\ Host(0) = I1Spot /\ \A a \in AllParts : a # 0 => Host(a) # I1Spot
  <2>1. 0 \in AllParts /\ Host(0) = I1Spot
    BY Sizes2 DEF AllParts, Host
  <2>2. QED
    BY <2>1, HostsDiffer
<1> HIDE DEF old, new, x
<1>12. \A m \in Direct : new(DSpot(m)) = old(DSpot(m))
  BY <1>4, <1>8
<1>13. new(I2Spot) = old(I2Spot) /\ \A m \in Refs : new(TSpot(m)) = old(TSpot(m))
  <2>1. I2Spot \in Spots /\ I2Spot # I1Spot
    BY SpotsIn, SpotsDiffer
  <2>2. QED
    BY <1>4, <1>7, <1>8, <1>10, <2>1
<1>14. \A p \in Tops : p # I1Spot => new(p) = old(p)
  BY <1>13 DEF Tops
<1>15. \A a \in AllParts, b \in Refs : new(RSpot(a, b)) = IF a = 0 /\ b = n THEN r.cn
                                                           ELSE old(RSpot(a, b))
  <2> SUFFICES ASSUME NEW a \in AllParts, NEW b \in Refs
               PROVE  new(RSpot(a, b)) = IF a = 0 /\ b = n THEN r.cn ELSE old(RSpot(a, b))
    OBVIOUS
  <2>1. CASE a = 0
    <3>1. new(RSpot(0, b)) = refs[b] /\ old(RSpot(0, b)) = Tab(st.store, st.ip.i1)[b]
      BY <1>7, <1>8, <1>9, <1>11
    <3>2. QED
      BY <1>6, <2>1, <3>1
  <2>2. CASE a # 0
    <3>1. Host(a) \in Tops /\ Host(a) \in Spots /\ Host(a) # I1Spot
      BY <1>11, <2>2, SpotsIn
    <3>2. new(Host(a)) = old(Host(a)) /\ old(Host(a)) # x
      BY <1>10, <1>14, <3>1
    <3>3. QED
      BY <1>7, <1>9, <2>2, <3>2
  <2>3. QED
    BY <2>1, <2>2
<1>16. TreeOK(r.ip, r.store)
  <2>1. \A p \in Tops : p # I1Spot /\ old(p) # NullReference =>
           old(p) \in Clusters /\ st.store[old(p)].kind = "references" /\ old(p) # x
    BY <1>3, <1>10, SpotsIn DEF TreeOK, old
  <2>2. \A p \in Tops : p # I1Spot /\ new(p) # NullReference =>
           new(p) \in Clusters /\ r.store[new(p)].kind = "references"
    BY <1>7, <1>14, <2>1
  <2>3. new(I1Spot) \in Clusters /\ r.store[new(I1Spot)].kind = "references"
    BY <1>4, <1>7, <1>8
  <2>4. QED
    BY <2>2, <2>3 DEF TreeOK, new
<1>17. N \in SUBSET Spots /\ RSpot(0, n) \in N /\ N \subseteq {I1Spot, RSpot(0, n)}
       /\ (I1Spot \in N <=> st.ip.i1 = NullReference)
  <2>1. RSpot(0, n) # I1Spot /\ I1Spot \in Spots /\ RSpot(0, n) \in Spots
    BY <1>11, SpotsIn, SpotsDiffer
  <2>2. CASE st.ip.i1 = NullReference
    <3>1. N = {I1Spot, RSpot(0, n)}
      BY <2>2
    <3>2. QED
      BY <2>1, <2>2, <3>1
  <2>3. CASE st.ip.i1 # NullReference
    <3>1. N = {RSpot(0, n)}
      BY <2>3
    <3>2. QED
      BY <2>1, <2>3, <3>1
  <2>4. QED
    BY <2>2, <2>3
<1>18. \A p \in Spots : p \notin N => new(p) = old(p)
  <2>1. \A p \in Tops : p \notin N => new(p) = old(p)
    <3>1. I1Spot \notin N => new(I1Spot) = old(I1Spot)
      BY <1>4, <1>8, <1>17
    <3>2. QED
      BY <1>14, <3>1
  <2>2. \A a \in AllParts, b \in Refs : RSpot(a, b) \notin N => new(RSpot(a, b)) = old(RSpot(a, b))
    BY <1>15, <1>17
  <2>3. QED
    BY <1>12, <2>1, <2>2, SpotCases, SpotsIn
<1>19. new(RSpot(0, n)) = r.cn /\ new(I1Spot) = x
  BY <1>8, <1>11, <1>15
<1>20. \A p \in N : new(p) # NullReference => Fresh(st.sb, r.sb, new(p))
  BY <1>4, <1>17, <1>19 DEF x
<1>21. \A p, q \in N : new(p) = new(q) /\ new(p) # NullReference => p = q
  BY <1>4, <1>17, <1>19 DEF x
<1>22. \A c \in Clusters : r.store[c] # st.store[c] =>
             c \in FreeSet(st.sb) \/ \E p \in Tops : c = old(p)
  <2>1. x \in FreeSet(st.sb) \/ x = old(I1Spot)
    BY <1>4, <1>8 DEF Fresh, x
  <2>2. QED
    BY <1>7, <2>1, SpotsIn
<1>23. r.ip.clucnt >= ino[f].clucnt + Cardinality(N)
  <2>1. /\ Cardinality({I1Spot, RSpot(0, n)}) <= 2 /\ Cardinality({I1Spot, RSpot(0, n)}) \in Nat
        /\ Cardinality({RSpot(0, n)}) <= 1 /\ Cardinality({RSpot(0, n)}) \in Nat
    BY SomeMore
  <2>2. st.ip.clucnt \in Int
    BY <1>1, StateTypes
  <2>3. CASE st.ip.i1 = NullReference
    <3>1. N = {I1Spot, RSpot(0, n)} /\ r.ip.clucnt = st.ip.clucnt + 2
      BY <1>4, <2>3
    <3>2. Cardinality(N) <= 2 /\ Cardinality(N) \in Nat
      BY <2>1, <3>1
    <3>3. QED
      BY <1>1, <2>2, <3>1, <3>2
  <2>4. CASE st.ip.i1 # NullReference
    <3>1. N = {RSpot(0, n)} /\ r.ip.clucnt = st.ip.clucnt + 1
      BY <1>4, <2>4
    <3>2. Cardinality(N) <= 1 /\ Cardinality(N) \in Nat
      BY <2>1, <3>1
    <3>3. QED
      BY <1>1, <2>2, <3>1, <3>2
  <2>5. QED
    BY <2>3, <2>4
<1>24. QED
  <2>1. Shrinks(st.sb, r.sb) /\ TreeOK(r.ip, r.store) /\ N \in SUBSET Spots
    BY <1>4, <1>16, <1>17
  <2>2. QED
    BY <1>1, <1>18, <1>19, <1>20, <1>21, <1>22, <1>23, <2>1 DEF Grows, old, new

LEMMA DoubleGrows ==
  ASSUME NEW st, NEW ino, NEW f, NEW wr, Starts(st, ino, f, wr), NEW a \in Refs, NEW b \in Refs,
         NEW s, NEW u, NEW t, NEW r,
         s = (IF st.ip.i2 = NullReference THEN AllocI2(st) ELSE ReadRefs(st, st.ip.i2)),
         u = Part(s, a), t = Count(Take(u)), r = EnterBoth(t, a, b), Fine(r),
         NEW N, N = {RSpot(a + 1, b)}
                    \union (IF st.ip.i2 = NullReference THEN {I2Spot} ELSE {})
                    \union (IF Tab(st.store, st.ip.i2)[a] = NullReference THEN {TSpot(a)} ELSE {})
  PROVE  /\ Grows(st.sb, ino, st.store, f, r.sb, r.ip, r.store, N)
         /\ LeadOf(r.ip, r.store, RSpot(a + 1, b)) = r.cn
<1> DEFINE y == r.ip.i2
           T == Tab(st.store, st.ip.i2)
           c == u.refs2[a]
           tables == [T EXCEPT ![a] = c]
           refs == [Tab(st.store, T[a]) EXCEPT ![b] = r.cn]
           middle == PutTable(st.store, c, refs)
           old(p) == LeadOf(st.ip, st.store, p)
           new(p) == LeadOf(r.ip, r.store, p)
<1>1. /\ IsWork(st) /\ ino[f] = st.ip /\ SoundAt(st.sb, ino, st.store, wr) /\ f \in Files
  BY DEF Starts
<1>2. st.ip \in InodeParts /\ st.store \in Stores
  BY <1>1, StateTypes
<1>3. PoolOK(st.sb) /\ TreeOK(st.ip, st.store)
  BY <1>1 DEF SoundAt
<1>4. /\ IsWork(r) /\ r.ip.d = st.ip.d /\ r.ip.i1 = st.ip.i1 /\ y \in Clusters /\ c \in Clusters
      /\ r.store = PutTable(middle, y, tables)
      /\ r.ip.clucnt = st.ip.clucnt + 1 + (IF st.ip.i2 = NullReference THEN 1 ELSE 0)
                                        + (IF T[a] = NullReference THEN 1 ELSE 0)
      /\ st.ip.i2 # NullReference => y = st.ip.i2
      /\ T[a] # NullReference => c = T[a]
      /\ Shrinks(st.sb, r.sb)
      /\ r.cn # NullReference => Fresh(st.sb, r.sb, r.cn)
      /\ st.ip.i2 = NullReference => Fresh(st.sb, r.sb, y) /\ y # r.cn
      /\ T[a] = NullReference => Fresh(st.sb, r.sb, c) /\ c # r.cn
      /\ st.ip.i2 = NullReference /\ T[a] = NullReference => c # y
  <2>1. r.ok /\ Drawing(st.sb, r.sb)
    BY <1>3 DEF Fine, Drawing
  <2>2. LET y_ == r.ip.i2
             T_ == Tab(st.store, st.ip.i2)
             c_ == u.refs2[a]
         IN
         /\ Passes(st, r)
         /\ r.ok =>
              /\ r.ip.d = st.ip.d /\ r.ip.i1 = st.ip.i1 /\ y_ \in Clusters /\ c_ \in Clusters
              /\ r.store = PutTable(PutTable(st.store, c_, [Tab(st.store, T_[a]) EXCEPT ![b] = r.cn]),
                               y_, [T_ EXCEPT ![a] = c_])
              /\ r.ip.clucnt = st.ip.clucnt + 1 + (IF st.ip.i2 = NullReference THEN 1 ELSE 0)
                                                + (IF T_[a] = NullReference THEN 1 ELSE 0)
              /\ st.ip.i2 # NullReference => y_ = st.ip.i2
              /\ T_[a] # NullReference => c_ = T_[a]
              /\ Drawing(st.sb, r.sb) =>
                   /\ Shrinks(st.sb, r.sb)
                   /\ r.cn # NullReference => Fresh(st.sb, r.sb, r.cn)
                   /\ st.ip.i2 = NullReference => Fresh(st.sb, r.sb, y_) /\ y_ # r.cn
                   /\ T_[a] = NullReference => Fresh(st.sb, r.sb, c_) /\ c_ # r.cn
                   /\ st.ip.i2 = NullReference /\ T_[a] = NullReference => c_ # y_
    BY <1>1, AllocDoubleIs
  <2> HIDE DEF refs, tables
  <2>3. QED
    BY <2>1, <2>2 DEF Passes, refs, tables
<1>5. r.cn \in Reference /\ c \in Reference
  BY <1>4, StateTypes, Sizes2 DEF Reference
<1>6. /\ refs \in Tables
      /\ \A m \in Refs : refs[m] = IF m = b THEN r.cn ELSE Tab(st.store, T[a])[m]
  BY <1>2, <1>5, TabType DEF Tables
<1>7. /\ tables \in Tables
      /\ \A m \in Refs : tables[m] = IF m = a THEN c ELSE T[m]
  BY <1>2, <1>5, TabType DEF Tables
<1>8. /\ \A n_ : old(DSpot(n_)) = st.ip.d[n_] /\ new(DSpot(n_)) = r.ip.d[n_]
      /\ old(I1Spot) = st.ip.i1 /\ new(I1Spot) = r.ip.i1
      /\ old(I2Spot) = st.ip.i2 /\ new(I2Spot) = y
      /\ \A m : old(TSpot(m)) = T[m] /\ new(TSpot(m)) = Tab(r.store, y)[m]
  BY DEF LeadOf, DSpot, I1Spot, I2Spot, TSpot
<1>9. /\ \A k \in AllParts, m \in Refs : old(RSpot(k, m)) = Tab(st.store, old(Host(k)))[m]
      /\ \A k \in AllParts, m \in Refs : new(RSpot(k, m)) = Tab(r.store, new(Host(k)))[m]
  BY LeadOfTable
<1> HIDE DEF y, c, T, old, new, refs, tables, middle
<1>10. I2Spot \in Spots /\ TSpot(a) \in Spots /\ I2Spot # TSpot(a)
  BY SpotsIn, SpotsDiffer
<1>11. /\ old(I2Spot) \in {y, NullReference} /\ \A p \in Spots : p # I2Spot => old(p) # y
  <2>1. y = old(I2Spot) \/ y \in FreeSet(st.sb)
    BY <1>4, <1>8 DEF Fresh
  <2>2. \A p \in Spots : p # I2Spot => LeadOf(st.ip, st.store, p) # y
    BY <1>4, <1>10, <2>1, NowhereElse DEF old
  <2>3. QED
    BY <1>4, <1>8, <2>2 DEF old
<1>12. /\ old(TSpot(a)) \in {c, NullReference} /\ \A p \in Spots : p # TSpot(a) => old(p) # c
  <2>1. c = old(TSpot(a)) \/ c \in FreeSet(st.sb)
    BY <1>4, <1>8 DEF Fresh
  <2>2. \A p \in Spots : p # TSpot(a) => LeadOf(st.ip, st.store, p) # c
    BY <1>4, <1>10, <2>1, NowhereElse DEF old
  <2>3. QED
    BY <1>4, <1>8, <2>2 DEF old
<1>13. c # y
  <2>1. CASE st.ip.i2 = NullReference
    <3>1. T[a] = NullReference
      BY <2>1, NoTable DEF T
    <3>2. QED
      BY <1>4, <2>1, <3>1
  <2>2. CASE st.ip.i2 # NullReference
    BY <1>4, <1>8, <1>10, <1>12, <2>2
  <2>3. QED
    BY <2>1, <2>2
<1>14. /\ middle \in Stores /\ middle[c].kind = "references" /\ Tab(middle, c) = refs
       /\ \A d : d # c => Tab(middle, d) = Tab(st.store, d)
       /\ \A d \in Clusters : d # c => middle[d] = st.store[d]
  BY <1>2, <1>4, <1>6, PutIs DEF middle
<1>15. /\ r.store \in Stores /\ r.store[y].kind = "references" /\ Tab(r.store, y) = tables
       /\ \A d : d # y => Tab(r.store, d) = Tab(middle, d)
       /\ \A d \in Clusters : d # y => r.store[d] = middle[d]
  BY <1>4, <1>7, <1>14, PutIs
<1>16. /\ r.store[c].kind = "references" /\ Tab(r.store, c) = refs
       /\ \A d : d # c /\ d # y => Tab(r.store, d) = Tab(st.store, d)
       /\ \A d \in Clusters : d # c /\ d # y => r.store[d] = st.store[d]
  BY <1>4, <1>13, <1>14, <1>15
<1>17. \A m \in Direct : new(DSpot(m)) = old(DSpot(m))
  BY <1>4, <1>8
<1>18. /\ new(I1Spot) = old(I1Spot) /\ new(TSpot(a)) = c
       /\ \A m \in Refs : m # a => new(TSpot(m)) = old(TSpot(m))
  BY <1>4, <1>7, <1>8, <1>15
<1>19. \A p \in Tops : p # I2Spot /\ p # TSpot(a) => new(p) = old(p) /\ old(p) # c /\ old(p) # y
  <2>1. \A p \in Tops : p # I2Spot /\ p # TSpot(a) => new(p) = old(p)
    BY <1>18 DEF Tops
  <2>2. QED
    BY <1>11, <1>12, <2>1, SpotsIn
<1>20. /\ a \in Nat /\ a + 1 \in AllParts /\ Host(a + 1) = TSpot(a)
       /\ \A k \in AllParts : k # a + 1 => Host(k) # TSpot(a)
       /\ \A k \in AllParts : Host(k) # I2Spot /\ Host(k) \in Tops /\ Host(k) \in Spots
  <2>1. a \in Nat /\ a + 1 \in AllParts /\ a + 1 # 0 /\ (a + 1) - 1 = a
    BY Sizes2 DEF Refs, AllParts
  <2>2. Host(a + 1) = TSpot(a)
    BY <2>1 DEF Host
  <2>3. \A k \in AllParts : Host(k) # I2Spot
    BY SpotsDiffer DEF Host
  <2>4. QED
    BY <2>1, <2>2, <2>3, HostsDiffer, SpotsIn
<1>21. \A k \in AllParts, m \in Refs : new(RSpot(k, m)) = IF k = a + 1 /\ m = b THEN r.cn
                                                            ELSE old(RSpot(k, m))
  <2> SUFFICES ASSUME NEW k \in AllParts, NEW m \in Refs
               PROVE  new(RSpot(k, m)) = IF k = a + 1 /\ m = b THEN r.cn ELSE old(RSpot(k, m))
    OBVIOUS
  <2>1. CASE k = a + 1
    <3>1. Host(k) = TSpot(a)
      BY <1>20, <2>1
    <3>2. new(RSpot(k, m)) = refs[m] /\ old(RSpot(k, m)) = Tab(st.store, T[a])[m]
      BY <1>8, <1>9, <1>16, <1>18, <3>1
    <3>3. QED
      BY <1>6, <2>1, <3>2
  <2>2. CASE k # a + 1
    <3>1. Host(k) \in Tops /\ Host(k) # TSpot(a) /\ Host(k) # I2Spot
      BY <1>20, <2>2
    <3>2. new(Host(k)) = old(Host(k)) /\ old(Host(k)) # c /\ old(Host(k)) # y
      BY <1>19, <3>1
    <3>3. new(RSpot(k, m)) = old(RSpot(k, m))
      BY <1>9, <1>16, <3>2
    <3>4. QED
      BY <2>2, <3>3
  <2>3. QED
    BY <2>1, <2>2
<1>22. TreeOK(r.ip, r.store)
  <2>1. \A p \in Tops : p # I2Spot /\ p # TSpot(a) /\ old(p) # NullReference =>
           old(p) \in Clusters /\ st.store[old(p)].kind = "references" /\ old(p) # c /\ old(p) # y
    BY <1>3, <1>19 DEF TreeOK, old
  <2>2. \A p \in Tops : p # I2Spot /\ p # TSpot(a) /\ new(p) # NullReference =>
           new(p) \in Clusters /\ r.store[new(p)].kind = "references"
    BY <1>16, <1>19, <2>1
  <2>3. /\ new(I2Spot) \in Clusters /\ r.store[new(I2Spot)].kind = "references"
        /\ new(TSpot(a)) \in Clusters /\ r.store[new(TSpot(a))].kind = "references"
    BY <1>4, <1>8, <1>15, <1>16, <1>18
  <2>4. QED
    BY <2>2, <2>3 DEF TreeOK, new
<1> DEFINE leaf == RSpot(a + 1, b)
<1>23. leaf \in Spots /\ leaf # I2Spot /\ leaf # TSpot(a)
  BY <1>20, SpotsIn, SpotsDiffer
<1>24. /\ N \in SUBSET Spots /\ leaf \in N /\ N \subseteq {leaf, I2Spot, TSpot(a)}
       /\ (I2Spot \in N <=> st.ip.i2 = NullReference)
       /\ (TSpot(a) \in N <=> T[a] = NullReference)
  <2> DEFINE N1 == IF st.ip.i2 = NullReference THEN {I2Spot} ELSE {}
             N2 == IF T[a] = NullReference THEN {TSpot(a)} ELSE {}
  <2>1. N = {leaf} \union N1 \union N2
    BY DEF T
  <2>2. N1 \subseteq {I2Spot} /\ (I2Spot \in N1 <=> st.ip.i2 = NullReference)
    BY DEF N1
  <2>3. N2 \subseteq {TSpot(a)} /\ (TSpot(a) \in N2 <=> T[a] = NullReference)
    BY DEF N2
  <2> HIDE DEF N1, N2, leaf
  <2>4. QED
    BY <1>10, <1>23, <2>1, <2>2, <2>3
<1>25. new(leaf) = r.cn /\ new(I2Spot) = y /\ new(TSpot(a)) = c
  BY <1>8, <1>18, <1>20, <1>21
<1>26. \A p \in Spots : p \notin N => new(p) = old(p)
  <2>1. \A p \in Tops : p \notin N => new(p) = old(p)
    <3>1. I2Spot \notin N => new(I2Spot) = old(I2Spot)
      BY <1>4, <1>8, <1>24
    <3>2. TSpot(a) \notin N => new(TSpot(a)) = old(TSpot(a))
      BY <1>4, <1>8, <1>18, <1>24
    <3>3. QED
      BY <1>19, <3>1, <3>2
  <2>2. \A k \in AllParts, m \in Refs : RSpot(k, m) \notin N => new(RSpot(k, m)) = old(RSpot(k, m))
    BY <1>21, <1>24
  <2>3. QED
    BY <1>17, <2>1, <2>2, SpotCases, SpotsIn
<1> HIDE DEF leaf
<1>27. \A p \in N : new(p) # NullReference => Fresh(st.sb, r.sb, new(p))
  <2>1. leaf \in N => (new(leaf) # NullReference => Fresh(st.sb, r.sb, new(leaf)))
    BY <1>4, <1>25
  <2>2. I2Spot \in N => Fresh(st.sb, r.sb, new(I2Spot))
    BY <1>4, <1>24, <1>25
  <2>3. TSpot(a) \in N => Fresh(st.sb, r.sb, new(TSpot(a)))
    BY <1>4, <1>24, <1>25
  <2>4. QED
    BY <1>24, <2>1, <2>2, <2>3
<1>28. \A p, q \in N : new(p) = new(q) /\ new(p) # NullReference => p = q
  <2>1. I2Spot \in N => new(I2Spot) # new(leaf)
    BY <1>4, <1>24, <1>25
  <2>2. TSpot(a) \in N => new(TSpot(a)) # new(leaf)
    BY <1>4, <1>24, <1>25
  <2>3. new(I2Spot) # new(TSpot(a))
    BY <1>13, <1>25
  <2>4. QED
    BY <1>24, <2>1, <2>2, <2>3
<1>29. \A d \in Clusters : r.store[d] # st.store[d] =>
             d \in FreeSet(st.sb) \/ \E p \in Tops : d = old(p)
  <2>1. /\ y \in FreeSet(st.sb) \/ y = old(I2Spot)
        /\ c \in FreeSet(st.sb) \/ c = old(TSpot(a))
    BY <1>4, <1>8 DEF Fresh
  <2>2. \A d \in Clusters : r.store[d] # st.store[d] => d = c \/ d = y
    BY <1>16
  <2>3. I2Spot \in Tops /\ TSpot(a) \in Tops
    BY SpotsIn
  <2>4. QED
    BY <2>1, <2>2, <2>3
<1>30. r.ip.clucnt >= ino[f].clucnt + Cardinality(N)
  <2>1. st.ip.clucnt \in Int /\ r.ip.clucnt \in Int
    BY <1>1, <1>4, StateTypes
  <2>2. /\ Cardinality({leaf}) <= 1 /\ Cardinality({leaf}) \in Nat
        /\ Cardinality({leaf, TSpot(a)}) <= 2 /\ Cardinality({leaf, TSpot(a)}) \in Nat
        /\ Cardinality({leaf, I2Spot, TSpot(a)}) <= 3
        /\ Cardinality({leaf, I2Spot, TSpot(a)}) \in Nat
    BY SomeMore
  <2>3. st.ip.i2 = NullReference => T[a] = NullReference
    BY NoTable DEF T
  <2>4. CASE st.ip.i2 = NullReference
    <3>1. N = {leaf, I2Spot, TSpot(a)} /\ r.ip.clucnt = st.ip.clucnt + 1 + 1 + 1
      BY <1>4, <1>24, <2>3, <2>4
    <3>2. Cardinality(N) <= 3 /\ Cardinality(N) \in Nat
      BY <2>2, <3>1
    <3>3. QED
      BY <1>1, <2>1, <3>1, <3>2
  <2>5. CASE st.ip.i2 # NullReference /\ T[a] = NullReference
    <3>1. N = {leaf, TSpot(a)} /\ r.ip.clucnt = st.ip.clucnt + 1 + 0 + 1
      BY <1>4, <1>24, <2>5
    <3>2. Cardinality(N) <= 2 /\ Cardinality(N) \in Nat
      BY <2>2, <3>1
    <3>3. QED
      BY <1>1, <2>1, <3>1, <3>2
  <2>6. CASE st.ip.i2 # NullReference /\ T[a] # NullReference
    <3>1. N = {leaf} /\ r.ip.clucnt = st.ip.clucnt + 1 + 0 + 0
      BY <1>4, <1>24, <2>6
    <3>2. Cardinality(N) <= 1 /\ Cardinality(N) \in Nat
      BY <2>2, <3>1
    <3>3. QED
      BY <1>1, <2>1, <3>1, <3>2
  <2>7. QED
    BY <2>4, <2>5, <2>6
<1>31. QED
  <2>1. Shrinks(st.sb, r.sb) /\ TreeOK(r.ip, r.store) /\ N \in SUBSET Spots
    BY <1>4, <1>22, <1>24
  <2>2. LeadOf(r.ip, r.store, RSpot(a + 1, b)) = r.cn
    BY <1>25 DEF leaf, new
  <2>3. QED
    BY <1>1, <1>26, <1>27, <1>28, <1>29, <1>30, <2>1, <2>2 DEF Grows, old, new

LEMMA AllocKeepsSound ==
  ASSUME NEW st, NEW ino, NEW f, NEW wr, Starts(st, ino, f, wr), NEW fcn \in FileClusterNumbers,
         NEW r, r = soAllocFileCluster(st, fcn), Fine(r)
  PROVE  /\ SoundAt(r.sb, With(ino, f, r.ip), r.store, wr \ {<<f, fcn>>})
         /\ LeadOf(r.ip, r.store, SpotOf(fcn)) = r.cn
<1>1. IsWork(st)
  BY DEF Starts
<1>2. IsWork(r)
  BY <1>1, AllocPasses DEF Passes
<1>3. CASE fcn < N_DIRECT
  <2>1. fcn \in Direct /\ r = AllocDirect(st, fcn) /\ SpotOf(fcn) = DSpot(fcn)
    BY <1>3, NumbersIs DEF soAllocFileCluster, SpotOf
  <2>2. /\ Grows(st.sb, ino, st.store, f, r.sb, r.ip, r.store, {DSpot(fcn)})
        /\ LeadOf(r.ip, r.store, DSpot(fcn)) = r.cn
    BY <2>1, DirectGrows
  <2>3. {DSpot(fcn)} \intersect Leaves \subseteq {SpotOf(fcn)}
    BY <2>1
  <2>4. SoundAt(r.sb, With(ino, f, r.ip), r.store, wr \ {<<f, fcn>>})
    BY <1>2, <2>2, <2>3, GrownBut
  <2>5. QED
    BY <2>1, <2>2, <2>4
<1>4. CASE fcn >= N_DIRECT /\ fcn < FirstDouble
  <2> DEFINE n == fcn - N_DIRECT
             N == IF st.ip.i1 = NullReference THEN {I1Spot, RSpot(0, n)} ELSE {RSpot(0, n)}
  <2>1. n \in Refs /\ fcn \in N_DIRECT .. FirstDouble - 1 /\ ~(fcn < N_DIRECT)
    BY <1>4, NumbersIs
  <2>2. SpotOf(fcn) = RSpot(0, n)
    BY <1>4, <2>1 DEF SpotOf, PartOf, SlotOf
  <2>3. r = soAllocIndirectFileCluster(st, n)
    BY <2>1 DEF soAllocFileCluster
  <2> HIDE DEF n
  <2>4. N \intersect Leaves \subseteq {SpotOf(fcn)}
    <3>1. N \subseteq {I1Spot, RSpot(0, n)}
      BY DEF N
    <3>2. QED
      BY <2>2, <3>1, SpotsIn, SpotsDiffer
  <2>5. N = IF st.ip.i1 = NullReference THEN {I1Spot, RSpot(0, n)} ELSE {RSpot(0, n)}
    OBVIOUS
  <2> HIDE DEF N
  <2>6. /\ Grows(st.sb, ino, st.store, f, r.sb, r.ip, r.store, N)
        /\ LeadOf(r.ip, r.store, RSpot(0, n)) = r.cn
    BY <2>1, <2>3, <2>5, IndirectGrows
  <2>7. SoundAt(r.sb, With(ino, f, r.ip), r.store, wr \ {<<f, fcn>>})
    BY <1>2, <2>4, <2>6, GrownBut
  <2>8. QED
    BY <2>2, <2>6, <2>7
<1>5. CASE fcn >= FirstDouble
  <2> DEFINE m == fcn - FirstDouble
             a == m \div ReferencesPerCluster
             b == m % ReferencesPerCluster
             s == IF st.ip.i2 = NullReference THEN AllocI2(st) ELSE ReadRefs(st, st.ip.i2)
             u == Part(s, a)
             t == Count(Take(u))
             N == {RSpot(a + 1, b)}
                    \union (IF st.ip.i2 = NullReference THEN {I2Spot} ELSE {})
                    \union (IF Tab(st.store, st.ip.i2)[a] = NullReference THEN {TSpot(a)} ELSE {})
  <2>1. /\ m \in 0 .. ReferencesPerCluster * ReferencesPerCluster - 1
        /\ fcn \notin N_DIRECT .. FirstDouble - 1 /\ ~(fcn < N_DIRECT) /\ ~(fcn < FirstDouble)
    BY <1>5, NumbersIs
  <2>2. SpotOf(fcn) = RSpot(a + 1, b)
    BY <2>1 DEF SpotOf, PartOf, SlotOf
  <2>3. r = soAllocDoubleIndirectFileCluster(st, m)
    BY <2>1 DEF soAllocFileCluster
  <2> HIDE DEF m
  <2>4. r = EnterBoth(t, a, b)
    BY <2>3 DEF soAllocDoubleIndirectFileCluster
  <2>5. a \in Refs /\ b \in Refs
    BY <2>1, Parts
  <2> HIDE DEF a, b
  <2>6. N \intersect Leaves \subseteq {SpotOf(fcn)}
    <3>1. N \subseteq {RSpot(a + 1, b), I2Spot, TSpot(a)}
      BY DEF N
    <3>2. I2Spot \notin Leaves /\ TSpot(a) \notin Leaves
      BY <2>5, SpotsIn, SpotsDiffer
    <3> HIDE DEF N
    <3>3. QED
      BY <2>2, <3>1, <3>2
  <2>7. /\ s = (IF st.ip.i2 = NullReference THEN AllocI2(st) ELSE ReadRefs(st, st.ip.i2))
        /\ u = Part(s, a) /\ t = Count(Take(u))
        /\ N = {RSpot(a + 1, b)}
                    \union (IF st.ip.i2 = NullReference THEN {I2Spot} ELSE {})
                    \union (IF Tab(st.store, st.ip.i2)[a] = NullReference THEN {TSpot(a)} ELSE {})
    OBVIOUS
  <2> HIDE DEF s, u, t, N
  <2>8. /\ Grows(st.sb, ino, st.store, f, r.sb, r.ip, r.store, N)
        /\ LeadOf(r.ip, r.store, RSpot(a + 1, b)) = r.cn
    BY <2>4, <2>5, <2>7, DoubleGrows
  <2>9. SoundAt(r.sb, With(ino, f, r.ip), r.store, wr \ {<<f, fcn>>})
    BY <1>2, <2>6, <2>8, GrownBut
  <2>10. QED
    BY <2>2, <2>8, <2>9
<1>6. QED
  BY <1>3, <1>4, <1>5, NumbersIs

-----------------------------------------------------------------------------
(***************************************************************************)
(* As long as nothing went wrong, the volume is sound.                     *)
(***************************************************************************)
SoundInv == Undamaged => SoundAt(sb, inode, store, written)

LEMMA StartsIs ==
  ASSUME CountsInv, Undamaged, SoundInv, NEW f \in Files
  PROVE  Starts(State(f), inode, f, written)
BY StateIs DEF CountsInv, SoundInv, Starts

LEMMA DoneUndamaged ==
  ASSUME CountsInv, NEW f \in Files, NEW r, IsWork(r), Done(f, r), sb.damage \subseteq r.sb.damage,
         Undamaged'
  PROVE  /\ Undamaged /\ Fine(r)
         /\ sb' = r.sb /\ inode' = With(inode, f, r.ip) /\ store' = r.store
<1>1. /\ sb' = r.sb /\ inode' = [inode EXCEPT ![f] = r.ip] /\ store' = r.store
      /\ failed' = (failed \/ ~r.ok)
  BY DEF Done
<1>2. sb'.damage = {} /\ ~failed' /\ r.ok \in BOOLEAN
  BY StateTypes DEF Undamaged
<1>3. r.sb.damage = {} /\ sb.damage = {} /\ ~failed /\ r.ok
  BY <1>1, <1>2
<1>4. QED
  BY <1>1, <1>3 DEF Undamaged, Fine, With

LEMMA AllocKeeps ==
  ASSUME CountsInv, SoundInv, NEW f \in Files, NEW fcn \in FileClusterNumbers,
         AllocFileCluster(f, fcn)
  PROVE  SoundInv'
<1> SUFFICES ASSUME Undamaged' PROVE SoundAt(sb', inode', store', written')
  BY DEF SoundInv
<1> DEFINE st == State(f)
           r == soAllocFileCluster(st, fcn)
<1>1. IsWork(st) /\ st.sb = sb /\ st.ip = inode[f]
  BY StateIs
<1>2. Done(f, r) /\ written' = written \ {<<f, fcn>>}
  BY DEF AllocFileCluster
<1>3. Passes(st, r)
  BY <1>1, AllocPasses
<1>4. r = soAllocFileCluster(st, fcn)
  OBVIOUS
<1> HIDE DEF r
<1>5. /\ Undamaged /\ Fine(r) /\ sb' = r.sb /\ inode' = With(inode, f, r.ip) /\ store' = r.store
  BY <1>1, <1>2, <1>3, DoneUndamaged DEF Passes
<1>6. Starts(st, inode, f, written)
  BY <1>5, StartsIs
<1> HIDE DEF st
<1>7. SoundAt(r.sb, With(inode, f, r.ip), r.store, written \ {<<f, fcn>>})
  BY <1>4, <1>5, <1>6, AllocKeepsSound
<1>8. QED
  BY <1>2, <1>5, <1>7

LEMMA AtSame ==
  ASSUME NEW ino \in [Files -> InodeParts], NEW f \in Files, NEW ip \in InodeParts
  PROVE  /\ With(ino, f, ip) \in [Files -> InodeParts] /\ With(ino, f, ip)[f] = ip
         /\ With(ino, f, ino[f]) = ino
BY DEF With

\* Before it is written the cluster of the file is where its place leads to.
LEMMA FoundSound ==
  ASSUME CountsInv, SoundInv, Undamaged, NEW f \in Files, NEW fcn \in FileClusterNumbers,
         NEW s, s = Found(f, fcn), Fine(s)
  PROVE  /\ \/ SoundAt(s.sb, With(inode, f, s.ip), s.store, written)
            \/ SoundAt(s.sb, With(inode, f, s.ip), s.store, written \ {<<f, fcn>>})
         /\ LeadOf(s.ip, s.store, SpotOf(fcn)) = s.cn
<1> DEFINE st == State(f)
           get == soGetFileCluster(st.ip, st.store, fcn)
<1>1. IsWork(st) /\ st.sb = sb /\ st.ip = inode[f] /\ st.store = store
  BY StateIs
<1>2. s = IF GetThrows(st.ip, st.store, fcn) THEN Throw(st)
          ELSE IF get = NullReference THEN soAllocFileCluster(st, fcn)
          ELSE [st EXCEPT !.cn = get]
  BY <1>1 DEF Found
<1>3. Starts(st, inode, f, written)
  BY StartsIs
<1>4. inode \in [Files -> InodeParts] /\ inode[f] \in InodeParts /\ store \in Stores
  BY DEF CountsInv
<1>5. SoundAt(sb, inode, store, written)
  BY DEF SoundInv
<1> HIDE DEF st
<1>6. CASE GetThrows(st.ip, st.store, fcn)
  BY <1>1, <1>2, <1>6, ThrowIs DEF Fine
<1>7. CASE ~GetThrows(st.ip, st.store, fcn) /\ get = NullReference
  <2>1. s = soAllocFileCluster(st, fcn)
    BY <1>2, <1>7
  <2>2. QED
    BY <1>3, <2>1, AllocKeepsSound
<1>8. CASE ~GetThrows(st.ip, st.store, fcn) /\ get # NullReference
  <2>1. get \in Reference
    BY <1>1, <1>8, GotType
  <2>2. TreeOK(st.ip, st.store)
    BY <1>1, <1>5 DEF SoundAt
  <2>3. get = LeadOf(st.ip, st.store, SpotOf(fcn))
    BY <1>1, <1>4, <1>8, <2>2, GetIs
  <2> HIDE DEF get
  <2>4. s = [st EXCEPT !.cn = get]
    BY <1>2, <1>8
  <2>5. s.sb = st.sb /\ s.ip = st.ip /\ s.store = st.store /\ s.cn = get
    BY <1>1, <2>1, <2>4, GetType
  <2>6. With(inode, f, s.ip) = inode
    BY <1>1, <1>4, <2>5, AtSame
  <2>7. QED
    BY <1>1, <1>5, <2>3, <2>5, <2>6
<1>9. QED
  BY <1>6, <1>7, <1>8

LEMMA WriteKeeps ==
  ASSUME CountsInv, SoundInv, NEW f \in Files, NEW fcn \in FileClusterNumbers,
         WriteFileCluster(f, fcn)
  PROVE  SoundInv'
<1> SUFFICES ASSUME Undamaged' PROVE SoundAt(sb', inode', store', written')
  BY DEF SoundInv
<1> DEFINE st == State(f)
           s == Found(f, fcn)
           w == <<f, fcn>>
           v == Content(f, fcn)
           r == Data(s, v)
<1>1. IsWork(st) /\ st.sb = sb
  BY StateIs
<1>2. Passes(st, s)
  BY FoundIs
<1>3. IF s.ok /\ s.cn \in Clusters
      THEN Done(f, r) /\ written' = written \union {w}
      ELSE Done(f, Throw(s)) /\ written' = written
  BY WriteIsFound DEF Exists
<1>4. s = Found(f, fcn) /\ v \in Contents
  BY ContentType
<1> HIDE DEF s, st, v
<1>5. IsWork(s) /\ sb.damage \subseteq s.sb.damage
  BY <1>1, <1>2 DEF Passes
<1>6. s.ok /\ s.cn \in Clusters
  <2> SUFFICES ASSUME ~(s.ok /\ s.cn \in Clusters) PROVE FALSE
    OBVIOUS
  <2>1. Done(f, Throw(s)) /\ IsWork(Throw(s)) /\ ~Throw(s).ok /\ Throw(s).sb = s.sb
    BY <1>3, <1>5, ThrowIs
  <2>2. Fine(Throw(s))
    BY <1>5, <2>1, DoneUndamaged
  <2>3. QED
    BY <2>1, <2>2 DEF Fine
<1>7. /\ IsWork(r) /\ r.sb = s.sb /\ r.ip = s.ip /\ r.ok = s.ok /\ r.store = With(s.store, s.cn, v)
  BY <1>4, <1>5, <1>6, DataIs DEF With
<1>8. Done(f, r) /\ written' = written \union {w}
  BY <1>3, <1>6
<1> HIDE DEF r
<1>9. /\ Undamaged /\ Fine(r) /\ sb' = r.sb /\ inode' = With(inode, f, r.ip) /\ store' = r.store
  BY <1>5, <1>7, <1>8, DoneUndamaged
<1>10. Fine(s)
  BY <1>7, <1>9 DEF Fine
<1>11. /\ \/ SoundAt(s.sb, With(inode, f, s.ip), s.store, written)
          \/ SoundAt(s.sb, With(inode, f, s.ip), s.store, written \ {w})
       /\ LeadOf(s.ip, s.store, SpotOf(fcn)) = s.cn
  BY <1>4, <1>9, <1>10, FoundSound
<1>12. PICK wr \in SUBSET written : /\ SoundAt(s.sb, With(inode, f, s.ip), s.store, wr)
                                    /\ wr \union {w} = written \union {w}
  BY <1>11
<1> DEFINE ino == With(inode, f, s.ip)
           sto1 == With(s.store, s.cn, v)
<1>13. ino \in [Files -> InodeParts] /\ ino[f] = s.ip /\ s.store \in Stores /\ sto1 \in Stores
  <2>1. s.store \in Stores /\ r.store \in Stores /\ s.ip \in InodeParts
    BY <1>5, <1>7, StateTypes
  <2>2. inode \in [Files -> InodeParts]
    BY DEF CountsInv
  <2>3. QED
    BY <1>7, <2>1, <2>2, AtSame
<1>14. \A x \in wr : x \in Files \X FileClusterNumbers
  BY DEF CountsInv
<1>15. sto1 = With(s.store, s.cn, Content(f, fcn))
  BY DEF v
<1>16. SoundAt(s.sb, ino, s.store, wr) /\ s.cn = LeadOf(ino[f], s.store, SpotOf(fcn))
  BY <1>11, <1>12, <1>13
<1>17. sb' = s.sb /\ inode' = ino /\ store' = sto1 /\ written' = wr \union {<<f, fcn>>}
  BY <1>7, <1>8, <1>9, <1>12
<1> HIDE DEF ino, sto1, w
<1>18. SoundAt(s.sb, ino, sto1, wr \union {<<f, fcn>>})
  BY <1>6, <1>13, <1>14, <1>15, <1>16, DataSound
<1>19. QED
  BY <1>17, <1>18

-----------------------------------------------------------------------------
(***************************************************************************)
(* A release, while it goes on.  L are the places of the file when it      *)
(* began, K the clusters of the other files, V the places that have not    *)
(* been released yet.                                                      *)
(***************************************************************************)
Leads(L, K) ==
    /\ L \in [Spots -> Reference]
    /\ \A p, q \in Spots : L[p] = L[q] /\ L[p] # NullReference => p = q
    /\ \A p \in Spots : L[p] # NullReference => L[p] \notin K
Still(L, V) == {p \in V : L[p] # NullReference}
StillHolds(st, L, K, V) ==
    Fine(st) => /\ PoolOK(st.sb)
                /\ \A p \in V : L[p] \notin FreeSet(st.sb)
                /\ \A c \in K : c \notin FreeSet(st.sb)
                /\ st.total >= Cardinality(Still(L, V))

LEMMA StillFinite ==
  ASSUME NEW L, NEW V \in SUBSET Spots
  PROVE  IsFiniteSet(Still(L, V)) /\ Cardinality(Still(L, V)) \in Nat
<1>1. Still(L, V) \subseteq Spots
  BY DEF Still
<1>2. QED
  BY <1>1, SpotsFinite, FS_Subset, FS_CardinalityType

LEMMA HoldsLess ==
  ASSUME NEW st, IsWork(st), NEW L, NEW K, NEW V \in SUBSET Spots, StillHolds(st, L, K, V),
         NEW W \in SUBSET V
  PROVE  StillHolds(st, L, K, W)
<1>1. Still(L, W) \subseteq Still(L, V)
  BY DEF Still
<1>2. /\ IsFiniteSet(Still(L, V)) /\ Cardinality(Still(L, V)) \in Nat
      /\ Cardinality(Still(L, W)) \in Nat
  BY StillFinite
<1>3. Cardinality(Still(L, W)) <= Cardinality(Still(L, V))
  BY <1>1, <1>2, FS_Subset
<1>4. st.total \in Int
  BY StateTypes
<1>5. ASSUME Fine(st) PROVE st.total >= Cardinality(Still(L, W))
  BY <1>2, <1>3, <1>4, <1>5 DEF StillHolds
<1>6. QED
  BY <1>5 DEF StillHolds

LEMMA HoldsKept ==
  ASSUME NEW st, NEW L, NEW K, NEW V, StillHolds(st, L, K, V), NEW r,
         Fine(r) => Fine(st) /\ r.sb = st.sb /\ r.total = st.total
  PROVE  StillHolds(r, L, K, V)
BY DEF StillHolds

LEMMA FreesFine ==
  ASSUME NEW st, NEW r, GivesBack(st, r), Fine(r)
  PROVE  Fine(st)
BY DEF GivesBack, Fine

LEMMA ReleaseHolds ==
  ASSUME NEW st, IsWork(st), NEW L, NEW K, Leads(L, K), NEW V \in SUBSET Spots, StillHolds(st, L, K, V),
         NEW p \in V
  PROVE  StillHolds(Release(st, L[p]), L, K, V \ {p})
<1> DEFINE r == Release(st, L[p])
           c == L[p]
           W == V \ {p}
<1>1. c \in Reference
  BY DEF Leads
<1>2. /\ GivesBack(st, r) /\ r.ip = st.ip
      /\ c = NullReference => r = st
      /\ c # NullReference /\ r.ok =>
           /\ st.ok /\ c \in Nat /\ ~Invalid(st.sb, c)
           /\ r.sb = soFreeCluster(st.sb, c) /\ r.total = st.total - 1
  BY <1>1, ReleaseIs
<1>3. CASE c = NullReference
  BY <1>2, <1>3, HoldsLess
<1>4. CASE c # NullReference
  <2> SUFFICES ASSUME Fine(r)
               PROVE  /\ PoolOK(r.sb)
                      /\ \A q \in W : L[q] \notin FreeSet(r.sb)
                      /\ \A d \in K : d \notin FreeSet(r.sb)
                      /\ r.total >= Cardinality(Still(L, W))
    BY DEF StillHolds
  <2>1. Fine(st)
    BY <1>2, FreesFine
  <2>2. /\ PoolOK(st.sb) /\ \A q \in V : L[q] \notin FreeSet(st.sb)
        /\ \A d \in K : d \notin FreeSet(st.sb)
        /\ st.total >= Cardinality(Still(L, V))
    BY <2>1 DEF StillHolds
  <2>3. /\ c \in Nat /\ r.sb = soFreeCluster(st.sb, c) /\ r.total = st.total - 1
        /\ r.sb.damage = {}
    BY <1>2, <1>4 DEF Fine
  <2>4. c \notin FreeSet(st.sb) /\ IsSb(st.sb)
    BY <2>2, StateTypes
  <2> HIDE DEF r
  <2>5. PoolOK(r.sb) /\ FreeSet(r.sb) \subseteq FreeSet(st.sb) \union {c}
    <3>1. soFreeCluster(st.sb, c).damage = {}
      BY <2>3
    <3>2. /\ PoolOK(soFreeCluster(st.sb, c))
          /\ FreeSet(soFreeCluster(st.sb, c)) \subseteq FreeSet(st.sb) \union {c}
      <4> HIDE DEF c
      <4>1. QED
        BY <2>2, <2>3, <2>4, <3>1, PoolFree
    <3>3. QED
      BY <2>3, <3>2
  <2>6. \A q \in W : L[q] # c
    BY <1>4 DEF Leads
  <2>7. c \notin K
    BY <1>4 DEF Leads
  <2>8. r.total >= Cardinality(Still(L, W))
    <3>1. Still(L, W) = Still(L, V) \ {p} /\ p \in Still(L, V)
      BY <1>4 DEF Still
    <3>2. /\ IsFiniteSet(Still(L, V)) /\ Cardinality(Still(L, V)) \in Nat
          /\ Cardinality(Still(L, W)) \in Nat
      BY StillFinite
    <3>3. Cardinality(Still(L, V) \ {p}) = Cardinality(Still(L, V)) - 1
      BY <3>1, <3>2, FS_RemoveElement
    <3>4. st.total \in Int
      BY StateTypes
    <3>5. Cardinality(Still(L, W)) = Cardinality(Still(L, V)) - 1
      BY <3>1, <3>3
    <3> HIDE DEF W
    <3>6. QED
      BY <2>2, <2>3, <3>2, <3>4, <3>5
  <2>9. \A q \in W : L[q] \notin FreeSet(r.sb)
    BY <2>2, <2>5, <2>6
  <2>10. \A d \in K : d \notin FreeSet(r.sb)
    BY <2>2, <2>5, <2>7
  <2>11. QED
    BY <2>5, <2>8, <2>9, <2>10
<1>5. QED
  BY <1>3, <1>4

\* The places that hang from the part a, with the table itself, and those from the second level.
Under(a) == {Host(a)} \union {RSpot(a, b) : b \in Refs}
Under2 == {I2Spot} \union UNION {Under(a) : a \in AllParts \ {0}}
Hangs(L, sto) ==
    /\ \A a \in AllParts, b \in Refs : L[RSpot(a, b)] = Tab(sto, L[Host(a)])[b]
    /\ \A n \in Refs : L[TSpot(n)] = Tab(sto, L[I2Spot])[n]

LEMMA HoldsThrow ==
  ASSUME NEW st, IsWork(st), NEW L, NEW K, NEW V
  PROVE  StillHolds(Throw(st), L, K, V)
BY ThrowIs DEF StillHolds, Fine

LEMMA FreeIndirectHolds ==
  ASSUME NEW st, IsWork(st), NEW L, NEW K, Leads(L, K), Hangs(L, st.store),
         NEW V \in SUBSET Spots, StillHolds(st, L, K, V), NEW a \in AllParts, Under(a) \subseteq V,
         NEW from \in Int
  PROVE  StillHolds(soFreeIndirectFileClusters(st, L[Host(a)], from), L, K, V \ Under(a))
<1> DEFINE c == L[Host(a)]
           r == soFreeIndirectFileClusters(st, c, from)
<1>0. Host(a) \in Spots /\ c \in Reference
  BY SpotsIn DEF Leads
<1>1. CASE ~st.ok \/ c = NullReference
  <2>1. r = st
    BY <1>1 DEF soFreeIndirectFileClusters
  <2>2. QED
    BY <2>1, HoldsLess
<1>2. CASE ~(~st.ok \/ c = NullReference) /\ c \notin Clusters
  <2>1. r = Throw(st)
    BY <1>2 DEF soFreeIndirectFileClusters, Exists
  <2>2. QED
    BY <2>1, HoldsThrow
<1>3. CASE ~(~st.ok \/ c = NullReference) /\ c \in Clusters
  <2> DEFINE n == ReferencesPerBlock
             refs == Tail1(RefsIn(st.store[c]), from)
             t == ReleaseEach(st, refs)
             u == Release(t, c)
             W(k) == {p \in V : \A j \in Refs : j < k => p # RSpot(a, j)}
  <2>1. r = ClearI1(u)
    BY <1>3 DEF soFreeIndirectFileClusters, Exists
  <2>2. /\ refs \in [1..n -> Reference] /\ n \in Nat
        /\ \A k \in 1..n : k - 1 \in Refs /\ refs[k] \in {NullReference, L[RSpot(a, k - 1)]}
    <3>1. RefsIn(st.store[c]) \in Tables
      BY <1>3, StateTypes, RefsInType DEF Stores
    <3>2. /\ refs \in [1..n -> Reference]
          /\ \A k \in 1..n : k - 1 \in Refs /\ refs[k] \in {NullReference, RefsIn(st.store[c])[k - 1]}
      BY <3>1, Tail1Type
    <3>3. \A b \in Refs : L[RSpot(a, b)] = RefsIn(st.store[c])[b]
      BY <1>3 DEF Hangs, Tab
    <3>4. n \in Nat
      BY Sizes2
    <3> HIDE DEF refs, n, c
    <3>5. ASSUME NEW k \in 1..n PROVE refs[k] \in {NullReference, L[RSpot(a, k - 1)]}
      <4>1. k - 1 \in Refs /\ refs[k] \in {NullReference, RefsIn(st.store[c])[k - 1]}
        BY <3>2
      <4> DEFINE j == k - 1
      <4>2. j \in Refs /\ refs[k] \in {NullReference, RefsIn(st.store[c])[j]}
        BY <4>1
      <4> HIDE DEF j
      <4>3. L[RSpot(a, j)] = RefsIn(st.store[c])[j]
        BY <3>3, <4>2
      <4>4. QED
        BY <4>2, <4>3 DEF j
    <3>6. QED
      BY <3>2, <3>4, <3>5
  <2> HIDE DEF refs
  <2>3. PICK f : t = f[n] /\ f[0] = st /\ Releasing(f, refs, n)
    <3>1. DOMAIN refs = 1..n
      BY <2>2
    <3>2. QED
      BY <2>2, <3>1, ReleaseTrace
  <2> HIDE DEF n, t
  <2> DEFINE P == {k \in 0..n : GivesBack(st, f[k]) /\ StillHolds(f[k], L, K, W(k))}
  <2>4. 0 \in P
    <3>1. W(0) \in SUBSET V
      OBVIOUS
    <3>2. GivesBack(st, f[0]) /\ 0 \in 0..n
      BY <2>2, <2>3, FreesSelf
    <3> HIDE DEF W
    <3>3. StillHolds(st, L, K, W(0))
      BY <3>1, HoldsLess
    <3>4. QED
      BY <2>3, <3>2, <3>3
  <2>5. ASSUME NEW k \in 1..n, k - 1 \in P PROVE k \in P
    <3> DEFINE j == k - 1
               q == RSpot(a, j)
               s == f[j]
    <3>1. k \in 0..n /\ f[k] = Release(s, refs[k]) /\ j \in Nat /\ k = j + 1
      BY <2>2, <2>3 DEF Releasing
    <3>2. GivesBack(st, s) /\ StillHolds(s, L, K, W(j)) /\ IsWork(s)
      BY <2>5 DEF GivesBack
    <3>3. j \in Refs /\ refs[k] \in {NullReference, L[q]} /\ refs[k] \in Reference
      BY <2>2
    <3> HIDE DEF j, s
    <3>4. q \in V
      BY <3>3 DEF Under
    <3>5. \A i \in Refs : i < j => q # RSpot(a, i)
      BY <3>1, SpotsDiffer
    <3>6. W(k) \in SUBSET (W(j) \ {q}) /\ q \in W(j) /\ W(j) \in SUBSET Spots
      <4>1. \A i \in Refs : i < j => i < k
        BY <3>1, Sizes2
      <4>2. j < k
        BY <3>1
      <4>3. q \in W(j)
        BY <3>4, <3>5
      <4>4. \A p \in W(k) : p \in V /\ p # q /\ \A i \in Refs : i < j => p # RSpot(a, i)
        BY <3>3, <4>1, <4>2
      <4>5. QED
        BY <4>3, <4>4
    <3> HIDE DEF W, q
    <3>7. StillHolds(f[k], L, K, W(k))
      <4>1. CASE refs[k] = NullReference
        <5>1. f[k] = s
          BY <3>1, <3>2, <3>3, <4>1, ReleaseIs
        <5>2. W(k) \in SUBSET W(j)
          BY <3>6
        <5>3. QED
          BY <3>2, <3>6, <5>1, <5>2, HoldsLess
      <4>2. CASE refs[k] = L[q]
        <5>1. StillHolds(Release(s, L[q]), L, K, W(j) \ {q})
          BY <3>2, <3>6, ReleaseHolds
        <5>2. IsWork(Release(s, L[q]))
          BY <3>2, <3>3, <4>2, ReleaseIs DEF GivesBack
        <5>3. W(j) \ {q} \in SUBSET Spots
          BY <3>6
        <5>4. StillHolds(Release(s, L[q]), L, K, W(k))
          BY <3>6, <5>1, <5>2, <5>3, HoldsLess
        <5>5. QED
          BY <3>1, <4>2, <5>4
      <4>3. QED
        BY <3>3, <4>1, <4>2
    <3>8. GivesBack(st, f[k])
      <4>1. GivesBack(s, f[k])
        BY <3>1, <3>2, <3>3, ReleaseIs
      <4>2. QED
        BY <3>2, <4>1, FreesOn
    <3>9. QED
      BY <3>1, <3>7, <3>8
  <2> DEFINE X == W(n)
  <2>6. GivesBack(st, t) /\ StillHolds(t, L, K, X) /\ IsWork(t)
    <3> HIDE DEF P
    <3>1. \A k \in 0..n : k \in P
      BY <2>2, <2>4, <2>5, StepByStep
    <3>2. n \in 0..n /\ n \in P
      BY <2>2, <3>1
    <3>3. GivesBack(st, f[n]) /\ StillHolds(f[n], L, K, W(n))
      BY <3>2 DEF P
    <3>4. QED
      BY <2>3, <3>3 DEF GivesBack
  <2>7. X \in SUBSET Spots /\ Host(a) \in X
    <3>1. Host(a) \in V
      BY DEF Under
    <3>2. \A j : Host(a) # RSpot(a, j)
      BY SpotsIn, SpotsDiffer
    <3>3. QED
      BY <3>1, <3>2
  <2>8. V \ Under(a) \in SUBSET (X \ {Host(a)})
    BY DEF Under
  <2> HIDE DEF X
  <2>9. StillHolds(u, L, K, X \ {Host(a)}) /\ IsWork(u)
    <3>1. StillHolds(Release(t, L[Host(a)]), L, K, X \ {Host(a)})
      BY <2>6, <2>7, ReleaseHolds
    <3>2. IsWork(u)
      BY <1>0, <2>6, ReleaseIs DEF GivesBack
    <3>3. QED
      BY <3>1, <3>2
  <2> HIDE DEF u
  <2>10. GivesBack(u, r) /\ r.sb = u.sb /\ r.total = u.total /\ r.ok = u.ok
    BY <2>1, <2>9, ClearI1Is
  <2>11. StillHolds(r, L, K, X \ {Host(a)}) /\ IsWork(r)
    <3>1. Fine(r) => Fine(u)
      BY <2>10, FreesFine
    <3> HIDE DEF r
    <3>2. QED
      BY <2>9, <2>10, <3>1, HoldsKept DEF GivesBack
  <2>12. X \ {Host(a)} \in SUBSET Spots
    BY <2>7
  <2> HIDE DEF r
  <2>13. StillHolds(r, L, K, V \ Under(a))
    BY <2>8, <2>11, <2>12, HoldsLess
  <2>14. QED
    BY <2>13 DEF r
<1>4. QED
  BY <1>1, <1>2, <1>3

LEMMA UnderIs ==
  /\ \A a \in AllParts : Under(a) \subseteq Spots /\ I2Spot \notin Under(a)
  /\ \A a, b \in AllParts : a # b => Under(a) \intersect Under(b) = {}
<1>1. ASSUME NEW a \in AllParts
      PROVE  Under(a) \subseteq Spots /\ I2Spot \notin Under(a) /\ Host(a) # I2Spot
  <2>1. Host(a) # I2Spot
    BY SpotsDiffer DEF Host
  <2>2. \A b : RSpot(a, b) # I2Spot
    BY SpotsIn, SpotsDiffer
  <2>3. Host(a) \in Spots /\ \A b \in Refs : RSpot(a, b) \in Spots
    BY SpotsIn
  <2>4. QED
    BY <2>1, <2>2, <2>3 DEF Under
<1>2. ASSUME NEW a \in AllParts, NEW b \in AllParts, a # b
      PROVE  Under(a) \intersect Under(b) = {}
  <2>1. Host(a) # Host(b) /\ Host(a) \in Tops /\ Host(b) \in Tops
    BY <1>2, HostsDiffer, SpotsIn
  <2>2. \A c, d : RSpot(a, c) # RSpot(b, d)
    BY <1>2, SpotsDiffer
  <2>3. \A c : RSpot(a, c) \notin Tops /\ RSpot(b, c) \notin Tops
    BY SpotsDiffer
  <2>4. QED
    BY <2>1, <2>2, <2>3 DEF Under
<1>3. QED
  BY <1>1, <1>2

LEMMA FreeTablesHolds ==
  ASSUME NEW st, IsWork(st), NEW L, NEW K, Leads(L, K), Hangs(L, st.store),
         NEW V \in SUBSET Spots, StillHolds(st, L, K, V),
         NEW n \in Nat, 1..n \subseteq AllParts, NEW refs \in [1..n -> Reference],
         \A k \in 1..n : refs[k] \in {NullReference, L[Host(k)]} /\ Under(k) \subseteq V
  PROVE  StillHolds(FreeTables(st, refs), L, K, {p \in V : \A k \in 1..n : p \notin Under(k)})
<1> DEFINE W(k) == {p \in V : \A j \in 1..n : j <= k => p \notin Under(j)}
<1>1. PICK f : FreeTables(st, refs) = f[n] /\ f[0] = st /\ Freeing(f, refs, n)
  <2>1. DOMAIN refs = 1..n
    OBVIOUS
  <2>2. QED
    BY <2>1, TableTrace
<1> DEFINE P == {k \in 0..n : GivesBack(st, f[k]) /\ StillHolds(f[k], L, K, W(k))}
<1>2. 0 \in P
  <2>1. W(0) \in SUBSET V
    OBVIOUS
  <2>2. GivesBack(st, f[0]) /\ 0 \in 0..n
    BY <1>1, FreesSelf
  <2> HIDE DEF W
  <2>3. StillHolds(st, L, K, W(0))
    BY <2>1, HoldsLess
  <2>4. QED
    BY <1>1, <2>2, <2>3
<1>3. ASSUME NEW k \in 1..n, k - 1 \in P PROVE k \in P
  <2> DEFINE j == k - 1
             s == f[j]
             r == soFreeIndirectFileClusters(s, refs[k], 0)
  <2>1. /\ k \in 0..n /\ f[k] = r /\ j \in Nat /\ k = j + 1 /\ k \in AllParts
        /\ refs[k] \in Reference
    BY <1>1 DEF Freeing, FreeTable
  <2>2. GivesBack(st, s) /\ StillHolds(s, L, K, W(j)) /\ IsWork(s) /\ s.store = st.store
    BY <1>3 DEF GivesBack
  <2> HIDE DEF j, s
  <2>3. GivesBack(s, r)
    BY <2>1, <2>2, FreeIndirectFrees
  <2>4. GivesBack(st, r)
    BY <2>2, <2>3, FreesOn
  <2>5. Under(k) \subseteq W(j) /\ W(k) \in SUBSET (W(j) \ Under(k)) /\ W(j) \in SUBSET Spots
    <3>1. \A i \in 1..n : i <= j => i # k /\ i \in AllParts /\ i <= k
      BY <2>1
    <3>2. \A i \in 1..n : i <= j => Under(i) \intersect Under(k) = {}
      BY <2>1, <3>1, UnderIs
    <3>3. Under(k) \subseteq W(j)
      BY <3>2
    <3>4. \A p \in W(k) : p \in V /\ p \notin Under(k) /\ \A i \in 1..n : i <= j => p \notin Under(i)
      BY <2>1, <3>1
    <3>5. QED
      BY <3>3, <3>4
  <2> HIDE DEF W
  <2>6. StillHolds(r, L, K, W(k))
    <3>1. CASE refs[k] = NullReference
      <4>1. r = s
        BY <3>1 DEF soFreeIndirectFileClusters
      <4>2. W(k) \in SUBSET W(j)
        BY <2>5
      <4>3. QED
        BY <2>2, <2>5, <4>1, <4>2, HoldsLess
    <3>2. CASE refs[k] # NullReference
      <4>1. refs[k] = L[Host(k)]
        BY <3>2
      <4>2. Hangs(L, s.store) /\ 0 \in Int
        BY <2>2
      <4>3. StillHolds(soFreeIndirectFileClusters(s, L[Host(k)], 0), L, K, W(j) \ Under(k))
        BY <2>1, <2>2, <2>5, <4>2, FreeIndirectHolds
      <4>4. StillHolds(r, L, K, W(j) \ Under(k)) /\ IsWork(r)
        BY <2>3, <4>1, <4>3 DEF GivesBack
      <4>5. W(j) \ Under(k) \in SUBSET Spots
        BY <2>5
      <4> HIDE DEF r
      <4>6. QED
        BY <2>5, <4>4, <4>5, HoldsLess
    <3>3. QED
      BY <3>1, <3>2
  <2>7. QED
    BY <2>1, <2>4, <2>6
<1> DEFINE X == W(n)
<1>4. StillHolds(FreeTables(st, refs), L, K, X)
  <2> HIDE DEF P
  <2>1. \A k \in 0..n : k \in P
    BY <1>2, <1>3, StepByStep
  <2>2. n \in 0..n /\ n \in P
    BY <2>1
  <2>3. StillHolds(f[n], L, K, W(n))
    BY <2>2 DEF P
  <2>4. QED
    BY <1>1, <2>3
<1>5. X = {p \in V : \A k \in 1..n : p \notin Under(k)}
  OBVIOUS
<1> HIDE DEF X
<1>6. QED
  BY <1>4, <1>5

LEMMA FreeDoubleHolds ==
  ASSUME NEW st, IsWork(st), NEW L, NEW K, Leads(L, K), Hangs(L, st.store),
         NEW V \in SUBSET Spots, StillHolds(st, L, K, V), Under2 \subseteq V,
         st.ip.i2 \in {NullReference, L[I2Spot]}, NEW from \in Int
  PROVE  StillHolds(soFreeDoubleIndirectFileClusters(st, from), L, K, V \ Under2)
<1> DEFINE c == st.ip.i2
           r == soFreeDoubleIndirectFileClusters(st, from)
<1>0. I2Spot \in Spots /\ c \in Reference
  BY SpotsIn, StateTypes
<1>1. CASE ~st.ok \/ c = NullReference
  <2>1. r = st
    BY <1>1 DEF soFreeDoubleIndirectFileClusters
  <2>2. QED
    BY <2>1, HoldsLess
<1>2. CASE ~(~st.ok \/ c = NullReference) /\ c \notin Clusters
  <2>1. r = Throw(st)
    BY <1>2 DEF soFreeDoubleIndirectFileClusters, Exists
  <2>2. QED
    BY <2>1, HoldsThrow
<1>3. CASE ~(~st.ok \/ c = NullReference) /\ c \in Clusters
  <2> DEFINE n == ReferencesPerBlock
             refs == Tail1(RefsIn(st.store[c]), from)
             t == FreeTables(st, refs)
             u == Release(t, c)
             X == {p \in V : \A k \in 1..n : p \notin Under(k)}
  <2>1. r = ClearI2(u) /\ c = L[I2Spot]
    BY <1>3 DEF soFreeDoubleIndirectFileClusters, Exists
  <2>2. n \in Nat /\ 1..n \subseteq AllParts \ {0}
    BY Sizes2 DEF AllParts
  <2>3. /\ refs \in [1..n -> Reference]
        /\ \A k \in 1..n : refs[k] \in {NullReference, L[Host(k)]}
    <3>1. RefsIn(st.store[c]) \in Tables
      BY <1>3, StateTypes, RefsInType DEF Stores
    <3>2. /\ refs \in [1..n -> Reference]
          /\ \A k \in 1..n : k - 1 \in Refs /\ refs[k] \in {NullReference, RefsIn(st.store[c])[k - 1]}
      BY <3>1, Tail1Type
    <3>3. \A m \in Refs : L[TSpot(m)] = RefsIn(st.store[c])[m]
      BY <1>3, <2>1 DEF Hangs, Tab
    <3> HIDE DEF refs, n, c
    <3>4. ASSUME NEW k \in 1..n PROVE refs[k] \in {NullReference, L[Host(k)]}
      <4>1. k - 1 \in Refs /\ refs[k] \in {NullReference, RefsIn(st.store[c])[k - 1]}
        BY <3>2
      <4>2. k # 0
        BY <2>2
      <4> DEFINE j == k - 1
      <4>3. j \in Refs /\ refs[k] \in {NullReference, RefsIn(st.store[c])[j]} /\ Host(k) = TSpot(j)
        BY <4>1, <4>2 DEF Host
      <4> HIDE DEF j
      <4>4. L[TSpot(j)] = RefsIn(st.store[c])[j]
        BY <3>3, <4>3
      <4>5. QED
        BY <4>3, <4>4
    <3>5. QED
      BY <3>2, <3>4
  <2> HIDE DEF refs
  <2>4. \A k \in 1..n : Under(k) \subseteq V
    BY <2>2 DEF Under2
  <2>5. GivesBack(st, t) /\ IsWork(t)
    BY <2>2, <2>3, FreeTablesFrees DEF GivesBack
  <2>6. StillHolds(t, L, K, X)
    <3>1. /\ 1..n \subseteq AllParts
          /\ \A k \in 1..n : refs[k] \in {NullReference, L[Host(k)]} /\ Under(k) \subseteq V
      BY <2>2, <2>3, <2>4
    <3>2. refs \in [1..n -> Reference] /\ n \in Nat
      BY <2>2, <2>3
    <3> HIDE DEF n
    <3>3. QED
      BY <3>1, <3>2, FreeTablesHolds
  <2>7. X \in SUBSET Spots /\ I2Spot \in X
    <3>1. I2Spot \in V
      BY DEF Under2
    <3>2. \A k \in 1..n : I2Spot \notin Under(k)
      BY <2>2, UnderIs
    <3>3. QED
      BY <3>1, <3>2
  <2>8. V \ Under2 \in SUBSET (X \ {I2Spot})
    BY <2>2 DEF Under2
  <2> HIDE DEF X, t
  <2>9. StillHolds(u, L, K, X \ {I2Spot}) /\ IsWork(u)
    <3>1. StillHolds(Release(t, L[I2Spot]), L, K, X \ {I2Spot})
      BY <2>5, <2>6, <2>7, ReleaseHolds
    <3>2. IsWork(u)
      BY <1>0, <2>5, ReleaseIs DEF GivesBack
    <3>3. QED
      BY <2>1, <3>1, <3>2
  <2> HIDE DEF u
  <2>10. GivesBack(u, r) /\ r.sb = u.sb /\ r.total = u.total /\ r.ok = u.ok
    BY <2>1, <2>9, ClearI2Is
  <2>11. StillHolds(r, L, K, X \ {I2Spot}) /\ IsWork(r)
    <3>1. Fine(r) => Fine(u)
      BY <2>10, FreesFine
    <3> HIDE DEF r
    <3>2. QED
      BY <2>9, <2>10, <3>1, HoldsKept DEF GivesBack
  <2>12. X \ {I2Spot} \in SUBSET Spots
    BY <2>7
  <2> HIDE DEF r
  <2>13. StillHolds(r, L, K, V \ Under2)
    BY <2>8, <2>11, <2>12, HoldsLess
  <2>14. QED
    BY <2>13 DEF r
<1>4. QED
  BY <1>1, <1>2, <1>3

Begun(st, L, K) ==
    /\ IsWork(st) /\ Leads(L, K) /\ Hangs(L, st.store)
    /\ st.ip.i1 = L[I1Spot] /\ st.ip.i2 = L[I2Spot]
    /\ StillHolds(st, L, K, Spots)

\* What is released no longer hangs from the inode.
Loose(s, V) ==
    \A p \in Spots : p \notin V => \/ p \in Under(0) /\ s.ip.i1 = NullReference
                                   \/ p \in Under2 /\ s.ip.i2 = NullReference

LEMMA FirstHolds ==
  ASSUME NEW st, NEW L, NEW K, Begun(st, L, K), NEW from \in Int, NEW t,
         t \in {st, soFreeIndirectFileClusters(st, st.ip.i1, from)}, Fine(t)
  PROVE  /\ GivesBack(st, t) /\ t.ip.i2 = L[I2Spot]
         /\ \E V \in SUBSET Spots : StillHolds(t, L, K, V) /\ Loose(t, V) /\ Under2 \subseteq V
<1>1. /\ IsWork(st) /\ Leads(L, K) /\ Hangs(L, st.store)
      /\ st.ip.i1 = L[I1Spot] /\ st.ip.i2 = L[I2Spot]
      /\ StillHolds(st, L, K, Spots) /\ st.ip.i1 \in Reference
  BY StateTypes DEF Begun
<1>2. 0 \in AllParts /\ Host(0) = I1Spot
  BY Sizes2 DEF AllParts, Host
<1>3. Under2 \subseteq Spots \ Under(0)
  <2>1. \A a \in AllParts \ {0} : Under(a) \subseteq Spots /\ Under(a) \intersect Under(0) = {}
    BY <1>2, UnderIs
  <2>2. I2Spot \in Spots /\ I2Spot \notin Under(0)
    BY <1>2, UnderIs, SpotsIn
  <2>3. QED
    BY <2>1, <2>2 DEF Under2
<1>4. CASE t = st
  <2>1. StillHolds(t, L, K, Spots) /\ Loose(t, Spots) /\ Under2 \subseteq Spots
    BY <1>1, <1>3, <1>4 DEF Loose
  <2>2. QED
    BY <1>1, <1>4, <2>1, FreesSelf
<1>5. CASE t = soFreeIndirectFileClusters(st, st.ip.i1, from)
  <2>1. /\ GivesBack(st, t) /\ t.ip.i2 = st.ip.i2
        /\ t.ok /\ st.ip.i1 # NullReference => t.ip.i1 = NullReference
    BY <1>1, <1>5, FreeIndirectFrees
  <2>2. t.ip.i1 = NullReference
    <3>1. t.ip.i1 \in {st.ip.i1, NullReference} /\ t.ok
      BY <2>1 DEF GivesBack, Fine
    <3>2. QED
      BY <2>1, <3>1
  <2> DEFINE V == Spots \ Under(0)
  <2>3. StillHolds(t, L, K, V)
    <3>1. Spots \in SUBSET Spots /\ Under(0) \subseteq Spots
      BY <1>2, UnderIs
    <3>2. StillHolds(soFreeIndirectFileClusters(st, L[Host(0)], from), L, K, Spots \ Under(0))
      BY <1>1, <1>2, <3>1, FreeIndirectHolds
    <3>3. QED
      BY <1>1, <1>2, <1>5, <3>2
  <2>4. Loose(t, V)
    BY <2>2 DEF Loose
  <2>5. V \in SUBSET Spots /\ Under2 \subseteq V
    BY <1>3
  <2> HIDE DEF V
  <2>6. QED
    BY <1>1, <2>1, <2>3, <2>4, <2>5
<1>6. QED
  BY <1>4, <1>5

LEMMA SecondHolds ==
  ASSUME NEW st, IsWork(st), NEW L, NEW K, Leads(L, K), Hangs(L, st.store),
         st.ip.i2 = L[I2Spot], NEW V \in SUBSET Spots, StillHolds(st, L, K, V), Loose(st, V),
         Under2 \subseteq V, NEW from \in Int, NEW t,
         t \in {st, soFreeDoubleIndirectFileClusters(st, from)}, Fine(t)
  PROVE  \E W \in SUBSET Spots : StillHolds(t, L, K, W) /\ Loose(t, W)
<1>1. CASE t = st
  BY <1>1
<1>2. CASE t = soFreeDoubleIndirectFileClusters(st, from)
  <2>1. GivesBack(st, t) /\ (t.ok => t.ip.i2 = NullReference)
    BY <1>2, FreeDoubleFrees
  <2>2. t.ip.i2 = NullReference /\ t.ip.i1 \in {st.ip.i1, NullReference}
    BY <2>1 DEF GivesBack, Fine
  <2>3. StillHolds(t, L, K, V \ Under2)
    BY <1>2, FreeDoubleHolds
  <2>4. Loose(t, V \ Under2)
    BY <2>2 DEF Loose
  <2>5. V \ Under2 \in SUBSET Spots
    OBVIOUS
  <2>6. QED
    BY <2>3, <2>4, <2>5
<1>3. QED
  BY <1>1, <1>2

LEMMA FreeClustersHolds ==
  ASSUME NEW st, NEW L, NEW K, Begun(st, L, K), NEW ffcn \in Nat, NEW s, Fine(s),
         s = CASE ffcn < N_DIRECT -> FreeRest(FreeDirect(st))
               [] ffcn \in N_DIRECT .. FirstDouble - 1 ->
                    soFreeDoubleIndirectFileClusters(
                        soFreeIndirectFileClusters(st, st.ip.i1, ffcn - N_DIRECT), 0)
               [] OTHER ->
                    soFreeDoubleIndirectFileClusters(st, ffcn - N_DIRECT - ReferencesPerBlock)
  PROVE  \E V \in SUBSET Spots : StillHolds(s, L, K, V) /\ Loose(s, V)
<1>1. /\ IsWork(st) /\ Leads(L, K) /\ Hangs(L, st.store) /\ st.ip.i1 \in Reference
  BY StateTypes DEF Begun
<1>2. N_DIRECT \in Nat /\ ReferencesPerBlock \in Nat
  BY Sizes2
\* One after the other, whether or not there is a reason to go on.
<1>3. ASSUME NEW b, Begun(b, L, K), NEW from \in Int, NEW too \in Int, NEW t, NEW u, Fine(u),
             t \in {b, soFreeIndirectFileClusters(b, b.ip.i1, from)},
             u \in {t, soFreeDoubleIndirectFileClusters(t, too)}
      PROVE  \E V \in SUBSET Spots : StillHolds(u, L, K, V) /\ Loose(u, V)
  <2>1. IsWork(b) /\ b.ip.i1 \in Reference /\ Hangs(L, b.store)
    BY <1>3, StateTypes DEF Begun
  <2>2. GivesBack(b, t) /\ IsWork(t)
    <3>1. CASE t = b
      BY <2>1, <3>1, FreesSelf
    <3>2. CASE t = soFreeIndirectFileClusters(b, b.ip.i1, from)
      <4>1. GivesBack(b, t)
        BY <1>3, <2>1, <3>2, FreeIndirectFrees
      <4>2. QED
        BY <4>1 DEF GivesBack
    <3>3. QED
      BY <1>3, <3>1, <3>2
  <2>3. GivesBack(t, u)
    BY <1>3, <2>2, FreesSelf, FreeDoubleFrees
  <2>4. Fine(t)
    BY <1>3, <2>3, FreesFine
  <2>5. t.ip.i2 = L[I2Spot] /\ t.store = b.store
    BY <1>3, <2>2, <2>4, FirstHolds DEF GivesBack
  <2>6. PICK V \in SUBSET Spots : StillHolds(t, L, K, V) /\ Loose(t, V) /\ Under2 \subseteq V
    BY <1>3, <2>4, FirstHolds
  <2>7. Hangs(L, t.store)
    BY <2>1, <2>5
  <2>8. /\ u \in {t, soFreeDoubleIndirectFileClusters(t, too)} /\ Fine(u) /\ too \in Int
        /\ IsWork(t) /\ Leads(L, K) /\ Hangs(L, t.store) /\ t.ip.i2 = L[I2Spot]
        /\ StillHolds(t, L, K, V) /\ Loose(t, V) /\ Under2 \subseteq V
    BY <1>1, <1>3, <2>2, <2>5, <2>6, <2>7
  <2>9. \E W \in SUBSET Spots : StillHolds(u, L, K, W) /\ Loose(u, W)
    BY ONLY <2>8, V \in SUBSET Spots, SecondHolds
  <2>10. QED
    BY <2>9
<1>4. CASE ffcn < N_DIRECT
  <2>0. s = FreeRest(FreeDirect(st))
    <3>1. ~(ffcn \in N_DIRECT .. FirstDouble - 1)
      BY <1>2, <1>4
    <3>2. QED
      BY <1>4, <3>1, Zenon
  <2> DEFINE d == FreeDirect(st)
             t == IF d.total > 0 THEN soFreeIndirectFileClusters(d, d.ip.i1, 0) ELSE d
  <2>1. s = FreeRest(d)
    BY <2>0
  <2>2. GivesBack(st, d) /\ (Fine(d) => /\ d.sb = st.sb /\ d.total = st.total /\ d.ip.i1 = st.ip.i1
                                    /\ d.ip.i2 = st.ip.i2)
    BY <1>1, FreeDirectFrees
  <2> HIDE DEF d
  <2>3. IsWork(d) /\ d.store = st.store
    BY <2>2 DEF GivesBack
  <2>4. GivesBack(d, s)
    BY <2>1, <2>3, FreeRestFrees
  <2>5. Fine(d) /\ Fine(st)
    BY <2>2, <2>4, FreesFine
  <2>6. StillHolds(d, L, K, Spots)
    BY <2>2, <2>5, HoldsKept DEF Begun
  <2>7. Begun(d, L, K)
    BY <2>2, <2>3, <2>5, <2>6 DEF Begun
  <2>8. s = IF t.total > 0 THEN soFreeDoubleIndirectFileClusters(t, 0) ELSE t
    BY <2>1 DEF FreeRest
  <2>9. t \in {d, soFreeIndirectFileClusters(d, d.ip.i1, 0)} /\ 0 \in Int
    BY DEF t
  <2> HIDE DEF t
  <2>10. s \in {t, soFreeDoubleIndirectFileClusters(t, 0)}
    BY <2>8
  <2>11. QED
    BY <1>3, <2>7, <2>9, <2>10
<1>5. CASE ffcn \in N_DIRECT .. FirstDouble - 1
  <2> DEFINE from == ffcn - N_DIRECT
             t == soFreeIndirectFileClusters(st, st.ip.i1, from)
  <2>1. s = soFreeDoubleIndirectFileClusters(t, 0) /\ from \in Int /\ 0 \in Int
    BY <1>2, <1>5
  <2> HIDE DEF from
  <2>2. t \in {st, soFreeIndirectFileClusters(st, st.ip.i1, from)}
    BY DEF t
  <2> HIDE DEF t
  <2>3. s \in {t, soFreeDoubleIndirectFileClusters(t, 0)}
    BY <2>1
  <2>4. QED
    BY <1>3, <2>1, <2>2, <2>3
<1>6. CASE ~(ffcn < N_DIRECT) /\ ~(ffcn \in N_DIRECT .. FirstDouble - 1)
  <2> DEFINE too == ffcn - N_DIRECT - ReferencesPerBlock
  <2>1. s = soFreeDoubleIndirectFileClusters(st, too) /\ too \in Int /\ 0 \in Int
    BY <1>2, <1>6
  <2> HIDE DEF too
  <2>2. s \in {st, soFreeDoubleIndirectFileClusters(st, too)}
    BY <2>1
  <2>3. st \in {st, soFreeIndirectFileClusters(st, st.ip.i1, 0)}
    OBVIOUS
  <2>4. QED
    BY <1>3, <2>1, <2>2, <2>3
<1>7. QED
  BY <1>4, <1>5, <1>6

\* References of an inode are cleared, the clusters are not written.
Cleared(ip, was) ==
    /\ \A n \in Direct : ip.d[n] \in {was.d[n], NullReference}
    /\ ip.i1 \in {was.i1, NullReference} /\ ip.i2 \in {was.i2, NullReference}

LEMMA ClearedLeads ==
  ASSUME NEW ip, NEW was, NEW sto, Cleared(ip, was)
  PROVE  /\ \A p \in Spots : LeadOf(ip, sto, p) \in {LeadOf(was, sto, p), NullReference}
         /\ ip.i1 = NullReference => \A p \in Under(0) : LeadOf(ip, sto, p) = NullReference
         /\ ip.i2 = NullReference => \A p \in Under2 : LeadOf(ip, sto, p) = NullReference
<1> DEFINE new(p) == LeadOf(ip, sto, p)
           old(p) == LeadOf(was, sto, p)
<1>1. \A n \in Refs : Tab(sto, NullReference)[n] = NullReference
  BY NoTable
<1>2. /\ \A n \in Direct : new(DSpot(n)) = ip.d[n] /\ old(DSpot(n)) = was.d[n]
      /\ new(I1Spot) = ip.i1 /\ old(I1Spot) = was.i1
      /\ new(I2Spot) = ip.i2 /\ old(I2Spot) = was.i2
      /\ \A n \in Refs : new(TSpot(n)) = Tab(sto, ip.i2)[n] /\ old(TSpot(n)) = Tab(sto, was.i2)[n]
  BY DEF LeadOf, DSpot, I1Spot, I2Spot, TSpot
<1>3. \A a \in AllParts, b \in Refs : /\ new(RSpot(a, b)) = Tab(sto, new(Host(a)))[b]
                                      /\ old(RSpot(a, b)) = Tab(sto, old(Host(a)))[b]
  BY LeadOfTable
<1>4. \A a \in AllParts : Host(a) = I1Spot \/ (a # 0 /\ \E n \in Refs : Host(a) = TSpot(n))
  <2>1. ASSUME NEW a \in AllParts, a # 0
        PROVE  a - 1 \in Refs
    BY <2>1, Sizes2 DEF AllParts, Refs
  <2>2. QED
    BY <2>1 DEF Host
<1>5. \A a \in AllParts \ {0} : \E n \in Refs : Host(a) = TSpot(n)
  <2>1. ASSUME NEW a \in AllParts \ {0}
        PROVE  a - 1 \in Refs
    BY Sizes2 DEF AllParts, Refs
  <2>2. QED
    BY <2>1 DEF Host
<1>6. 0 \in AllParts /\ Host(0) = I1Spot
  BY Sizes2 DEF AllParts, Host
<1> HIDE DEF new, old
<1>7. ip.i2 = NullReference => \A n \in Refs : new(TSpot(n)) = NullReference
  BY <1>1, <1>2
<1>8. \A n \in Refs : new(TSpot(n)) \in {old(TSpot(n)), NullReference}
  <2>1. CASE ip.i2 = was.i2
    BY <1>2, <2>1
  <2>2. CASE ip.i2 = NullReference
    BY <1>7, <2>2
  <2>3. QED
    BY <2>1, <2>2 DEF Cleared
<1>9. \A a \in AllParts : new(Host(a)) \in {old(Host(a)), NullReference}
  <2>1. new(I1Spot) \in {old(I1Spot), NullReference}
    BY <1>2 DEF Cleared
  <2>2. QED
    BY <2>1, <1>4, <1>8
<1>10. \A a \in AllParts : new(Host(a)) = NullReference
                              => \A b \in Refs : new(RSpot(a, b)) = NullReference
  BY <1>1, <1>3
<1>11. \A a \in AllParts, b \in Refs : new(RSpot(a, b)) \in {old(RSpot(a, b)), NullReference}
  <2> TAKE a \in AllParts, b \in Refs
  <2>1. CASE new(Host(a)) = old(Host(a))
    BY <1>3, <2>1
  <2>2. CASE new(Host(a)) = NullReference
    BY <1>10, <2>2
  <2>3. QED
    BY <1>9, <2>1, <2>2
<1>12. \A p \in Spots : new(p) \in {old(p), NullReference}
  <2> TAKE p \in Spots
  <2>1. CASE \E n \in Direct : p = DSpot(n)
    BY <1>2, <2>1 DEF Cleared
  <2>2. CASE p = I1Spot
    BY <1>2, <2>2 DEF Cleared
  <2>3. CASE p = I2Spot
    BY <1>2, <2>3 DEF Cleared
  <2>4. CASE \E n \in Refs : p = TSpot(n)
    BY <1>8, <2>4
  <2>5. CASE \E a \in AllParts, b \in Refs : p = RSpot(a, b)
    BY <1>11, <2>5
  <2>6. QED
    BY <2>1, <2>2, <2>3, <2>4, <2>5, SpotCases
<1>13. \A a \in AllParts : new(Host(a)) = NullReference
                              => \A p \in Under(a) : new(p) = NullReference
  BY <1>10 DEF Under
<1>14. ip.i1 = NullReference => \A p \in Under(0) : new(p) = NullReference
  BY <1>2, <1>6, <1>13
<1>15. ip.i2 = NullReference => \A p \in Under2 : new(p) = NullReference
  <2> SUFFICES ASSUME ip.i2 = NullReference PROVE \A p \in Under2 : new(p) = NullReference
    OBVIOUS
  <2>1. \A a \in AllParts \ {0} : new(Host(a)) = NullReference
    BY <1>5, <1>7
  <2>2. \A a \in AllParts \ {0} : \A p \in Under(a) : new(p) = NullReference
    BY <2>1, <1>13
  <2>3. new(I2Spot) = NullReference
    BY <1>2
  <2>4. QED
    BY <2>2, <2>3 DEF Under2
<1>16. QED
  BY <1>12, <1>14, <1>15 DEF new, old

\* What an operation on an inode begins its release with.
LEMMA BegunIs ==
  ASSUME NEW st, IsWork(st), NEW ino \in [Files -> InodeParts], NEW wr, NEW f \in Files,
         SoundAt(st.sb, ino, st.store, wr), st.ip = ino[f], st.total = ino[f].clucnt,
         NEW L, L = [p \in Spots |-> LeadOf(ino[f], st.store, p)],
         NEW K, K = {c \in Reference : c # NullReference /\ \E g \in Files, q \in Spots :
                                          g # f /\ c = LeadOf(ino[g], st.store, q)}
  PROVE  Begun(st, L, K)
<1> DEFINE old(p) == LeadOf(ino[f], st.store, p)
<1>1. \A p \in Spots : L[p] = old(p) /\ old(p) \in Reference
  BY StateTypes, LeadType
<1>2. \A p, q \in Spots : old(p) = old(q) /\ old(p) # NullReference => p = q
  BY DEF SoundAt
<1>3. \A p \in Spots : old(p) # NullReference => old(p) \notin K
  BY DEF SoundAt
<1>4. L \in [Spots -> Reference]
  BY <1>1
<1> HIDE DEF old
<1>5. Leads(L, K)
  BY <1>1, <1>2, <1>3, <1>4 DEF Leads
<1>6. Hangs(L, st.store)
  <2>1. /\ \A a \in AllParts, b \in Refs : RSpot(a, b) \in Spots
        /\ \A a \in AllParts : Host(a) \in Spots
        /\ \A n \in Refs : TSpot(n) \in Spots
        /\ I2Spot \in Spots
    BY SpotsIn
  <2>2. \A a \in AllParts, b \in Refs : old(RSpot(a, b)) = Tab(st.store, old(Host(a)))[b]
    BY LeadOfTable DEF old
  <2>3. \A n \in Refs : old(TSpot(n)) = Tab(st.store, old(I2Spot))[n]
    BY DEF old, LeadOf, TSpot, I2Spot
  <2>4. \A a \in AllParts, b \in Refs : L[RSpot(a, b)] = Tab(st.store, L[Host(a)])[b]
    BY <1>1, <2>1, <2>2
  <2>5. \A n \in Refs : L[TSpot(n)] = Tab(st.store, L[I2Spot])[n]
    BY <1>1, <2>1, <2>3
  <2>6. QED
    BY <2>4, <2>5 DEF Hangs
<1>7. st.ip.i1 = L[I1Spot] /\ st.ip.i2 = L[I2Spot]
  <2>1. old(I1Spot) = st.ip.i1 /\ old(I2Spot) = st.ip.i2
    BY DEF old, LeadOf, I1Spot, I2Spot
  <2>2. QED
    BY <1>1, <2>1, SpotsIn
<1>8. StillHolds(st, L, K, Spots)
  <2>1. Still(L, Spots) = Occupied(ino[f], st.store)
    BY <1>1 DEF Still, Occupied, old
  <2>2. st.total >= Cardinality(Still(L, Spots))
    BY <2>1 DEF SoundAt
  <2>3. \A p \in Spots : L[p] \notin FreeSet(st.sb)
    BY <1>1 DEF old, SoundAt
  <2>4. \A c \in K : c \notin FreeSet(st.sb)
    BY DEF SoundAt
  <2>5. QED
    BY <2>2, <2>3, <2>4 DEF StillHolds, SoundAt
<1>9. QED
  BY <1>5, <1>6, <1>7, <1>8 DEF Begun

\* What a release ends with.
Ends(st, s, L, K, f, ip, wr, wr1) ==
    /\ GivesBack(st, s) /\ Fine(s)
    /\ \E V \in SUBSET Spots : StillHolds(s, L, K, V) /\ Loose(s, V)
    /\ ip.d = s.ip.d /\ ip.i1 = s.ip.i1 /\ ip.i2 = s.ip.i2 /\ ip.clucnt = s.total
    /\ \A w \in wr1 : /\ w \in wr /\ w[1] \in Files /\ w[2] \in FileClusterNumbers
                      /\ w[1] = f => LeadOf(ip, st.store, SpotOf(w[2])) # NullReference

LEMMA FreeChanges ==
  ASSUME NEW st, IsWork(st), NEW ino \in [Files -> InodeParts], NEW wr, NEW f \in Files,
         SoundAt(st.sb, ino, st.store, wr), st.ip = ino[f], st.total = ino[f].clucnt,
         NEW L, L = [p \in Spots |-> LeadOf(ino[f], st.store, p)],
         NEW K, K = {c \in Reference : c # NullReference /\ \E g \in Files, q \in Spots :
                                          g # f /\ c = LeadOf(ino[g], st.store, q)},
         NEW s, NEW ip \in InodeParts, NEW wr1, Ends(st, s, L, K, f, ip, wr, wr1)
  PROVE  Changes(st.sb, ino, st.store, wr, f, s.sb, ip, st.store, wr1)
<1> DEFINE old(p) == LeadOf(ino[f], st.store, p)
           new(p) == LeadOf(ip, st.store, p)
<1>1. GivesBack(st, s) /\ Fine(s) /\ ip.clucnt = s.total
  BY DEF Ends
<1>2. PICK V \in SUBSET Spots : StillHolds(s, L, K, V) /\ Loose(s, V)
  BY DEF Ends
<1>3. Cleared(ip, ino[f])
  BY <1>1 DEF GivesBack, Ends, Cleared
<1>4. /\ \A p \in Spots : new(p) \in {old(p), NullReference}
      /\ ip.i1 = NullReference => \A p \in Under(0) : new(p) = NullReference
      /\ ip.i2 = NullReference => \A p \in Under2 : new(p) = NullReference
  BY <1>3, ClearedLeads
<1>5. \A p \in Spots : L[p] = old(p)
  OBVIOUS
<1> HIDE DEF old, new
<1>6. \A p \in Spots : new(p) # NullReference => p \in V /\ new(p) = L[p] /\ new(p) = old(p)
  <2>1. \A p \in Spots : p \notin V => new(p) = NullReference
    BY <1>2, <1>4 DEF Loose, Ends
  <2>2. QED
    BY <1>4, <1>5, <2>1
<1>7. IsWork(s) /\ IsSb(s.sb) /\ IsSb(st.sb)
  BY <1>1, StateTypes DEF GivesBack
<1>8. /\ PoolOK(s.sb)
      /\ \A p \in V : L[p] \notin FreeSet(s.sb)
      /\ \A c \in K : c \notin FreeSet(s.sb)
  BY <1>1, <1>2 DEF StillHolds
<1>9. s.total >= Cardinality(Still(L, V))
  BY <1>1, <1>2 DEF StillHolds
<1>10. TreeOK(ip, st.store)
  <2>1. TreeOK(ino[f], st.store)
    BY DEF SoundAt
  <2>2. \A p \in Tops : new(p) # NullReference => old(p) = new(p)
    BY <1>6, SpotsIn
  <2>3. QED
    BY <2>1, <2>2 DEF TreeOK, old, new
<1>11. \A p, q \in Spots : new(p) = new(q) /\ new(p) # NullReference => p = q
  <2>1. \A p, q \in Spots : old(p) = old(q) /\ old(p) # NullReference => p = q
    BY DEF old, SoundAt
  <2>2. QED
    BY <1>6, <2>1
<1>12. NullReference \notin FreeSet(s.sb)
  BY <1>7, NullNotFree
<1>13. \A p \in Spots : new(p) \notin FreeSet(s.sb)
  BY <1>6, <1>8, <1>12
<1>14. \A g \in Files : \A p \in Spots :
          g # f => LeadOf(ino[g], st.store, p) \notin FreeSet(s.sb)
  <2> TAKE g \in Files
  <2> TAKE p \in Spots
  <2>1. LeadOf(ino[g], st.store, p) \in Reference
    <3>1. st.store \in Stores /\ ino[g] \in InodeParts
      BY StateTypes
    <3>2. QED
      BY <3>1, LeadType
  <2>2. g # f /\ LeadOf(ino[g], st.store, p) # NullReference => LeadOf(ino[g], st.store, p) \in K
    BY <2>1
  <2>3. QED
    BY <1>8, <1>12, <2>2
<1>15. ip.clucnt >= Cardinality(Occupied(ip, st.store))
  <2>1. Occupied(ip, st.store) \subseteq Still(L, V)
    BY <1>6 DEF Occupied, Still, new
  <2>2. IsFiniteSet(Still(L, V)) /\ Cardinality(Still(L, V)) \in Nat
    BY StillFinite
  <2>3. /\ IsFiniteSet(Occupied(ip, st.store))
        /\ Cardinality(Occupied(ip, st.store)) <= Cardinality(Still(L, V))
    BY <2>1, <2>2, FS_Subset
  <2>4. Cardinality(Occupied(ip, st.store)) \in Nat /\ s.total \in Int
    BY <1>7, StateTypes, OccupiedFinite
  <2>5. QED
    BY <1>1, <1>9, <2>2, <2>3, <2>4
<1>16. \A w \in wr1 : /\ w[1] \in Files /\ w[2] \in FileClusterNumbers
                      /\ w[1] = f => Holding(With(ino, f, ip), st.store, w)
                      /\ w[1] # f => w \in wr
  <2> TAKE w \in wr1
  <2>1. w \in wr /\ w[1] \in Files /\ w[2] \in FileClusterNumbers
        /\ (w[1] = f => new(SpotOf(w[2])) # NullReference)
    BY DEF Ends, new
  <2>2. Holding(ino, st.store, w)
    BY <2>1 DEF SoundAt
  <2>3. SpotOf(w[2]) \in Spots
    BY <2>1, SpotOfIs, SpotsIn
  <2>4. With(ino, f, ip)[f] = ip
    BY AtSame
  <2>5. w[1] = f => Holding(With(ino, f, ip), st.store, w)
    <3>1. ASSUME w[1] = f
          PROVE  LeadOf(With(ino, f, ip)[w[1]], st.store, SpotOf(w[2]))
                    = LeadOf(ino[w[1]], st.store, SpotOf(w[2]))
      BY <1>6, <2>1, <2>3, <2>4, <3>1 DEF new, old
    <3>2. QED
      BY <2>2, <3>1 DEF Holding
  <2>6. QED
    BY <2>1, <2>5
<1>17. \A p \in Spots : \/ new(p) \in {NullReference, old(p)}
                        \/ new(p) \in FreeSet(st.sb)
  BY <1>4
<1>18. QED
  BY <1>8, <1>10, <1>11, <1>13, <1>14, <1>15, <1>16, <1>17 DEF Changes, old, new

LEMMA FreeKeeps ==
  ASSUME CountsInv, SoundInv, NEW f \in Files, NEW ffcn \in FileClusterNumbers,
         FreeFileClusters(f, ffcn)
  PROVE  SoundInv'
<1> SUFFICES ASSUME Undamaged' PROVE SoundAt(sb', inode', store', written')
  BY DEF SoundInv
<1> DEFINE st == State(f)
           r == soFreeFileClusters(st, ffcn)
           s == CASE ffcn < N_DIRECT -> FreeRest(FreeDirect(st))
                  [] ffcn \in N_DIRECT .. FirstDouble - 1 ->
                       soFreeDoubleIndirectFileClusters(
                           soFreeIndirectFileClusters(st, st.ip.i1, ffcn - N_DIRECT), 0)
                  [] OTHER ->
                       soFreeDoubleIndirectFileClusters(st, ffcn - N_DIRECT - ReferencesPerBlock)
           L == [p \in Spots |-> LeadOf(inode[f], st.store, p)]
           K == {c \in Reference : c # NullReference /\ \E g \in Files, q \in Spots :
                                       g # f /\ c = LeadOf(inode[g], st.store, q)}
<1>1. /\ IsWork(st) /\ st.sb = sb /\ st.ip = inode[f] /\ st.store = store
      /\ st.total = inode[f].clucnt /\ ffcn \in Nat
  BY StateIs DEF FileClusterNumbers
<1>2. Done(f, r) /\ written' = {w \in written : w[1] # f \/ w[2] \in Reachable(f)'}
  BY DEF FreeFileClusters
<1> HIDE DEF st
<1>3. GivesBack(st, s) /\ r = SetCount(s)
  <2>1. s = s
    OBVIOUS
  <2>2. QED
    BY <1>1, <2>1, FreeClustersIs
<1>4. /\ IsWork(r) /\ r.sb = s.sb /\ r.store = s.store /\ r.ok = s.ok
      /\ r.ip.d = s.ip.d /\ r.ip.i1 = s.ip.i1 /\ r.ip.i2 = s.ip.i2
      /\ r.ip.clucnt = IF s.ok THEN s.total ELSE s.ip.clucnt
  <2>1. IsWork(s)
    BY <1>3 DEF GivesBack
  <2> HIDE DEF s, r
  <2>2. QED
    BY <1>3, <2>1, SetCountIs
<1>5. s = CASE ffcn < N_DIRECT -> FreeRest(FreeDirect(st))
            [] ffcn \in N_DIRECT .. FirstDouble - 1 ->
                 soFreeDoubleIndirectFileClusters(
                     soFreeIndirectFileClusters(st, st.ip.i1, ffcn - N_DIRECT), 0)
            [] OTHER ->
                 soFreeDoubleIndirectFileClusters(st, ffcn - N_DIRECT - ReferencesPerBlock)
  OBVIOUS
<1>6. L = [p \in Spots |-> LeadOf(inode[f], st.store, p)]
  OBVIOUS
<1>7. K = {c \in Reference : c # NullReference /\ \E g \in Files, q \in Spots :
                                g # f /\ c = LeadOf(inode[g], st.store, q)}
  OBVIOUS
<1> HIDE DEF r, s, L, K
<1>8. sb.damage \subseteq r.sb.damage /\ s.store = st.store
  BY <1>1, <1>3, <1>4 DEF GivesBack
<1>9. /\ Undamaged /\ Fine(r) /\ sb' = r.sb /\ inode' = With(inode, f, r.ip) /\ store' = r.store
  BY <1>2, <1>4, <1>8, DoneUndamaged
<1>10. Fine(s) /\ r.ip.clucnt = s.total
  BY <1>4, <1>9 DEF Fine
<1>11. SoundAt(st.sb, inode, st.store, written) /\ inode \in [Files -> InodeParts]
  BY <1>1, <1>9 DEF SoundInv, CountsInv
<1>12. Begun(st, L, K)
  BY <1>1, <1>6, <1>7, <1>11, BegunIs
<1>13. \E V \in SUBSET Spots : StillHolds(s, L, K, V) /\ Loose(s, V)
  BY <1>1, <1>5, <1>10, <1>12, FreeClustersHolds
<1>14. \A w \in written' : /\ w \in written /\ w[1] \in Files /\ w[2] \in FileClusterNumbers
                           /\ w[1] = f => LeadOf(r.ip, st.store, SpotOf(w[2])) # NullReference
  <2> SUFFICES ASSUME NEW w \in written'
               PROVE  /\ w \in written /\ w[1] \in Files /\ w[2] \in FileClusterNumbers
                      /\ w[1] = f => LeadOf(r.ip, st.store, SpotOf(w[2])) # NullReference
    OBVIOUS
  <2>1. w \in written /\ (w[1] = f => w[2] \in Reachable(f)')
    BY <1>2
  <2>2. w[1] \in Files /\ w[2] \in FileClusterNumbers
    BY <2>1 DEF CountsInv
  <2>3. inode'[f] = r.ip /\ r.ip \in InodeParts /\ st.store \in Stores /\ store' = st.store
    <3>1. r.ip \in InodeParts /\ st.store \in Stores
      BY <1>1, <1>4, StateTypes
    <3>2. With(inode, f, r.ip)[f] = r.ip
      BY <1>11, <3>1, AtSame
    <3>3. QED
      BY <1>4, <1>8, <1>9, <3>1, <3>2
  <2>4. w[1] = f => /\ ~GetThrows(r.ip, st.store, w[2])
                    /\ soGetFileCluster(r.ip, st.store, w[2]) # NullReference
    BY <2>1, <2>3 DEF Reachable
  <2>5. TreeOK(r.ip, st.store)
    <3>1. Cleared(r.ip, inode[f])
      BY <1>1, <1>3, <1>4 DEF GivesBack, Cleared
    <3>2. \A p \in Spots : LeadOf(r.ip, st.store, p)
                              \in {LeadOf(inode[f], st.store, p), NullReference}
      BY <3>1, ClearedLeads
    <3>3. TreeOK(inode[f], st.store)
      BY <1>11 DEF SoundAt
    <3>4. QED
      BY <3>2, <3>3, SpotsIn DEF TreeOK
  <2>6. ~GetThrows(r.ip, st.store, w[2])
           => soGetFileCluster(r.ip, st.store, w[2]) = LeadOf(r.ip, st.store, SpotOf(w[2]))
    BY <2>2, <2>3, <2>5, GetIs
  <2>7. QED
    BY <2>1, <2>2, <2>4, <2>6
<1>15. Ends(st, s, L, K, f, r.ip, written, written')
  BY <1>3, <1>4, <1>10, <1>13, <1>14 DEF Ends
<1>16. r.ip \in InodeParts /\ st.store \in Stores
  BY <1>1, <1>4, StateTypes
<1>17. Changes(st.sb, inode, st.store, written, f, s.sb, r.ip, st.store, written')
  BY <1>1, <1>6, <1>7, <1>11, <1>15, <1>16, FreeChanges
<1>18. SoundAt(s.sb, With(inode, f, r.ip), st.store, written')
  BY <1>11, <1>16, <1>17, OneFile
<1>19. QED
  BY <1>4, <1>8, <1>9, <1>18

\* The free clusters become no more, and nothing else changes.
LEMMA SoundLess ==
  ASSUME NEW s0, NEW s1, NEW ino, NEW sto, NEW wr, SoundAt(s0, ino, sto, wr),
         PoolOK(s1), FreeSet(s1) \subseteq FreeSet(s0)
  PROVE  SoundAt(s1, ino, sto, wr)
BY DEF SoundAt

LEMMA DepleteNothing ==
  ASSUME NEW s, IsSb(s), PoolOK(s), soDeplete(s).damage = {}
  PROVE  PoolOK(soDeplete(s)) /\ FreeSet(soDeplete(s)) \subseteq FreeSet(s)
<1> DEFINE r == soDeplete(s)
<1>1. /\ IsSb(r) /\ r.icache.idx = 0 /\ s.icache.idx = 0 /\ r.map = s.map /\ r.rcache = s.rcache
  BY DepleteTypes
<1> HIDE DEF r
<1>2. Given(r) = {} /\ Given(s) = {} /\ Live(r) = Live(s)
  <2>1. \A j \in Slots : ~(j < 0)
    BY Sizes1 DEF Slots
  <2>2. Given(r) = {}
    BY <1>1, <2>1 DEF Given
  <2>3. Given(s) = {}
    BY <1>1, <2>1 DEF Given
  <2>4. Live(r) = Live(s)
    BY <1>1 DEF Live
  <2>5. QED
    BY <2>2, <2>3, <2>4
<1>3. FreeSet(r) = FreeSet(s)
  BY <1>1, <1>2 DEF FreeSet
<1>4. PoolOK(r)
  BY <1>1, <1>2 DEF PoolOK
<1>5. QED
  BY <1>3, <1>4 DEF r

LEMMA CacheKeeps ==
  ASSUME CountsInv, SoundInv, Replenish \/ Deplete, written' = written
  PROVE  SoundInv'
<1> SUFFICES ASSUME Undamaged' PROVE SoundAt(sb', inode', store', written')
  BY DEF SoundInv
<1>1. inode' = inode /\ store' = store /\ failed' = failed
  BY DEF Replenish, Deplete
<1>2. sb'.damage = {} /\ sb.damage \subseteq sb'.damage
  BY CacheCounts DEF Undamaged
<1>3. Undamaged /\ SoundAt(sb, inode, store, written)
  BY <1>1, <1>2 DEF Undamaged, SoundInv
<1>4. IsSb(sb) /\ PoolOK(sb)
  BY <1>3 DEF CountsInv, SoundAt
<1>5. PoolOK(sb') /\ FreeSet(sb') \subseteq FreeSet(sb)
  <2>1. CASE Replenish
    BY <1>4, <2>1, PoolReplenish DEF Replenish
  <2>2. CASE Deplete
    BY <1>2, <1>4, <2>2, DepleteNothing DEF Deplete
  <2>3. QED
    BY <2>1, <2>2
<1>6. SoundAt(sb', inode, store, written)
  BY <1>3, <1>5, SoundLess
<1>7. QED
  BY <1>1, <1>6

LEMMA OperationKeeps ==
  ASSUME CountsInv, SoundInv, Operation
  PROVE  SoundInv'
<1>1. CASE Replenish \/ Deplete
  <2>1. written' = written
    BY <1>1 DEF Replenish, Deplete
  <2>2. QED
    BY <1>1, <2>1, CacheKeeps
<1>2. CASE \E f \in Files, fcn \in Positions : \/ AllocFileCluster(f, fcn)
                                               \/ FreeFileClusters(f, fcn)
                                               \/ WriteFileCluster(f, fcn)
  <2>1. PICK f \in Files, fcn \in Positions : \/ AllocFileCluster(f, fcn)
                                              \/ FreeFileClusters(f, fcn)
                                              \/ WriteFileCluster(f, fcn)
    BY <1>2
  <2>2. fcn \in FileClusterNumbers
    BY PositionsAssumption
  <2>3. QED
    BY <2>1, <2>2, AllocKeeps, FreeKeeps, WriteKeeps
<1>3. QED
  BY <1>1, <1>2 DEF Operation

LEMMA InitSound ==
  ASSUME Init
  PROVE  SoundInv
<1>1. /\ IsSb(sb) /\ PoolOK(sb)
  BY FirstSb DEF Init
<1>2. inode = [f \in Files |-> NewInode] /\ written = {}
  BY DEF Init
<1>3. ASSUME NEW p \in Spots
      PROVE  LeadOf(NewInode, store, p) = NullReference
  <2> DEFINE ip == NewInode
             new(q) == LeadOf(ip, store, q)
  <2>1. /\ \A n \in Direct : ip.d[n] = NullReference
        /\ ip.i1 = NullReference /\ ip.i2 = NullReference
    BY DEF NewInode, Direct
  <2> HIDE DEF ip
  <2>2. /\ \A n \in Direct : new(DSpot(n)) = ip.d[n]
        /\ new(I1Spot) = ip.i1
        /\ new(I2Spot) = ip.i2
        /\ \A n \in Refs : new(TSpot(n)) = Tab(store, ip.i2)[n]
    BY DEF LeadOf, DSpot, I1Spot, I2Spot, TSpot
  <2>3. \A a \in AllParts, b \in Refs : new(RSpot(a, b)) = Tab(store, new(Host(a)))[b]
    BY LeadOfTable
  <2> HIDE DEF new
  <2>4. \A n \in Refs : Tab(store, NullReference)[n] = NullReference
    BY NoTable
  <2>5. \A n \in Refs : new(TSpot(n)) = NullReference
    BY <2>1, <2>2, <2>4
  <2>6. \A a \in AllParts : new(Host(a)) = NullReference
    <3> TAKE a \in AllParts
    <3>1. a = 0 \/ a - 1 \in Refs
      BY Sizes2 DEF AllParts, Refs
    <3>2. QED
      BY <2>1, <2>2, <2>5, <3>1 DEF Host
  <2>7. \A a \in AllParts, b \in Refs : new(RSpot(a, b)) = NullReference
    BY <2>3, <2>4, <2>6
  <2>8. new(p) = NullReference
    BY <2>1, <2>2, <2>5, <2>7, SpotCases
  <2>9. QED
    BY <2>8 DEF new, ip
<1>4. \A f \in Files : inode[f] = NewInode
  BY <1>2
<1>5. \A f \in Files : \A p \in Spots : LeadOf(inode[f], store, p) = NullReference
  BY <1>3, <1>4
<1>6. \A f \in Files : TreeOK(inode[f], store)
  BY <1>5, SpotsIn DEF TreeOK
<1>7. NullReference \notin FreeSet(sb)
  BY <1>1, NullNotFree
<1>8. \A f \in Files : inode[f].clucnt >= Cardinality(Occupied(inode[f], store))
  <2> TAKE f \in Files
  <2>1. Occupied(inode[f], store) = {}
    BY <1>5 DEF Occupied
  <2>2. inode[f].clucnt = 0
    BY <1>4 DEF NewInode
  <2>3. QED
    BY <2>1, <2>2, FS_EmptySet
<1>9. QED
  BY <1>1, <1>2, <1>5, <1>6, <1>7, <1>8 DEF SoundInv, SoundAt

-----------------------------------------------------------------------------
(***************************************************************************)
(* What the volume promises, from the places and the free clusters.        *)
(***************************************************************************)
UsePlace(f, p, c) == <<f, <<p[1], p[2], p[3], c>>>>

LEMMA UseIs ==
  ASSUME CountsInv, NEW f \in Files, NEW x \in Places(f)
  PROVE  \E p \in Spots : /\ x = UsePlace(f, p, LeadOf(inode[f], store, p))
                          /\ LeadOf(inode[f], store, p) # NullReference
<1> DEFINE ip == inode[f]
           led(p) == LeadOf(ip, store, p)
           tab(cn) == IF Exists(cn) THEN RefsIn(store[cn]) ELSE NullRefs
<1>1. \A cn : tab(cn) = Tab(store, cn)
  BY DEF Exists, Tab
<1> HIDE DEF tab
<1>2. PICK z : /\ x = <<f, z>> /\ z[4] # NullReference
               /\ \/ \E n \in DOMAIN ip.d : z = <<"d", 0, n, ip.d[n]>>
                  \/ z = <<"i1", 0, 0, ip.i1>>
                  \/ z = <<"i2", 0, 0, ip.i2>>
                  \/ \E n \in Refs : z = <<"r", 0, n, tab(ip.i1)[n]>>
                  \/ \E n \in Refs : z = <<"t", 0, n, tab(ip.i2)[n]>>
                  \/ \E n, m \in Refs : z = <<"r", n + 1, m, tab(tab(ip.i2)[n])[m]>>
  BY DEF Places, tab
<1>3. DOMAIN ip.d = Direct
  BY DEF CountsInv, InodeParts
<1> SUFFICES \E p \in Spots : z = <<p[1], p[2], p[3], led(p)>>
  BY <1>2 DEF UsePlace
<1>4. ASSUME NEW n \in Direct, z = <<"d", 0, n, ip.d[n]>>
      PROVE  \E p \in Spots : z = <<p[1], p[2], p[3], led(p)>>
  <2>1. DSpot(n) \in Spots
    BY SpotsIn
  <2>2. led(DSpot(n)) = ip.d[n]
    BY DEF LeadOf, DSpot
  <2>3. z = <<DSpot(n)[1], DSpot(n)[2], DSpot(n)[3], led(DSpot(n))>>
    BY <1>4, <2>2 DEF DSpot
  <2>4. QED
    BY <2>1, <2>3
<1>5. ASSUME z = <<"i1", 0, 0, ip.i1>>
      PROVE  \E p \in Spots : z = <<p[1], p[2], p[3], led(p)>>
  <2>1. I1Spot \in Spots
    BY SpotsIn
  <2>2. led(I1Spot) = ip.i1
    BY DEF LeadOf, I1Spot
  <2>3. z = <<I1Spot[1], I1Spot[2], I1Spot[3], led(I1Spot)>>
    BY <1>5, <2>2 DEF I1Spot
  <2>4. QED
    BY <2>1, <2>3
<1>6. ASSUME z = <<"i2", 0, 0, ip.i2>>
      PROVE  \E p \in Spots : z = <<p[1], p[2], p[3], led(p)>>
  <2>1. I2Spot \in Spots
    BY SpotsIn
  <2>2. led(I2Spot) = ip.i2
    BY DEF LeadOf, I2Spot
  <2>3. z = <<I2Spot[1], I2Spot[2], I2Spot[3], led(I2Spot)>>
    BY <1>6, <2>2 DEF I2Spot
  <2>4. QED
    BY <2>1, <2>3
<1>7. ASSUME NEW n \in Refs, z = <<"t", 0, n, tab(ip.i2)[n]>>
      PROVE  \E p \in Spots : z = <<p[1], p[2], p[3], led(p)>>
  <2>1. TSpot(n) \in Spots
    BY SpotsIn
  <2>2. led(TSpot(n)) = tab(ip.i2)[n]
    BY <1>1 DEF LeadOf, TSpot
  <2>3. z = <<TSpot(n)[1], TSpot(n)[2], TSpot(n)[3], led(TSpot(n))>>
    BY <1>7, <2>2 DEF TSpot
  <2>4. QED
    BY <2>1, <2>3
<1>8. ASSUME NEW a \in AllParts, NEW b \in Refs, z = <<"r", a, b, Tab(store, Base(ip, store, a))[b]>>
      PROVE  \E p \in Spots : z = <<p[1], p[2], p[3], led(p)>>
  <2>1. RSpot(a, b) \in Spots
    BY SpotsIn
  <2>2. led(RSpot(a, b)) = Tab(store, Base(ip, store, a))[b]
    BY DEF LeadOf, RSpot
  <2>3. z = <<RSpot(a, b)[1], RSpot(a, b)[2], RSpot(a, b)[3], led(RSpot(a, b))>>
    BY <1>8, <2>2 DEF RSpot
  <2>4. QED
    BY <2>1, <2>3
<1>9. ASSUME NEW n \in Refs, z = <<"r", 0, n, tab(ip.i1)[n]>>
      PROVE  \E p \in Spots : z = <<p[1], p[2], p[3], led(p)>>
  <2>1. 0 \in AllParts /\ Base(ip, store, 0) = ip.i1
    BY Sizes2 DEF AllParts, Base
  <2>2. QED
    BY <1>1, <1>8, <1>9, <2>1
<1>10. ASSUME NEW n \in Refs, NEW m \in Refs, z = <<"r", n + 1, m, tab(tab(ip.i2)[n])[m]>>
       PROVE  \E p \in Spots : z = <<p[1], p[2], p[3], led(p)>>
  <2> DEFINE a == n + 1
  <2>1. a \in AllParts /\ a # 0 /\ a - 1 = n
    BY Sizes2 DEF AllParts, Refs
  <2>2. z = <<"r", a, m, Tab(store, Tab(store, ip.i2)[n])[m]>>
    BY <1>1, <1>10
  <2> HIDE DEF a
  <2>3. Base(ip, store, a) = Tab(store, ip.i2)[n]
    BY <2>1 DEF Base
  <2>4. QED
    BY <1>8, <2>1, <2>2, <2>3
<1>11. QED
  BY <1>2, <1>3, <1>4, <1>5, <1>6, <1>7, <1>9, <1>10

Label(kind, j, c) == <<kind, <<"", 0, j, c>>>>

\* The free clusters, each with its place.
LEMMA PoolIs ==
  ASSUME CountsInv, NEW x \in Pool, x[2][4] # NullReference
  PROVE  \/ \E c \in sb.map : x = Label("map", 0, c)
         \/ \E j \in Live(sb) : x = Label("rcache", j, sb.rcache.ref[j])
         \/ \E j \in Given(sb) : x = Label("icache", j, sb.icache.ref[j])
<1>1. \/ \E c \in sb.map : x = Label("map", 0, c)
      \/ \E j \in Slots : j >= sb.rcache.idx /\ x = Label("rcache", j, sb.rcache.ref[j])
      \/ \E j \in Slots : j < sb.icache.idx /\ x = Label("icache", j, sb.icache.ref[j])
  BY DEF Pool, Label
<1>2. \A kind, j, c : Label(kind, j, c)[2][4] = c
  BY DEF Label
<1>3. CASE \E c \in sb.map : x = Label("map", 0, c)
  BY <1>3
<1>4. CASE \E j \in Slots : j >= sb.rcache.idx /\ x = Label("rcache", j, sb.rcache.ref[j])
  BY <1>2, <1>4 DEF Live
<1>5. CASE \E j \in Slots : j < sb.icache.idx /\ x = Label("icache", j, sb.icache.ref[j])
  BY <1>5 DEF Given
<1>6. QED
  BY <1>1, <1>3, <1>4, <1>5

LEMMA SoundIsSound ==
  ASSUME CountsInv, SoundAt(sb, inode, store, written)
  PROVE  Sound
<1> SUFFICES ASSUME NEW x \in InUse \union Pool, NEW y \in InUse \union Pool,
                    x[2][4] = y[2][4], x[2][4] # NullReference
             PROVE  x = y
  BY DEF Sound
<1> DEFINE c == x[2][4]
<1>1. \A f, p, e : UsePlace(f, p, e)[2][4] = e
  BY DEF UsePlace
<1>2. \A kind, j, e : Label(kind, j, e)[2][4] = e
  BY DEF Label
<1>3. ASSUME NEW z \in InUse
      PROVE  \E f \in Files, p \in Spots : /\ z = UsePlace(f, p, LeadOf(inode[f], store, p))
                                           /\ LeadOf(inode[f], store, p) = z[2][4]
  <2>1. PICK f \in Files : z \in Places(f)
    BY DEF InUse
  <2>2. QED
    BY <1>1, <2>1, UseIs
<1>4. ASSUME NEW z \in Pool, z[2][4] # NullReference
      PROVE  /\ z[2][4] \in FreeSet(sb)
             /\ \/ z[2][4] \in sb.map /\ z = Label("map", 0, z[2][4])
                \/ \E j \in Live(sb) : z[2][4] = sb.rcache.ref[j] /\ z = Label("rcache", j, z[2][4])
                \/ \E j \in Given(sb) : z[2][4] = sb.icache.ref[j] /\ z = Label("icache", j, z[2][4])
  <2>1. \/ z[2][4] \in sb.map /\ z = Label("map", 0, z[2][4])
        \/ \E j \in Live(sb) : z[2][4] = sb.rcache.ref[j] /\ z = Label("rcache", j, z[2][4])
        \/ \E j \in Given(sb) : z[2][4] = sb.icache.ref[j] /\ z = Label("icache", j, z[2][4])
    BY <1>2, <1>4, PoolIs
  <2>2. QED
    BY <2>1 DEF FreeSet
<1>5. CASE x \in InUse /\ y \in InUse
  <2>1. PICK f \in Files, p \in Spots : /\ x = UsePlace(f, p, LeadOf(inode[f], store, p))
                                        /\ LeadOf(inode[f], store, p) = c
    BY <1>3, <1>5
  <2>2. PICK g \in Files, q \in Spots : /\ y = UsePlace(g, q, LeadOf(inode[g], store, q))
                                        /\ LeadOf(inode[g], store, q) = y[2][4]
    BY <1>3, <1>5
  <2>3. f = g /\ p = q
    <3>1. \A h, i \in Files : \A r, s \in Spots :
             /\ LeadOf(inode[h], store, r) = LeadOf(inode[i], store, s)
             /\ LeadOf(inode[h], store, r) # NullReference
             => h = i /\ r = s
      BY DEF SoundAt
    <3>2. LeadOf(inode[f], store, p) = LeadOf(inode[g], store, q)
          /\ LeadOf(inode[f], store, p) # NullReference
      BY <2>1, <2>2
    <3>3. QED
      BY <3>1, <3>2
  <2>4. QED
    BY <2>1, <2>2, <2>3
<1>6. \A z \in InUse : z[2][4] \notin FreeSet(sb)
  BY <1>3 DEF SoundAt
<1>7. CASE x \in Pool /\ y \in Pool
  <2> HIDE DEF c
  <2>1. \/ c \in sb.map /\ x = Label("map", 0, c)
        \/ \E j \in Live(sb) : c = sb.rcache.ref[j] /\ x = Label("rcache", j, c)
        \/ \E j \in Given(sb) : c = sb.icache.ref[j] /\ x = Label("icache", j, c)
    BY <1>4, <1>7 DEF c
  <2>2. \/ c \in sb.map /\ y = Label("map", 0, c)
        \/ \E j \in Live(sb) : c = sb.rcache.ref[j] /\ y = Label("rcache", j, c)
        \/ \E j \in Given(sb) : c = sb.icache.ref[j] /\ y = Label("icache", j, c)
    BY <1>4, <1>7 DEF c
  <2>3. /\ \A j, k \in Live(sb) : sb.rcache.ref[j] = sb.rcache.ref[k] => j = k
        /\ \A j, k \in Given(sb) : sb.icache.ref[j] = sb.icache.ref[k] => j = k
        /\ \A j \in Live(sb) : sb.rcache.ref[j] \notin sb.map
        /\ \A j \in Given(sb) : sb.icache.ref[j] \notin sb.map
        /\ \A j \in Live(sb), k \in Given(sb) : sb.rcache.ref[j] # sb.icache.ref[k]
    BY DEF SoundAt, PoolOK
  <2>4. QED
    BY <2>1, <2>2, <2>3
<1>8. QED
  BY <1>4, <1>5, <1>6, <1>7

\* What was written is found again.
LEMMA SoundIntact ==
  ASSUME CountsInv, SoundAt(sb, inode, store, written), NEW w \in written
  PROVE  ~ReadThrows(w[1], w[2]) /\ soReadFileCluster(w[1], w[2]) = Content(w[1], w[2])
<1> DEFINE c == LeadOf(inode[w[1]], store, SpotOf(w[2]))
<1>1. /\ w[1] \in Files /\ w[2] \in FileClusterNumbers
      /\ inode[w[1]] \in InodeParts /\ store \in Stores
  BY DEF CountsInv
<1>2. TreeOK(inode[w[1]], store) /\ c \in Clusters /\ store[c] = Content(w[1], w[2])
  BY <1>1 DEF SoundAt, Holding
<1>3. c # NullReference
  BY <1>2, Sizes2
<1>4. /\ ~GetThrows(inode[w[1]], store, w[2])
      /\ soGetFileCluster(inode[w[1]], store, w[2]) = c
  <2> HIDE DEF c
  <2>1. /\ ~GetThrows(inode[w[1]], store, w[2]) => soGetFileCluster(inode[w[1]], store, w[2]) = c
        /\ GetThrows(inode[w[1]], store, w[2]) => c = NullReference
    BY <1>1, <1>2, GetIs DEF c
  <2>2. QED
    BY <1>3, <2>1
<1> HIDE DEF c
<1>5. QED
  BY <1>2, <1>4 DEF ReadThrows, Exists, soReadFileCluster

ClustersInv == CountsInv /\ SoundInv

LEMMA ClustersTypeOK ==
  ASSUME ClustersInv
  PROVE  TypeOK
<1>1. ASSUME Undamaged, NEW f \in Files
      PROVE  inode[f].clucnt >= 0
  <2>1. inode[f].clucnt >= Cardinality(Occupied(inode[f], store))
    BY <1>1 DEF ClustersInv, SoundInv, SoundAt
  <2>2. Cardinality(Occupied(inode[f], store)) \in Nat /\ inode[f].clucnt \in Int
    BY OccupiedFinite DEF ClustersInv, CountsInv, InodeParts
  <2>3. QED
    BY <2>1, <2>2
<1>2. QED
  BY <1>1, CountsTypeOK DEF ClustersInv

LEMMA ClustersSound ==
  ASSUME ClustersInv
  PROVE  SoundUntilDamage
BY SoundIsSound DEF ClustersInv, SoundInv, SoundUntilDamage

LEMMA ClustersIntact ==
  ASSUME ClustersInv
  PROVE  FileIntact
BY SoundIntact DEF ClustersInv, SoundInv, FileIntact

-----------------------------------------------------------------------------
(***************************************************************************)
(* The theorems.                                                           *)
(***************************************************************************)
LEMMA InvSame ==
  ASSUME ClustersInv, UNCHANGED vars
  PROVE  ClustersInv'
BY DEF ClustersInv, CountsInv, SoundInv, Undamaged, vars

\* Types, counts and, until something has gone wrong, the places of all clusters are kept
\* by every operation: what the properties rest on.
THEOREM ClustersInductive == Spec => []ClustersInv
<1>1. Init => ClustersInv
  BY InitCounts, InitSound DEF ClustersInv
<1>2. ClustersInv /\ [Next]_vars => ClustersInv'
  <2> SUFFICES ASSUME ClustersInv, [Next]_vars PROVE ClustersInv'
    OBVIOUS
  <2>1. CASE Next
    BY <2>1, OperationCounts, OperationKeeps DEF Next, ClustersInv
  <2>2. CASE UNCHANGED vars
    BY <2>2, InvSame
  <2>3. QED
    BY <2>1, <2>2
<1>3. QED
  BY <1>1, <1>2, PTL DEF Spec

\* The superblock, its two caches and the inodes keep their types, the insertion cache has
\* no hole, and no file is released below zero before something has gone wrong, whichever
\* operations of the layer follow one another (soAllocFileCluster, soFreeFileClusters,
\* soWriteFileCluster, soReplenish, soDeplete).
THEOREM FileClustersTypeOK == Spec => []TypeOK
<1>1. ClustersInv => TypeOK
  BY ClustersTypeOK
<1>2. QED
  BY <1>1, ClustersInductive, PTL

\* What the superblock counts as free (cfree) and what the inodes count as theirs (clucnt)
\* are all clusters but the root's, however often bits of the bitmap are lost or an empty
\* cache is read; an exception half way leaves clusters counted twice, never forgotten.
THEOREM ClustersAccounted == Spec => []Accounting
<1>1. ClustersInv => Accounting
  BY CountsAccounting DEF ClustersInv
<1>2. QED
  BY <1>1, ClustersInductive, PTL

\* Until the first of the steps the code gets wrong, a cluster is in one place at most: a bit of
\* the bitmap, a slot of a cache, or one place of one inode.
THEOREM OnePlaceForEachCluster == Spec => []SoundUntilDamage
<1>1. ClustersInv => SoundUntilDamage
  BY ClustersSound
<1>2. QED
  BY <1>1, ClustersInductive, PTL

\* Until then, soReadFileCluster finds what soWriteFileCluster has written, whatever has been
\* allocated, written and released for it and for other files in between.
THEOREM WrittenIsRead == Spec => []FileIntact
<1>1. ClustersInv => FileIntact
  BY ClustersIntact
<1>2. QED
  BY <1>1, ClustersInductive, PTL
=============================================================================
