-------------------------- MODULE InodeListProofs --------------------------
(***************************************************************************)
(* Theorems about InodeList, for a table of any size.                      *)
(***************************************************************************)
EXTENDS InodeList, FiniteSetTheorems, SequenceTheorems, WellFoundedInduction, TLAPS

\* q runs through the free inodes from the head to the tail.
Chain(q) ==
    /\ q \in [1 .. ifree -> FreeInodes]
    /\ \A i, j \in 1 .. ifree : q[i] = q[j] => i = j
    /\ \A in \in FreeInodes : \E k \in 1 .. ifree : q[k] = in
    /\ ifree > 0 => ihead = q[1] /\ prev[q[1]] = q[ifree]
    /\ \A k \in 1 .. ifree - 1 : next[q[k]] = q[k + 1] /\ prev[q[k + 1]] = q[k]
    /\ ifree > 0 /\ ITotal > InodesPerBlock => next[q[ifree]] = q[1]

Types ==
    /\ free \in [Inodes -> BOOLEAN]
    /\ next \in [Inodes -> (0 .. ITotal) \union {Time}]
    /\ prev \in [Inodes -> Inodes \union {Time}]
    /\ ihead \in Inodes \union {NullReference}
    /\ ifree \in Nat
    /\ ihead = NullReference <=> ifree = 0

Counted == ifree = Cardinality(FreeInodes)

\* The inductive invariant.  The local conditions of FreeListLinked do not exclude a
\* second circle of inodes beside the list; that there is one chain of all of them does.
IInv == Types /\ Counted /\ \E q : Chain(q)

-----------------------------------------------------------------------------
(* The free inodes are finitely many, no more than the table has.          *)

LEMMA FreeFinite ==
  IsFiniteSet(FreeInodes) /\ Cardinality(FreeInodes) \in 0 .. ITotal
<1>1. IsFiniteSet(Inodes) /\ Cardinality(Inodes) = ITotal
  BY FS_Interval, InodeAssumption DEF Inodes
<1>2. FreeInodes \in SUBSET Inodes
  BY DEF FreeInodes
<1>3. IsFiniteSet(FreeInodes) /\ Cardinality(FreeInodes) <= ITotal
  BY <1>1, <1>2, FS_Subset
<1> QED
  BY <1>3, FS_CardinalityType, InodeAssumption

\* The conjunct of TypeOK that Types leaves open: the count fits the table.
LEMMA TypesCounted == Types /\ Counted => TypeOK
  BY FreeFinite DEF Types, Counted, TypeOK

\* Head and tail are the ends of the chain.
LEMMA Ends ==
  ASSUME Types, NEW q, Chain(q), ifree > 0
  PROVE  /\ ihead = q[1] /\ ihead \in FreeInodes /\ ihead \in Inodes
         /\ tail = q[ifree] /\ tail \in FreeInodes /\ tail \in Inodes
  BY DEF Types, Chain, tail, FreeInodes

\* The chain mksofs makes.
LEMMA InitialChain ==
  ASSUME Init
  PROVE  FreeInodes = 1 .. ITotal - 1 /\ Chain([k \in 1 .. ITotal - 1 |-> k])
<1>1. FreeInodes = 1 .. ITotal - 1
  <2>1. \A in \in Inodes : free[in] <=> in # 0
    BY DEF Init
  <2>2. \A in : in \in Inodes /\ in # 0 <=> in \in 1 .. ITotal - 1
    BY InodeAssumption DEF Inodes
  <2> QED
    BY <2>1, <2>2 DEF FreeInodes
<1>2. Chain([k \in 1 .. ITotal - 1 |-> k])
  BY <1>1, InodeAssumption DEF Chain, Init, Inodes, FirstNext, FirstPrev
<1> QED
  BY <1>1, <1>2

LEMMA InitOK == Init => IInv
<1> SUFFICES ASSUME Init PROVE IInv
  OBVIOUS
<1>1. Types
  BY InodeAssumption DEF Init, Types, Inodes, FirstNext, FirstPrev
<1>2. Counted
  <2>1. Cardinality(1 .. ITotal - 1) = ITotal - 1
    BY FS_Interval, InodeAssumption
  <2> QED
    BY <2>1, InitialChain DEF Counted, Init
<1> QED
  BY <1>1, <1>2, InitialChain DEF IInv

-----------------------------------------------------------------------------
(* What an allocation and a release do to the set and to its count.        *)

LEMMA OccupyCounts ==
  ASSUME Types, Counted, ihead \in FreeInodes, Occupy
  PROVE  FreeInodes' = FreeInodes \ {ihead} /\ Counted'
<1>1. FreeInodes' = FreeInodes \ {ihead}
  BY DEF Types, Occupy, FreeInodes
<1>2. Cardinality(FreeInodes \ {ihead}) = Cardinality(FreeInodes) - 1
  BY FreeFinite, FS_RemoveElement
<1> QED
  BY <1>1, <1>2 DEF Counted, Occupy

LEMMA ReleaseCounts ==
  ASSUME Types, Counted, NEW in \in Inodes, Release(in)
  PROVE  /\ FreeInodes' = FreeInodes \union {in} /\ in \notin FreeInodes
         /\ Counted'
<1>1. FreeInodes' = FreeInodes \union {in} /\ in \notin FreeInodes
  BY DEF Types, Release, FreeInodes
<1>2. Cardinality(FreeInodes \union {in}) = Cardinality(FreeInodes) + 1
  BY <1>1, FreeFinite, FS_AddElement
<1> QED
  BY <1>1, <1>2 DEF Counted, Release

\* The chain without its head.
Rest(q) == [k \in 1 .. ifree - 1 |-> q[k + 1]]

LEMMA RestRuns ==
  ASSUME Types, NEW q, Chain(q), ifree > 0
  PROVE  /\ Rest(q) \in [1 .. ifree - 1 -> FreeInodes \ {ihead}]
         /\ \A i, j \in 1 .. ifree - 1 : Rest(q)[i] = Rest(q)[j] => i = j
         /\ \A in \in FreeInodes \ {ihead} : \E k \in 1 .. ifree - 1 : Rest(q)[k] = in
<1>1. ifree \in Nat
  BY DEF Types
<1>2. \A k \in 1 .. ifree - 1 : k + 1 \in 1 .. ifree /\ Rest(q)[k] = q[k + 1]
  BY <1>1 DEF Rest
<1>3. Rest(q) \in [1 .. ifree - 1 -> FreeInodes \ {ihead}]
  BY <1>1, <1>2 DEF Rest, Chain
<1>4. \A i, j \in 1 .. ifree - 1 : Rest(q)[i] = Rest(q)[j] => i = j
  BY <1>1, <1>2 DEF Chain
<1>5. ASSUME NEW in \in FreeInodes \ {ihead}
      PROVE  \E k \in 1 .. ifree - 1 : Rest(q)[k] = in
  <2>1. PICK k \in 1 .. ifree : q[k] = in
    BY DEF Chain
  <2>2. k # 1
    BY <2>1 DEF Chain
  <2>3. k - 1 \in 1 .. ifree - 1 /\ Rest(q)[k - 1] = in
    BY <1>1, <1>2, <2>1, <2>2
  <2> QED
    BY <2>3
<1> QED
  BY <1>3, <1>4, <1>5

\* The chain with a new tail.
Longer(q, in) == [k \in 1 .. ifree + 1 |-> IF k = ifree + 1 THEN in ELSE q[k]]

LEMMA LongerRuns ==
  ASSUME Types, NEW q, Chain(q), NEW in, in \notin FreeInodes
  PROVE  /\ Longer(q, in) \in [1 .. ifree + 1 -> FreeInodes \union {in}]
         /\ \A i, j \in 1 .. ifree + 1 : Longer(q, in)[i] = Longer(q, in)[j] => i = j
         /\ \A x \in FreeInodes \union {in} :
               \E k \in 1 .. ifree + 1 : Longer(q, in)[k] = x
<1>1. ifree \in Nat
  BY DEF Types
<1>2. \A k \in 1 .. ifree : k \in 1 .. ifree + 1 /\ Longer(q, in)[k] = q[k]
                            /\ q[k] \in FreeInodes
  BY <1>1 DEF Longer, Chain
<1>3. ifree + 1 \in 1 .. ifree + 1 /\ Longer(q, in)[ifree + 1] = in
  BY <1>1 DEF Longer
<1>4. \A k \in 1 .. ifree + 1 : k \in 1 .. ifree \/ k = ifree + 1
  BY <1>1
<1>5. Longer(q, in) \in [1 .. ifree + 1 -> FreeInodes \union {in}]
  BY <1>2, <1>3, <1>4 DEF Longer
<1>6. \A i, j \in 1 .. ifree + 1 : Longer(q, in)[i] = Longer(q, in)[j] => i = j
  BY <1>2, <1>3, <1>4 DEF Chain
<1>7. \A x \in FreeInodes \union {in} : \E k \in 1 .. ifree + 1 : Longer(q, in)[k] = x
  BY <1>2, <1>3 DEF Chain
<1> QED
  BY <1>5, <1>6, <1>7

-----------------------------------------------------------------------------
(* What every step does to the chain.                                      *)

LEMMA StepAllocOfMany ==
  ASSUME Types, Counted, NEW q, Chain(q), NEW r, r = Rest(q),
         AllocOfMany
  PROVE  Types' /\ Counted' /\ Chain(r)' /\ FreeInodes' = FreeInodes \ {ihead}
<1>1. Chain(q)
  OBVIOUS
<1>2. Types /\ Counted /\ ifree > 2 /\ ifree \in Nat /\ Occupy
  BY DEF Types, AllocOfMany
<1>3. /\ ihead = q[1] /\ ihead \in FreeInodes /\ ihead \in Inodes
      /\ tail = q[ifree] /\ tail \in FreeInodes /\ tail \in Inodes
  BY <1>1, <1>2, Ends
<1>4. /\ next[ihead] = q[2] /\ q[2] \in FreeInodes /\ q[2] \in Inodes
      /\ q[2] # ihead /\ tail # ihead /\ q[2] # tail
  BY <1>1, <1>2, <1>3 DEF Chain, FreeInodes
<1>5. FreeInodes' = FreeInodes \ {ihead} /\ Counted' /\ ifree' = ifree - 1
  BY <1>2, <1>3, OccupyCounts DEF Occupy
<1>6. /\ ihead' = q[2]
      /\ next' = [next EXCEPT ![ihead] = Time, ![tail] = q[2]]
      /\ prev' = [prev EXCEPT ![ihead] = Time, ![q[2]] = tail]
  BY <1>4 DEF AllocOfMany
<1>7. Types'
  <2>1. free' \in [Inodes -> BOOLEAN] /\ ifree' \in Nat /\ ifree' # 0
    BY <1>2, <1>5 DEF Occupy, Types
  <2>2. next' \in [Inodes -> (0 .. ITotal) \union {Time}]
    BY <1>2, <1>3, <1>4, <1>6, InodeAssumption DEF Types, Inodes
  <2>3. prev' \in [Inodes -> Inodes \union {Time}]
    BY <1>2, <1>3, <1>4, <1>6 DEF Types
  <2>4. ihead' \in Inodes /\ ihead' # NullReference
    BY <1>4, <1>6, InodeAssumption DEF Inodes
  <2> QED
    BY <2>1, <2>2, <2>3, <2>4 DEF Types
<1>8. r = Rest(q)
  OBVIOUS
<1>9. Chain(r)'
  <2>1. \A k \in 1 .. ifree - 1 : /\ k + 1 \in 1 .. ifree /\ r[k] = q[k + 1]
                                  /\ q[k + 1] \in Inodes /\ q[k + 1] # ihead
    BY <1>1, <1>2, <1>3, <1>8 DEF Rest, Chain, FreeInodes
  <2>2. /\ r \in [1 .. ifree' -> FreeInodes']
        /\ \A i, j \in 1 .. ifree' : r[i] = r[j] => i = j
        /\ \A in \in FreeInodes' : \E k \in 1 .. ifree' : r[k] = in
    BY <1>1, <1>2, <1>5, <1>8, RestRuns
  <2>3. ihead' = r[1] /\ prev'[r[1]] = r[ifree']
    BY <1>2, <1>3, <1>4, <1>5, <1>6, <2>1 DEF Types
  <2>4. ASSUME NEW k \in 1 .. ifree' - 1
        PROVE  /\ next'[r[k]] = r[k + 1]
               /\ prev'[r[k + 1]] = r[k]
    <3>1. /\ r[k] = q[k + 1] /\ r[k + 1] = q[k + 2]
          /\ q[k + 1] \in Inodes /\ q[k + 2] \in Inodes
          /\ q[k + 1] # ihead /\ q[k + 2] # ihead
      BY <1>2, <1>5, <2>1
    <3>2. q[k + 1] # tail /\ q[k + 2] # q[2]
      BY <1>1, <1>2, <1>3, <1>5 DEF Chain
    <3>3. next[q[k + 1]] = q[k + 2] /\ prev[q[k + 2]] = q[k + 1]
      BY SMTT(30), <1>1, <1>2, <1>5 DEF Chain
    <3> QED
      BY <1>2, <1>6, <3>1, <3>2, <3>3 DEF Types
  <2>5. next'[r[ifree']] = r[1]
    BY <1>2, <1>3, <1>4, <1>5, <1>6, <2>1 DEF Types
  <2> QED
    BY <2>2, <2>3, <2>4, <2>5 DEF Chain
<1> QED
  BY <1>5, <1>7, <1>9

LEMMA StepAllocOfTwo ==
  ASSUME Types, Counted, NEW q, Chain(q), NEW r, r = Rest(q),
         AllocOfTwo
  PROVE  Types' /\ Counted' /\ Chain(r)' /\ FreeInodes' = FreeInodes \ {ihead}
<1>1. Chain(q)
  OBVIOUS
<1>2. Types /\ Counted /\ ifree = 2 /\ Occupy
  BY DEF AllocOfTwo
<1>3. /\ ihead = q[1] /\ ihead \in FreeInodes /\ ihead \in Inodes
      /\ tail = q[2] /\ tail \in FreeInodes /\ tail \in Inodes
  BY <1>1, <1>2, Ends
<1>4. next[ihead] = tail /\ tail # ihead
  BY <1>1, <1>2, <1>3 DEF Chain
<1>5. FreeInodes' = FreeInodes \ {ihead} /\ Counted' /\ ifree' = 1
  BY <1>2, <1>3, OccupyCounts DEF Occupy
<1>6. /\ ihead' = tail
      /\ next' = [next EXCEPT ![ihead] = Time, ![tail] = tail]
      /\ prev' = [prev EXCEPT ![ihead] = Time, ![tail] = tail]
  BY <1>4 DEF AllocOfTwo
<1>7. Types'
  <2>1. free' \in [Inodes -> BOOLEAN] /\ ifree' \in Nat /\ ifree' # 0
    BY <1>2, <1>5 DEF Occupy, Types
  <2>2. next' \in [Inodes -> (0 .. ITotal) \union {Time}]
    BY SMTT(30), <1>2, <1>3, <1>6, InodeAssumption DEF Types, Inodes
  <2>3. prev' \in [Inodes -> Inodes \union {Time}]
    BY <1>2, <1>3, <1>6 DEF Types
  <2>4. ihead' \in Inodes /\ ihead' # NullReference
    BY <1>3, <1>6, InodeAssumption DEF Inodes
  <2> QED
    BY <2>1, <2>2, <2>3, <2>4 DEF Types
<1>8. r = Rest(q)
  OBVIOUS
<1>9. Chain(r)'
  <2>1. r[1] = tail
    BY <1>2, <1>3, <1>8 DEF Rest
  <2>2. /\ r \in [1 .. ifree' -> FreeInodes']
        /\ \A i, j \in 1 .. ifree' : r[i] = r[j] => i = j
        /\ \A in \in FreeInodes' : \E k \in 1 .. ifree' : r[k] = in
    BY <1>1, <1>2, <1>5, <1>8, RestRuns
  <2>3. prev'[tail] = tail /\ next'[tail] = tail
    BY <1>2, <1>3, <1>4, <1>6 DEF Types
  <2> QED
    BY <1>5, <1>6, <2>1, <2>2, <2>3 DEF Chain
<1> QED
  BY <1>5, <1>7, <1>9

LEMMA StepAllocOfOne ==
  ASSUME Types, Counted, NEW q, Chain(q), NEW r, r = Rest(q),
         AllocOfOne
  PROVE  Types' /\ Counted' /\ Chain(r)' /\ FreeInodes' = FreeInodes \ {ihead}
<1>1. Chain(q)
  OBVIOUS
<1>2. Types /\ Counted /\ ifree = 1 /\ Occupy
  BY DEF AllocOfOne
<1>3. ihead = q[1] /\ ihead \in FreeInodes /\ ihead \in Inodes
  BY <1>1, <1>2, Ends
<1>4. FreeInodes' = FreeInodes \ {ihead} /\ Counted' /\ ifree' = 0
  BY <1>2, <1>3, OccupyCounts DEF Occupy
<1>5. Types'
  BY <1>2, <1>3, <1>4 DEF Types, Occupy, AllocOfOne
<1>6. r = Rest(q)
  OBVIOUS
<1>7. Chain(r)'
  BY <1>1, <1>2, <1>4, <1>6, RestRuns DEF Chain
<1> QED
  BY <1>4, <1>5, <1>7

LEMMA StepFreeToNone ==
  ASSUME Types, Counted, NEW q, Chain(q), NEW in \in Inodes, FreeToNone(in),
         NEW r, r = Longer(q, in)
  PROVE  Types' /\ Counted' /\ Chain(r)' /\ FreeInodes' = FreeInodes \union {in}
<1>1. Chain(q)
  OBVIOUS
<1>2. Types /\ Counted /\ ifree = 0 /\ Release(in)
  BY DEF FreeToNone
<1>3. /\ FreeInodes' = FreeInodes \union {in} /\ in \notin FreeInodes
      /\ Counted'
  BY <1>2, ReleaseCounts
<1>4. ifree' = 1
  BY <1>2 DEF Release
<1>5. /\ ihead' = in
      /\ next' = [next EXCEPT ![in] = in]
      /\ prev' = [prev EXCEPT ![in] = in]
  BY DEF FreeToNone
<1>6. Types'
  <2>1. free' \in [Inodes -> BOOLEAN]
    BY <1>2 DEF Release, Types
  <2>2. in \in 0 .. ITotal /\ in # NullReference
    BY InodeAssumption DEF Inodes
  <2>3. next' \in [Inodes -> (0 .. ITotal) \union {Time}]
    BY <1>2, <1>5, <2>2 DEF Types
  <2>4. prev' \in [Inodes -> Inodes \union {Time}]
    BY <1>2, <1>5 DEF Types
  <2> QED
    BY <1>4, <1>5, <2>1, <2>2, <2>3, <2>4 DEF Types
<1>7. r = Longer(q, in)
  OBVIOUS
<1>8. Chain(r)'
  <2>1. r[1] = in
    BY <1>2, <1>7 DEF Longer
  <2>2. /\ r \in [1 .. ifree' -> FreeInodes']
        /\ \A i, j \in 1 .. ifree' : r[i] = r[j] => i = j
        /\ \A x \in FreeInodes' : \E k \in 1 .. ifree' : r[k] = x
    BY <1>1, <1>2, <1>3, <1>4, <1>7, LongerRuns
  <2>3. prev'[in] = in /\ next'[in] = in
    BY <1>2, <1>5 DEF Types
  <2> QED
    BY <1>4, <1>5, <2>1, <2>2, <2>3 DEF Chain
<1> QED
  BY <1>3, <1>6, <1>8

LEMMA StepFreeToOne ==
  ASSUME Types, Counted, NEW q, Chain(q), NEW in \in Inodes, FreeToOne(in),
         NEW r, r = Longer(q, in)
  PROVE  Types' /\ Counted' /\ Chain(r)' /\ FreeInodes' = FreeInodes \union {in}
<1>1. Chain(q)
  OBVIOUS
<1>2. Types /\ Counted /\ ifree = 1 /\ Release(in)
  BY DEF FreeToOne
<1>3. /\ FreeInodes' = FreeInodes \union {in} /\ in \notin FreeInodes
      /\ Counted'
  BY <1>2, ReleaseCounts
<1>4. ifree' = 2
  BY <1>2 DEF Release
<1>5. ihead = q[1] /\ ihead \in FreeInodes /\ ihead \in Inodes /\ ihead # in
  BY <1>1, <1>2, <1>3, Ends
<1>6. /\ ihead' = ihead
      /\ next' = [next EXCEPT ![ihead] = in, ![in] = ihead]
      /\ prev' = [prev EXCEPT ![ihead] = in, ![in] = ihead]
  BY DEF FreeToOne
<1>7. Types'
  <2>1. free' \in [Inodes -> BOOLEAN]
    BY <1>2 DEF Release, Types
  <2>2. in \in 0 .. ITotal /\ ihead \in 0 .. ITotal /\ ihead # NullReference
    BY <1>5, InodeAssumption DEF Inodes
  <2>3. next' \in [Inodes -> (0 .. ITotal) \union {Time}]
    BY <1>2, <1>6, <2>2 DEF Types
  <2>4. prev' \in [Inodes -> Inodes \union {Time}]
    BY <1>2, <1>5, <1>6 DEF Types
  <2> QED
    BY <1>4, <1>5, <1>6, <2>1, <2>2, <2>3, <2>4 DEF Types
<1>8. r = Longer(q, in)
  OBVIOUS
<1>9. Chain(r)'
  <2>1. r[1] = ihead /\ r[2] = in
    BY <1>2, <1>5, <1>8 DEF Longer
  <2>2. /\ r \in [1 .. ifree' -> FreeInodes']
        /\ \A i, j \in 1 .. ifree' : r[i] = r[j] => i = j
        /\ \A x \in FreeInodes' : \E k \in 1 .. ifree' : r[k] = x
    BY <1>1, <1>2, <1>3, <1>4, <1>8, LongerRuns
  <2>3. prev'[in] = ihead /\ next'[in] = ihead /\ prev'[ihead] = in /\ next'[ihead] = in
    BY <1>2, <1>5, <1>6 DEF Types
  <2> QED
    BY <1>4, <1>6, <2>1, <2>2, <2>3 DEF Chain
<1> QED
  BY <1>3, <1>7, <1>9

LEMMA StepFreeToMany ==
  ASSUME Types, Counted, NEW q, Chain(q), NEW in \in Inodes, FreeToMany(in),
         NEW r, r = Longer(q, in)
  PROVE  Types' /\ Counted' /\ Chain(r)' /\ FreeInodes' = FreeInodes \union {in}
<1>1. Chain(q)
  OBVIOUS
<1>2. Types /\ Counted /\ ifree > 1 /\ ifree \in Nat /\ Release(in)
  BY DEF Types, FreeToMany
<1>3. /\ FreeInodes' = FreeInodes \union {in} /\ in \notin FreeInodes
      /\ Counted'
  BY <1>2, ReleaseCounts
<1>4. ifree' = ifree + 1
  BY <1>2 DEF Release
<1>5. /\ ihead = q[1] /\ ihead \in FreeInodes /\ ihead \in Inodes /\ ihead # in
      /\ tail = q[ifree] /\ tail \in FreeInodes /\ tail \in Inodes /\ tail # in
  BY <1>1, <1>2, <1>3, Ends
<1>6. /\ ihead' = ihead
      /\ next' = [next EXCEPT ![tail] = in, ![in] = ihead]
      /\ prev' = [prev EXCEPT ![in] = tail, ![ihead] = in]
  BY DEF FreeToMany
<1>7. Types'
  <2>1. free' \in [Inodes -> BOOLEAN]
    BY <1>2 DEF Release, Types
  <2>2. in \in 0 .. ITotal /\ ihead \in 0 .. ITotal /\ ihead # NullReference
    BY <1>5, InodeAssumption DEF Inodes
  <2>3. next' \in [Inodes -> (0 .. ITotal) \union {Time}]
    BY <1>2, <1>6, <2>2 DEF Types
  <2>4. prev' \in [Inodes -> Inodes \union {Time}]
    BY <1>2, <1>5, <1>6 DEF Types
  <2> QED
    BY <1>2, <1>4, <1>5, <1>6, <2>1, <2>2, <2>3, <2>4 DEF Types
<1>8. r = Longer(q, in)
  OBVIOUS
<1>9. Chain(r)'
  <2>1. /\ r[ifree + 1] = in
        /\ \A k \in 1 .. ifree : /\ r[k] = q[k] /\ q[k] \in Inodes /\ q[k] # in
    BY <1>1, <1>2, <1>3, <1>8 DEF Longer, Chain, FreeInodes
  <2>2. /\ r \in [1 .. ifree' -> FreeInodes']
        /\ \A i, j \in 1 .. ifree' : r[i] = r[j] => i = j
        /\ \A x \in FreeInodes' : \E k \in 1 .. ifree' : r[k] = x
    BY <1>1, <1>2, <1>3, <1>4, <1>8, LongerRuns
  <2>3. /\ prev'[in] = tail /\ next'[in] = ihead
        /\ prev'[ihead] = in /\ next'[tail] = in
    BY <1>2, <1>5, <1>6 DEF Types
  <2>4. ihead' = r[1] /\ prev'[r[1]] = r[ifree'] /\ next'[r[ifree']] = r[1]
    BY <1>2, <1>4, <1>5, <1>6, <2>1, <2>3
  <2>5. ASSUME NEW k \in 1 .. ifree - 1
        PROVE  next'[r[k]] = r[k + 1] /\ prev'[r[k + 1]] = r[k]
    <3>1. k \in 1 .. ifree /\ k + 1 \in 1 .. ifree
      BY <1>2
    <3>2. q[k] # tail /\ q[k + 1] # ihead
      BY <1>1, <1>2, <1>5, <3>1 DEF Chain
    <3>3. next[q[k]] = q[k + 1] /\ prev[q[k + 1]] = q[k]
      BY <1>1 DEF Chain
    <3> QED
      BY <1>2, <1>6, <2>1, <3>1, <3>2, <3>3 DEF Types
  <2>6. next'[r[ifree]] = r[ifree + 1] /\ prev'[r[ifree + 1]] = r[ifree]
    BY <1>2, <1>5, <2>1, <2>3
  <2>7. \A k \in 1 .. ifree' - 1 : k \in 1 .. ifree - 1 \/ k = ifree
    BY <1>2, <1>4
  <2>8. \A k \in 1 .. ifree' - 1 : next'[r[k]] = r[k + 1] /\ prev'[r[k + 1]] = r[k]
    BY <2>5, <2>6, <2>7
  <2> QED
    BY <2>2, <2>4, <2>8 DEF Chain
<1> QED
  BY <1>3, <1>7, <1>9

\* An allocation takes the head off the chain ...
LEMMA AllocMoves ==
  ASSUME Types, Counted, NEW q, Chain(q), soAllocInode
  PROVE  \E r : /\ r = Rest(q) /\ Types' /\ Counted' /\ Chain(r)'
                /\ FreeInodes' = FreeInodes \ {ihead}
<1>1. PICK r : r = Rest(q)
  OBVIOUS
<1>2. Types' /\ Counted' /\ Chain(r)' /\ FreeInodes' = FreeInodes \ {ihead}
  BY <1>1, StepAllocOfMany, StepAllocOfTwo, StepAllocOfOne DEF soAllocInode
<1> QED
  BY <1>1, <1>2

\* ... and a release puts a new tail to it.
LEMMA FreeMoves ==
  ASSUME Types, Counted, NEW q, Chain(q), NEW in \in Inodes, soFreeInode(in)
  PROVE  \E r : /\ r = Longer(q, in) /\ Types' /\ Counted' /\ Chain(r)'
                /\ FreeInodes' = FreeInodes \union {in}
<1>1. PICK r : r = Longer(q, in)
  OBVIOUS
<1>2. Types' /\ Counted' /\ Chain(r)' /\ FreeInodes' = FreeInodes \union {in}
  BY <1>1, StepFreeToNone, StepFreeToOne, StepFreeToMany DEF soFreeInode
<1> QED
  BY <1>1, <1>2

-----------------------------------------------------------------------------
(* The theorems.                                                           *)

\* The free inodes form one circle from the head to the tail, and the superblock counts
\* them, after any number of soAllocInode and soFreeInode, in a table of any size.
THEOREM Inductive == Spec => []IInv
<1>1. Init => IInv
  BY InitOK
<1>2. IInv /\ [Next]_vars => IInv'
  <2> SUFFICES ASSUME IInv, [Next]_vars PROVE IInv'
    OBVIOUS
  <2>1. CASE soAllocInode
    <3>1. PICK q : Chain(q)
      BY DEF IInv
    <3>2. PICK r : r = Rest(q) /\ Types' /\ Counted' /\ Chain(r)'
      BY <2>1, <3>1, AllocMoves DEF IInv
    <3> QED
      BY <3>2 DEF IInv
  <2>2. ASSUME NEW in \in Inodes, soFreeInode(in) PROVE IInv'
    <3>1. PICK q : Chain(q)
      BY DEF IInv
    <3>2. PICK r : r = Longer(q, in) /\ Types' /\ Counted' /\ Chain(r)'
      BY <2>2, <3>1, FreeMoves DEF IInv
    <3> QED
      BY <3>2 DEF IInv
  <2>3. CASE UNCHANGED vars
    <3>1. PICK q : Chain(q)
      BY DEF IInv
    <3>2. FreeInodes' = FreeInodes
      BY <2>3 DEF vars, FreeInodes
    <3>3. Chain(q)' /\ Types' /\ Counted'
      BY <2>3, <3>1, <3>2 DEF vars, IInv, Types, Counted, Chain
    <3> QED
      BY <3>3 DEF IInv
  <2> QED
    BY <2>1, <2>2, <2>3 DEF Next
<1> QED
  BY <1>1, <1>2, PTL DEF Spec

\* TypeOK: links stay in the table (or one past it), ihead is null exactly when no inode
\* is free, and ifree never exceeds the table nor falls below 0.
THEOREM TypeCorrect == Spec => []TypeOK
<1>1. IInv => TypeOK
  BY TypesCounted DEF IInv
<1> QED
  BY <1>1, Inductive, PTL

\* A chain is linked in both directions at every inode.
LEMMA ChainLinked == IInv => FreeListLinked
<1> SUFFICES ASSUME IInv PROVE FreeListLinked
  OBVIOUS
<1>1. PICK q : Chain(q)
  BY DEF IInv
<1>2. Types /\ Counted /\ ifree \in Nat
  BY DEF IInv, Types
<1>3. ifree > 0 => /\ ihead = q[1] /\ ihead \in FreeInodes
                   /\ tail = q[ifree] /\ tail \in FreeInodes
  BY <1>1, <1>2, Ends
<1>4. ASSUME NEW in \in FreeInodes \ {tail}
      PROVE  next[in] \in FreeInodes \ {ihead} /\ prev[next[in]] = in
  <2>1. PICK k \in 1 .. ifree : q[k] = in
    BY <1>1 DEF Chain
  <2>2. k \in 1 .. ifree - 1 /\ k + 1 \in 1 .. ifree /\ k + 1 # 1
    BY <1>2, <1>3, <2>1
  <2>3. q[k + 1] \in FreeInodes /\ q[k + 1] # q[1]
    BY <1>1, <1>2, <2>2 DEF Chain
  <2> QED
    BY <1>1, <1>2, <1>3, <2>1, <2>2, <2>3 DEF Chain
<1>5. ASSUME NEW in \in FreeInodes \ {ihead}
      PROVE  prev[in] \in FreeInodes \ {tail} /\ next[prev[in]] = in
  <2>1. PICK k \in 1 .. ifree : q[k] = in
    BY <1>1 DEF Chain
  <2>2. k - 1 \in 1 .. ifree - 1 /\ k - 1 \in 1 .. ifree /\ k - 1 # ifree
    BY <1>2, <1>3, <2>1
  <2>3. q[k - 1] \in FreeInodes /\ q[k - 1] # q[ifree]
    BY <1>1, <1>2, <2>2 DEF Chain
  <2>4. next[q[k - 1]] = q[(k - 1) + 1] /\ prev[q[(k - 1) + 1]] = q[k - 1]
    BY <1>1, <2>2 DEF Chain
  <2>5. (k - 1) + 1 = k
    OBVIOUS
  <2> QED
    BY <1>2, <1>3, <2>1, <2>2, <2>3, <2>4, <2>5
<1>6. ifree > 0 /\ ITotal > InodesPerBlock => next[tail] = ihead
  BY <1>1, <1>3 DEF Chain
<1> QED
  BY <1>2, <1>3, <1>4, <1>5, <1>6 DEF FreeListLinked, Counted

\* FreeListLinked: the links join exactly the free inodes, in both directions, and the
\* superblock knows their number, their head and (through the head) their tail.
THEOREM ListLinked == Spec => []FreeListLinked
<1>1. IInv => FreeListLinked
  BY ChainLinked
<1> QED
  BY <1>1, Inductive, PTL

-----------------------------------------------------------------------------
(* The refinement of InodeQueue.                                           *)

\* A set of natural numbers that is not empty has a least element.
LEMMA Least ==
  ASSUME NEW S \in SUBSET Nat, S # {}
  PROVE  \E m \in S : \A k \in S : m <= k
<1> DEFINE less == {ss \in Nat \X Nat : ss[1] < ss[2]}
<1>1. IsWellFoundedOn(less, Nat)
  BY NatLessThanWellFounded DEF OpToRel
<1>2. PICK m \in S : \A k \in S : ~(<<k, m>> \in less)
  <2> HIDE DEF less
  <2> QED
    BY <1>1, WFMin
<1>3. \A k \in S : k \in Nat /\ m \in Nat /\ ~(k < m)
  BY <1>2
<1> QED
  BY <1>3

\* Whoever follows the links from the head meets the chain and nothing else.
LEMMA ChainIsFreeList ==
  ASSUME Types, NEW q, Chain(q)
  PROVE  FreeList = q
<1> DEFINE Follows(p) == /\ ifree > 0 => p[1] = ihead
                         /\ \A k \in 1 .. ifree - 1 : p[k + 1] = next[p[k]]
<1>1. ifree \in Nat /\ q \in [1 .. ifree -> FreeInodes] /\ Follows(q)
  BY DEF Types, Chain
<1>2. ASSUME NEW p \in [1 .. ifree -> FreeInodes], Follows(p)
      PROVE  p = q
  <2> DEFINE differ == {k \in 1 .. ifree : p[k] # q[k]}
  <2>1. differ = {}
    <3>1. SUFFICES ASSUME differ # {} PROVE FALSE
      OBVIOUS
    <3>2. PICK m \in differ : \A k \in differ : m <= k
      <4>1. differ \in SUBSET Nat
        BY <1>1
      <4> HIDE DEF differ
      <4> QED
        BY <3>1, <4>1, Least
    <3>3. m \in 1 .. ifree /\ p[m] # q[m] /\ m # 1
      BY <1>1, <1>2, <3>2
    <3>4. m - 1 \in 1 .. ifree - 1 /\ m - 1 \in 1 .. ifree /\ (m - 1) + 1 = m
      BY <1>1, <3>3
    <3>5. m - 1 \notin differ
      <4> HIDE DEF differ
      <4> QED
        BY <3>2, <3>4
    <3>6. p[m - 1] = q[m - 1]
      BY <3>4, <3>5
    <3>7. p[m] = next[p[m - 1]] /\ q[m] = next[q[m - 1]]
      BY <1>1, <1>2, <3>4
    <3> QED
      BY <3>3, <3>6, <3>7
  <2>2. \A k \in 1 .. ifree : p[k] = q[k]
    BY <2>1
  <2> QED
    BY <1>1, <2>2
<1>3. FreeList = CHOOSE p \in [1 .. ifree -> FreeInodes] : Follows(p)
  BY DEF FreeList
<1> HIDE DEF Follows
<1> QED
  BY <1>1, <1>2, <1>3

Determined == \A q : Types /\ Chain(q) => FreeList = q

LEMMA OneChain == Determined
  BY ChainIsFreeList DEF Determined

\* The chain as a sequence.
LEMMA ChainSeq ==
  ASSUME Types, NEW q, Chain(q)
  PROVE  q \in Seq(Inodes) /\ Len(q) = ifree /\ ifree \in Nat
<1>1. ifree \in Nat /\ q \in [1 .. ifree -> Inodes]
  BY DEF Types, Chain, FreeInodes
<1>2. q \in Seq(Inodes)
  BY <1>1
<1> QED
  BY <1>1, <1>2, LenProperties

LEMMA RestIsTail ==
  ASSUME Types, NEW q, Chain(q), ifree > 0
  PROVE  q # <<>> /\ Head(q) = ihead /\ Tail(q) = Rest(q)
<1>1. q \in Seq(Inodes) /\ Len(q) = ifree /\ ifree \in Nat /\ q # <<>>
  BY ChainSeq, EmptySeq
<1>2. Head(q) = ihead
  BY <1>1 DEF Chain
<1>3. Tail(q) = Rest(q)
  <2>1. /\ Tail(q) \in Seq(Inodes) /\ Len(Tail(q)) = ifree - 1
        /\ \A k \in 1 .. ifree - 1 : Tail(q)[k] = q[k + 1]
    BY <1>1, HeadTailProperties
  <2>2. /\ Rest(q) \in [1 .. ifree - 1 -> Inodes]
        /\ \A k \in 1 .. ifree - 1 : Rest(q)[k] = q[k + 1]
    BY <1>1 DEF Rest
  <2>3. Tail(q) \in [1 .. ifree - 1 -> Inodes]
    BY <2>1, LenProperties
  <2> QED
    BY <2>1, <2>2, <2>3
<1> QED
  BY <1>1, <1>2, <1>3

LEMMA LongerIsAppend ==
  ASSUME Types, NEW q, Chain(q), NEW in \in Inodes
  PROVE  Append(q, in) = Longer(q, in)
<1>1. q \in Seq(Inodes) /\ Len(q) = ifree /\ ifree \in Nat
  BY ChainSeq
<1>2. /\ Append(q, in) \in Seq(Inodes) /\ Len(Append(q, in)) = ifree + 1
      /\ \A k \in 1 .. ifree : Append(q, in)[k] = q[k]
      /\ Append(q, in)[ifree + 1] = in
  BY <1>1, AppendProperties
<1>3. /\ Longer(q, in) \in [1 .. ifree + 1 -> Inodes]
      /\ \A k \in 1 .. ifree : Longer(q, in)[k] = q[k]
      /\ Longer(q, in)[ifree + 1] = in
  BY <1>1 DEF Longer
<1>4. \A k \in 1 .. ifree + 1 : k \in 1 .. ifree \/ k = ifree + 1
  BY <1>1
<1>5. Append(q, in) \in [1 .. ifree + 1 -> Inodes]
  BY <1>2, LenProperties
<1> QED
  BY <1>2, <1>3, <1>4, <1>5

\* soAllocInode hands out the inode that has been unused for longest, soFreeInode puts one
\* behind all others, and no inode is lost: InodeList implements InodeQueue.
THEOREM Implements == Spec => ImplementsInodeQueue
<1>1. Init => Queue!Init
  <2> SUFFICES ASSUME Init PROVE Queue!Init
    OBVIOUS
  <2> DEFINE q == [k \in 1 .. ITotal - 1 |-> k]
  <2>1. FreeInodes = 1 .. ITotal - 1 /\ Types /\ Chain(q)
    BY InitOK, InitialChain DEF IInv
  <2>2. FreeList = q
    <3> HIDE DEF q
    <3> QED
      BY <2>1, ChainIsFreeList
  <2>3. Inodes \ FreeInodes = {in \in Inodes : \A k \in DOMAIN q : q[k] # in}
    BY <2>1
  <2> QED
    BY <2>2, <2>3 DEF Queue!Init
<1>2. IInv /\ [Next]_vars => [Queue!Alloc \/ \E in \in Inodes : Queue!Free(in)]_Queue!vars
  <2> SUFFICES ASSUME IInv, [Next]_vars
               PROVE  [Queue!Alloc \/ \E in \in Inodes : Queue!Free(in)]_Queue!vars
    OBVIOUS
  <2>1. PICK q : Chain(q)
    BY DEF IInv
  <2>2. Types /\ Counted /\ FreeList = q
    BY <2>1, ChainIsFreeList DEF IInv
  <2>3. CASE soAllocInode
    <3>1. PICK r : r = Rest(q) /\ Types' /\ Chain(r)' /\ FreeInodes' = FreeInodes \ {ihead}
      BY <2>1, <2>2, <2>3, AllocMoves
    <3>2. FreeList' = r
      <4>1. Determined'
        BY OneChain, PTL
      <4> QED
        BY <3>1, <4>1 DEF Determined
    <3>3. ifree > 0
      BY <2>3 DEF soAllocInode, AllocOfMany, AllocOfTwo, AllocOfOne, Occupy
    <3>4. q # <<>> /\ Head(q) = ihead /\ Tail(q) = r
      BY <2>1, <2>2, <3>1, <3>3, RestIsTail
    <3>5. ihead \in FreeInodes /\ ihead \in Inodes /\ Inodes' = Inodes
      BY <2>1, <2>2, <3>3, Ends DEF Inodes
    <3>6. (Inodes \ FreeInodes)' = (Inodes \ FreeInodes) \union {ihead}
      BY <3>1, <3>5
    <3> QED
      BY <2>2, <3>2, <3>4, <3>5, <3>6 DEF Queue!Alloc
  <2>4. ASSUME NEW in \in Inodes, soFreeInode(in)
        PROVE  Queue!Free(in)
    <3>1. PICK r : r = Longer(q, in) /\ Types' /\ Chain(r)' /\ FreeInodes' = FreeInodes \union {in}
      BY <2>1, <2>2, <2>4, FreeMoves
    <3>2. FreeList' = r
      <4>1. Determined'
        BY OneChain, PTL
      <4> QED
        BY <3>1, <4>1 DEF Determined
    <3>3. Append(q, in) = r
      BY <2>1, <2>2, <3>1, LongerIsAppend
    <3>4. in \notin FreeInodes
      BY <2>2, <2>4 DEF soFreeInode, FreeToNone, FreeToOne, FreeToMany, Release, FreeInodes
    <3>5. (Inodes \ FreeInodes)' = (Inodes \ FreeInodes) \ {in}
      BY <3>1 DEF Inodes
    <3> QED
      BY <2>2, <3>2, <3>3, <3>4, <3>5 DEF Queue!Free
  <2>5. CASE UNCHANGED vars
    <3>1. FreeInodes' = FreeInodes /\ FreeList' = FreeList
      BY <2>5 DEF vars, FreeList, FreeInodes
    <3> QED
      BY <3>1 DEF Queue!vars, Inodes
  <2> QED
    BY <2>3, <2>4, <2>5 DEF Next
<1> QED
  BY <1>1, <1>2, Inductive, PTL DEF Spec, ImplementsInodeQueue, Queue!Spec
=============================================================================
