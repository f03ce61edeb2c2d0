---------------------------- MODULE MemStoreProofs ---------------------------
(***************************************************************************)
(* The operators of MemStore keep the type of the store, what was added is *)
(* found under its source_dir exactly if its target_dir has the same hash, *)
(* and nothing that was found gets lost.                                   *)
(***************************************************************************)
EXTENDS MemStore, SequenceTheorems, WellFoundedInduction, TLAPS

(* A set of numbers that is not empty has a least one. *)
LEMMA LeastNumber ==
  ASSUME NEW S \in SUBSET Nat, S # {}
  PROVE  \E m \in S : \A n \in S : m <= n
<1> DEFINE R == OpToRel(<, Nat)
<1>1. \A m, n \in Nat : m < n => <<m, n>> \in R
  BY DEF OpToRel
<1>2. IsWellFoundedOn(R, Nat)
  BY NatLessThanWellFounded
<1> HIDE DEF R
<1>3. PICK m \in S : \A n \in S : ~(<<n, m>> \in R)
  BY <1>2, WFMin
<1>4. \A n \in S : m <= n
  <2> SUFFICES ASSUME NEW n \in S PROVE m <= n
    OBVIOUS
  <2>1. m \in Nat /\ n \in Nat /\ ~(n < m)
    BY <1>1, <1>3
  <2> QED BY <2>1
<1> QED BY <1>4

(* An entry that is found is at a position of the chain of its source. *)
LEMMA PositionFacts ==
  ASSUME NEW mem \in Store, NEW source \in Dir, IsFound(mem, source)
  PROVE  /\ Position(mem, source) \in Matches(mem, source)
         /\ Position(mem, source) \in DOMAIN mem.chain[Bucket(source)]
         /\ sync_info_mem_store_find(mem, source) \in DirInfo
         /\ sync_info_mem_store_find(mem, source).source = source
<1>1. Bucket(source) \in Buckets
  BY DEF Buckets
<1>2. mem.chain[Bucket(source)] \in Seq(DirInfo)
  BY <1>1 DEF Store
<1>3. Matches(mem, source) \in SUBSET Nat /\ Matches(mem, source) # {}
  BY <1>2, LenProperties DEF Matches, IsFound
<1>4. \E i \in Matches(mem, source) : \A j \in Matches(mem, source) : i <= j
  BY <1>3, LeastNumber
<1>5. Position(mem, source) \in Matches(mem, source)
  BY <1>4 DEF Position
<1>6. /\ Position(mem, source) \in DOMAIN mem.chain[Bucket(source)]
      /\ mem.chain[Bucket(source)][Position(mem, source)].source = source
  BY <1>5 DEF Matches
<1>7. sync_info_mem_store_find(mem, source) \in DirInfo
  BY <1>2, <1>6, LenProperties, ElementOfSeq DEF sync_info_mem_store_find
<1> QED BY <1>5, <1>6, <1>7 DEF sync_info_mem_store_find

(* The empty store. *)
LEMMA CreateType == sync_info_mem_store_create \in Store
BY EmptySeq DEF sync_info_mem_store_create, Store

(* What is added lands in the chain of its target, everything else stays. *)
LEMMA AddFacts ==
  ASSUME NEW mem \in Store, NEW info \in DirInfo
  PROVE  LET mem2 == sync_info_mem_store_add(mem, info)
         IN /\ mem2 \in Store
            /\ \E k \in DOMAIN mem2.chain[Bucket(info.target)] :
                 mem2.chain[Bucket(info.target)][k] = info
            /\ \A b \in Buckets : \A k \in DOMAIN mem.chain[b] :
                 \E j \in DOMAIN mem2.chain[b] : mem2.chain[b][j] = mem.chain[b][k]
<1> DEFINE b == Bucket(info.target)
           old == mem.chain[b]
           new == IF old = <<>> THEN <<info>> ELSE lnode_add_next(old, info)
           mem2 == sync_info_mem_store_add(mem, info)
<1>1. b \in Buckets /\ mem.chain \in [Buckets -> Seq(DirInfo)] /\ mem.size \in Nat
  BY DEF Buckets, DirInfo, Store
<1>2. old \in Seq(DirInfo)
  BY <1>1
<1>3. mem2.size = mem.size + 1 /\ mem2.chain = [mem.chain EXCEPT ![b] = new]
  BY DEF sync_info_mem_store_add
<1>4. /\ new \in Seq(DirInfo)
      /\ \E k \in DOMAIN new : new[k] = info
      /\ \A k \in DOMAIN old : \E j \in DOMAIN new : new[j] = old[k]
  <2>1. CASE old = <<>>
    BY <2>1
  <2>2. CASE old # <<>>
    <3> DEFINE h == <<Head(old), info>>
               t == Tail(old)
    <3>1. /\ Len(old) \in Nat /\ DOMAIN old = 1..Len(old) /\ Len(old) # 0
          /\ Head(old) \in DirInfo /\ Head(old) = old[1]
          /\ t \in Seq(DirInfo) /\ Len(t) = Len(old) - 1
          /\ \A k \in 1..Len(t) : t[k] = old[k + 1]
      BY <1>2, <2>2, HeadTailProperties, LenProperties, EmptySeq
    <3>2. h \in Seq(DirInfo) /\ Len(h) = 2 /\ h[1] = Head(old) /\ h[2] = info
      BY <3>1
    <3>3. new = h \o t
      BY <2>2 DEF lnode_add_next
    <3> HIDE DEF h, t, new, old
    <3>4. /\ new \in Seq(DirInfo)
          /\ Len(new) = 2 + Len(t)
          /\ \A k \in 1..2 + Len(t) : new[k] = IF k <= 2 THEN h[k] ELSE t[k - 2]
      <4>1. h \in Seq(DirInfo) /\ t \in Seq(DirInfo) /\ Len(h) = 2
        BY <3>1, <3>2
      <4>2. /\ h \o t \in Seq(DirInfo)
            /\ Len(h \o t) = Len(h) + Len(t)
            /\ \A k \in 1..Len(h) + Len(t) :
                 (h \o t)[k] = IF k <= Len(h) THEN h[k] ELSE t[k - Len(h)]
        BY <4>1, ConcatProperties
      <4> QED BY <4>1, <4>2, <3>3
    <3>5. DOMAIN new = 1..2 + Len(t)
      BY <3>4, LenProperties
    <3>6. 2 \in DOMAIN new /\ new[2] = info
      BY <3>1, <3>2, <3>4, <3>5
    <3>7. ASSUME NEW k \in DOMAIN old
          PROVE  \E j \in DOMAIN new : new[j] = old[k]
      <4>1. CASE k = 1
        <5>1. 1 \in DOMAIN new /\ new[1] = old[1]
          BY <3>1, <3>2, <3>4, <3>5
        <5> QED BY <4>1, <5>1
      <4>2. CASE k # 1
        <5>1. k + 1 \in DOMAIN new /\ ~(k + 1 <= 2) /\ k - 1 \in 1..Len(t)
          BY <4>2, <3>1, <3>5
        <5>2. new[k + 1] = t[k - 1]
          BY <5>1, <3>1, <3>4, <3>5
        <5>3. t[k - 1] = old[k]
          BY <5>1, <3>1
        <5> QED BY <5>1, <5>2, <5>3
      <4> QED BY <4>1, <4>2
    <3> QED BY <3>4, <3>6, <3>7
  <2> QED BY <2>1, <2>2
<1> HIDE DEF new
<1>5. mem2 \in Store
  BY <1>1, <1>3, <1>4 DEF Store, sync_info_mem_store_add, new
<1>6. mem2.chain[b] = new /\ \A c \in Buckets : c # b => mem2.chain[c] = mem.chain[c]
  BY <1>1, <1>3
<1> HIDE DEF mem2
<1>7. \A c \in Buckets : \A k \in DOMAIN mem.chain[c] :
        \E j \in DOMAIN mem2.chain[c] : mem2.chain[c][j] = mem.chain[c][k]
  <2> SUFFICES ASSUME NEW c \in Buckets, NEW k \in DOMAIN mem.chain[c]
               PROVE  \E j \in DOMAIN mem2.chain[c] : mem2.chain[c][j] = mem.chain[c][k]
    OBVIOUS
  <2>1. CASE c = b
    BY <2>1, <1>4, <1>6
  <2>2. CASE c # b
    BY <2>2, <1>6
  <2> QED BY <2>1, <2>2
<1> QED BY <1>4, <1>5, <1>6, <1>7 DEF mem2

(* A write through the pointer that find returned, of an entry that keeps its
   source. *)
LEMMA OverwriteFacts ==
  ASSUME NEW mem \in Store, NEW source \in Dir, IsFound(mem, source),
         NEW info \in DirInfo, info.source = source
  PROVE  LET mem2 == Overwrite(mem, source, info)
         IN /\ mem2 \in Store
            /\ \A d \in Dir : IsFound(mem, d) => IsFound(mem2, d)
<1> DEFINE b == Bucket(source)
           n == Position(mem, source)
           old == mem.chain[b]
           new == [old EXCEPT ![n] = info]
           mem2 == Overwrite(mem, source, info)
<1>1. b \in Buckets /\ mem.chain \in [Buckets -> Seq(DirInfo)] /\ mem.size \in Nat
  BY DEF Buckets, Store
<1>2. old \in Seq(DirInfo) /\ n \in DOMAIN old /\ old[n].source = source
  BY <1>1, PositionFacts DEF Matches
<1>3. /\ new \in Seq(DirInfo) /\ DOMAIN new = DOMAIN old
      /\ \A k \in DOMAIN old : new[k] = IF k = n THEN info ELSE old[k]
  BY <1>2, ExceptSeq, LenProperties
<1>4. mem2.size = mem.size /\ mem2.chain = [mem.chain EXCEPT ![b] = new]
  BY <1>1 DEF Overwrite, Store
<1> HIDE DEF new, n
<1>5. mem2 \in Store
  BY <1>1, <1>3, <1>4 DEF Store, Overwrite
<1>6. mem2.chain[b] = new /\ \A c \in Buckets : c # b => mem2.chain[c] = mem.chain[c]
  BY <1>1, <1>4
<1> HIDE DEF mem2
<1>7. ASSUME NEW d \in Dir, IsFound(mem, d) PROVE IsFound(mem2, d)
  <2>1. PICK k \in DOMAIN mem.chain[Bucket(d)] : mem.chain[Bucket(d)][k].source = d
    BY <1>7 DEF IsFound, Matches
  <2>2. Bucket(d) \in Buckets
    BY DEF Buckets
  <2>3. /\ k \in DOMAIN mem2.chain[Bucket(d)]
        /\ mem2.chain[Bucket(d)][k].source = d
    <3>1. CASE Bucket(d) = b
      BY <3>1, <2>1, <1>2, <1>3, <1>6
    <3>2. CASE Bucket(d) # b
      BY <3>2, <2>1, <2>2, <1>6
    <3> QED BY <3>1, <3>2
  <2> QED BY <2>3 DEF IsFound, Matches
<1> QED BY <1>5, <1>7 DEF mem2

(* The position of an entry that is found is the only least match. *)
LEMMA PositionIsLeast ==
  ASSUME NEW mem \in Store, NEW d \in Dir,
         NEW i \in Matches(mem, d), \A j \in Matches(mem, d) : i <= j
  PROVE  Position(mem, d) = i
<1>1. Bucket(d) \in Buckets
  BY DEF Buckets
<1>2. mem.chain[Bucket(d)] \in Seq(DirInfo)
  BY <1>1 DEF Store
<1>3. Matches(mem, d) \subseteq Nat
  BY <1>2, LenProperties DEF Matches
<1>4. /\ Position(mem, d) \in Matches(mem, d)
      /\ \A j \in Matches(mem, d) : Position(mem, d) <= j
  <2> DEFINE P(n) == \A j \in Matches(mem, d) : n <= j
  <2>1. \E n \in Matches(mem, d) : P(n)
    OBVIOUS
  <2> QED BY <2>1 DEF Position
<1> QED BY <1>3, <1>4

(* After a write through the pointer that find returned, find returns what
   was written for that source, and for every other source what it did. *)
LEMMA OverwriteFind ==
  ASSUME NEW mem \in Store, NEW source \in Dir, IsFound(mem, source),
         NEW info \in DirInfo, info.source = source
  PROVE  LET mem2 == Overwrite(mem, source, info)
         IN /\ \A d \in Dir : IsFound(mem2, d) <=> IsFound(mem, d)
            /\ sync_info_mem_store_find(mem2, source) = info
            /\ \A d \in Dir : IsFound(mem, d) /\ d # source =>
                 sync_info_mem_store_find(mem2, d) = sync_info_mem_store_find(mem, d)
<1> DEFINE b == Bucket(source)
           n == Position(mem, source)
           old == mem.chain[b]
           new == [old EXCEPT ![n] = info]
           mem2 == Overwrite(mem, source, info)
<1>1. b \in Buckets /\ mem.chain \in [Buckets -> Seq(DirInfo)]
  BY DEF Buckets, Store
<1>2. old \in Seq(DirInfo) /\ n \in DOMAIN old /\ old[n].source = source
  BY <1>1, PositionFacts DEF Matches
<1>3. /\ DOMAIN new = DOMAIN old
      /\ \A k \in DOMAIN old : new[k] = IF k = n THEN info ELSE old[k]
  BY <1>2
<1>4. mem2.chain = [mem.chain EXCEPT ![b] = new]
  BY <1>1 DEF Overwrite, Store
<1>5. mem2.chain[b] = new /\ \A c \in Buckets : c # b => mem2.chain[c] = mem.chain[c]
  BY <1>1, <1>4
<1> HIDE DEF new, n, mem2
<1>6. ASSUME NEW d \in Dir PROVE Matches(mem2, d) = Matches(mem, d)
  <2>1. Bucket(d) \in Buckets
    BY DEF Buckets
  <2>2. CASE Bucket(d) = b
    BY <2>2, <1>2, <1>3, <1>5 DEF Matches
  <2>3. CASE Bucket(d) # b
    BY <2>1, <2>3, <1>5 DEF Matches
  <2> QED BY <2>2, <2>3
<1>7. ASSUME NEW d \in Dir PROVE Position(mem2, d) = Position(mem, d)
  BY <1>6 DEF Position
<1>8. sync_info_mem_store_find(mem2, source) = info
  BY <1>2, <1>3, <1>5, <1>7 DEF sync_info_mem_store_find, n
<1>9. ASSUME NEW d \in Dir, IsFound(mem, d), d # source
      PROVE  sync_info_mem_store_find(mem2, d) = sync_info_mem_store_find(mem, d)
  <2> DEFINE p == Position(mem, d)
  <2>1. Bucket(d) \in Buckets
    BY DEF Buckets
  <2>2. p \in DOMAIN mem.chain[Bucket(d)] /\ mem.chain[Bucket(d)][p].source = d
    BY <1>9, PositionFacts DEF Matches
  <2>3. mem2.chain[Bucket(d)][p] = mem.chain[Bucket(d)][p]
    <3>1. CASE Bucket(d) = b
      BY <3>1, <2>2, <1>2, <1>3, <1>5, <1>9
    <3>2. CASE Bucket(d) # b
      BY <3>2, <2>1, <1>5
    <3> QED BY <3>1, <3>2
  <2> QED BY <2>3, <1>7 DEF sync_info_mem_store_find
<1> QED BY <1>6, <1>8, <1>9 DEF IsFound, mem2

(* What find returns after an add is the new entry, under its own source, or
   what it returned before. *)
LEMMA AddFind ==
  ASSUME NEW mem \in Store, NEW info \in DirInfo, NEW d \in Dir,
         IsFound(sync_info_mem_store_add(mem, info), d)
  PROVE  LET mem2 == sync_info_mem_store_add(mem, info)
         IN \/ d = info.source /\ sync_info_mem_store_find(mem2, d) = info
            \/ /\ IsFound(mem, d)
               /\ sync_info_mem_store_find(mem2, d) = sync_info_mem_store_find(mem, d)
<1> DEFINE b == Bucket(info.target)
           old == mem.chain[b]
           new == IF old = <<>> THEN <<info>> ELSE lnode_add_next(old, info)
           mem2 == sync_info_mem_store_add(mem, info)
           p == Position(mem2, d)
<1>1. b \in Buckets /\ mem.chain \in [Buckets -> Seq(DirInfo)] /\ Bucket(d) \in Buckets
  BY DEF Buckets, DirInfo, Store
<1>2. old \in Seq(DirInfo) /\ mem2 \in Store
  BY <1>1, AddFacts
<1>3. mem2.chain = [mem.chain EXCEPT ![b] = new]
  BY DEF sync_info_mem_store_add
<1>4. mem2.chain[b] = new /\ \A c \in Buckets : c # b => mem2.chain[c] = mem.chain[c]
  BY <1>1, <1>3
<1>5. IsFound(mem2, d)
  OBVIOUS
<1> HIDE DEF mem2
<1>6. /\ p \in Matches(mem2, d) /\ p \in DOMAIN mem2.chain[Bucket(d)]
      /\ mem2.chain[Bucket(d)][p].source = d
  BY <1>2, <1>5, PositionFacts DEF Matches
<1>7. CASE Bucket(d) # b
  <2>1. Matches(mem2, d) = Matches(mem, d) /\ mem2.chain[Bucket(d)] = mem.chain[Bucket(d)]
    BY <1>1, <1>4, <1>7 DEF Matches
  <2> QED BY <2>1, <1>5 DEF IsFound, Position, sync_info_mem_store_find, mem2
<1>8. CASE Bucket(d) = b /\ old = <<>>
  <2>1. mem2.chain[Bucket(d)] = <<info>>
    BY <1>4, <1>8
  <2>2. p = 1 /\ mem2.chain[Bucket(d)][p] = info
    BY <2>1, <1>6
  <2> QED BY <2>2, <1>6 DEF sync_info_mem_store_find, mem2
<1>9. CASE Bucket(d) = b /\ old # <<>>
  <2> DEFINE h == <<Head(old), info>>
             t == Tail(old)
  <2>1. /\ Len(old) \in Nat /\ DOMAIN old = 1..Len(old) /\ Len(old) # 0
        /\ Head(old) \in DirInfo /\ Head(old) = old[1]
        /\ t \in Seq(DirInfo) /\ Len(t) = Len(old) - 1
        /\ \A k \in 1..Len(t) : t[k] = old[k + 1]
    BY <1>2, <1>9, HeadTailProperties, LenProperties, EmptySeq
  <2>2. h \in Seq(DirInfo) /\ Len(h) = 2 /\ h[1] = Head(old) /\ h[2] = info
    BY <2>1
  <2>3. new = h \o t
    BY <1>9 DEF lnode_add_next
  <2> HIDE DEF h, t, new, old, p
  <2>4. /\ h \o t \in Seq(DirInfo) /\ Len(h \o t) = 2 + Len(t)
        /\ \A k \in 1..2 + Len(t) : (h \o t)[k] = IF k <= 2 THEN h[k] ELSE t[k - 2]
    <3>1. h \in Seq(DirInfo) /\ t \in Seq(DirInfo) /\ Len(h) = 2
      BY <2>1, <2>2
    <3>2. /\ h \o t \in Seq(DirInfo)
          /\ Len(h \o t) = Len(h) + Len(t)
          /\ \A k \in 1..Len(h) + Len(t) :
               (h \o t)[k] = IF k <= Len(h) THEN h[k] ELSE t[k - Len(h)]
      BY <3>1, ConcatProperties
    <3> QED BY <3>1, <3>2
  <2>5. /\ DOMAIN new = 1..Len(old) + 1
        /\ new[1] = old[1] /\ new[2] = info
        /\ \A k \in 2..Len(old) : new[k + 1] = old[k]
    <3>1. DOMAIN new = 1..Len(old) + 1
      BY <2>1, <2>3, <2>4, LenProperties
    <3>2. new[1] = old[1] /\ new[2] = info
      BY <2>1, <2>2, <2>3, <2>4
    <3>3. ASSUME NEW k \in 2..Len(old) PROVE new[k + 1] = old[k]
      <4>1. k + 1 \in 1..2 + Len(t) /\ ~(k + 1 <= 2) /\ k - 1 \in 1..Len(t)
            /\ (k + 1) - 2 = k - 1 /\ (k - 1) + 1 = k
        BY <2>1
      <4>2. new[k + 1] = t[k - 1]
        BY <4>1, <2>3, <2>4
      <4>3. t[k - 1] = old[(k - 1) + 1]
        BY <4>1, <2>1
      <4> QED BY <4>1, <4>2, <4>3
    <3> QED BY <3>1, <3>2, <3>3
  <2>6. /\ Matches(mem2, d) = {k \in DOMAIN new : new[k].source = d}
        /\ Matches(mem, d) = {k \in DOMAIN old : old[k].source = d}
        /\ p \in DOMAIN new /\ new[p].source = d
        /\ sync_info_mem_store_find(mem2, d) = new[p]
    BY <1>4, <1>6, <1>9 DEF Matches, sync_info_mem_store_find, p, old
  <2>7. \A k \in Matches(mem2, d) : p <= k
    <3>1. Matches(mem2, d) \in SUBSET Nat /\ Matches(mem2, d) # {}
      BY <2>1, <2>5, <2>6, <1>5 DEF IsFound
    <3>2. PICK m \in Matches(mem2, d) : \A k \in Matches(mem2, d) : m <= k
      BY <3>1, LeastNumber
    <3>3. p = m
      BY <3>2, <1>2, PositionIsLeast DEF p
    <3> QED BY <3>2, <3>3
  <2>8. CASE p = 2
    BY <2>5, <2>6, <2>8 DEF mem2
  <2>9. CASE p # 2
    <3> DEFINE q == IF p = 1 THEN 1 ELSE p - 1
    <3>1. q \in DOMAIN old /\ old[q] = new[p] /\ q \in Matches(mem, d)
      BY <2>1, <2>5, <2>6, <2>9
    <3>2. ASSUME NEW k \in Matches(mem, d) PROVE q <= k
      <4>1. k \in 1..Len(old) /\ old[k].source = d
        BY <2>1, <2>6
      <4>2. (IF k = 1 THEN 1 ELSE k + 1) \in Matches(mem2, d)
        BY <4>1, <2>1, <2>5, <2>6
      <4>3. p <= (IF k = 1 THEN 1 ELSE k + 1)
        BY <4>2, <2>7
      <4> QED BY <4>1, <4>3, <2>1, <2>5, <2>6, <2>9
    <3>3. Position(mem, d) = q
      BY <3>1, <3>2, PositionIsLeast
    <3>4. sync_info_mem_store_find(mem, d) = new[p]
      BY <3>1, <3>3, <1>9 DEF sync_info_mem_store_find, old
    <3> QED BY <3>1, <3>4, <2>6 DEF IsFound, mem2
  <2> QED BY <2>8, <2>9
<1> QED BY <1>7, <1>8, <1>9

-----------------------------------------------------------------------------
(* Where entries are.                                                      *)

(* No two entries have this source. *)
OnePlace(mem, source) ==
  \A b, c \in Buckets : \A j \in DOMAIN mem.chain[b], k \in DOMAIN mem.chain[c] :
    mem.chain[b][j].source = source /\ mem.chain[c][k].source = source => b = c /\ j = k

(* A new entry is the first or the second of its chain, and what followed it
   moves on by one. *)
LEMMA AddPlaces ==
  ASSUME NEW mem \in Store, NEW info \in DirInfo
  PROVE  LET mem2 == sync_info_mem_store_add(mem, info)
             b == Bucket(info.target)
         IN /\ b \in Buckets
            /\ \A c \in Buckets : c # b => mem2.chain[c] = mem.chain[c]
            /\ \E n \in DOMAIN mem2.chain[b] :
                 /\ n \in Nat /\ mem2.chain[b][n] = info
                 /\ \A k \in DOMAIN mem2.chain[b] : k # n =>
                      LET j == IF k < n THEN k ELSE k - 1
                      IN j \in DOMAIN mem.chain[b] /\ mem2.chain[b][k] = mem.chain[b][j]
                 /\ DOMAIN mem2.chain[b] \subseteq Nat
<1> DEFINE b == Bucket(info.target)
           old == mem.chain[b]
           new == IF old = <<>> THEN <<info>> ELSE lnode_add_next(old, info)
           mem2 == sync_info_mem_store_add(mem, info)
           P(n) == /\ n \in DOMAIN new /\ n \in Nat /\ new[n] = info
                   /\ \A k \in DOMAIN new : k # n =>
                        LET j == IF k < n THEN k ELSE k - 1
                        IN j \in DOMAIN old /\ new[k] = old[j]
                   /\ DOMAIN new \subseteq Nat
<1>1. b \in Buckets /\ mem.chain \in [Buckets -> Seq(DirInfo)]
  BY DEF Buckets, DirInfo, Store
<1>2. old \in Seq(DirInfo)
  BY <1>1
<1>3. mem2.chain = [mem.chain EXCEPT ![b] = new]
  BY DEF sync_info_mem_store_add
<1>4. \E n \in {1, 2} : P(n)
  <2>1. CASE old = <<>>
    <3>1. new = <<info>>
      BY <2>1
    <3>2. DOMAIN new = {1} /\ new[1] = info
      BY <3>1
    <3> HIDE DEF new
    <3> QED BY <3>2
  <2>2. CASE old # <<>>
    <3> DEFINE h == <<Head(old), info>>
               t == Tail(old)
    <3>1. /\ Len(old) \in Nat /\ DOMAIN old = 1..Len(old) /\ Len(old) # 0
          /\ Head(old) \in DirInfo /\ Head(old) = old[1]
          /\ t \in Seq(DirInfo) /\ Len(t) = Len(old) - 1
          /\ \A k \in 1..Len(t) : t[k] = old[k + 1]
      BY <1>2, <2>2, HeadTailProperties, LenProperties, EmptySeq
    <3>2. h \in Seq(DirInfo) /\ Len(h) = 2 /\ h[1] = Head(old) /\ h[2] = info
      BY <3>1
    <3>3. new = h \o t
      BY <2>2 DEF lnode_add_next
    <3> HIDE DEF h, t, new, old
    <3>4. /\ h \o t \in Seq(DirInfo)
          /\ Len(h \o t) = Len(h) + Len(t)
          /\ \A k \in 1..Len(h) + Len(t) :
               (h \o t)[k] = IF k <= Len(h) THEN h[k] ELSE t[k - Len(h)]
      <4>1. h \in Seq(DirInfo) /\ t \in Seq(DirInfo)
        BY <3>1, <3>2
      <4> QED BY <4>1, ConcatProperties
    <3>5. /\ DOMAIN new = 1..Len(old) + 1
          /\ \A k \in 1..Len(old) + 1 : new[k] = IF k <= 2 THEN h[k] ELSE t[k - 2]
      BY <3>1, <3>2, <3>3, <3>4, LenProperties
    <3>6. 2 \in DOMAIN new /\ new[2] = info
      BY <3>1, <3>2, <3>5
    <3>7. ASSUME NEW k \in DOMAIN new, k # 2
          PROVE  LET j == IF k < 2 THEN k ELSE k - 1
                 IN j \in DOMAIN old /\ new[k] = old[j]
      <4>1. CASE k = 1
        BY <4>1, <3>1, <3>2, <3>5
      <4>2. CASE k > 2
        <5>1. k - 1 \in DOMAIN old /\ k - 2 \in 1..Len(t) /\ new[k] = t[k - 2]
          BY <4>2, <3>1, <3>5
        <5>2. t[k - 2] = old[(k - 2) + 1] /\ (k - 2) + 1 = k - 1
          BY <5>1, <3>1, <3>5
        <5> QED BY <4>2, <5>1, <5>2, <3>5
      <4> QED BY <4>1, <4>2, <3>5, <3>7
    <3>8. DOMAIN new \subseteq Nat
      BY <3>5
    <3> QED BY <3>6, <3>7, <3>8
  <2> QED BY <2>1, <2>2
<1>5. mem2.chain[b] = new /\ \A c \in Buckets : c # b => mem2.chain[c] = mem.chain[c]
  BY <1>1, <1>3
<1> HIDE DEF new, mem2
<1> QED BY <1>1, <1>4, <1>5 DEF mem2

(* The entries are those there were, and the new one. *)
LEMMA AddEntries ==
  ASSUME NEW mem \in Store, NEW info \in DirInfo
  PROVE  Entries(sync_info_mem_store_add(mem, info)) = Entries(mem) \cup {info}
<1> DEFINE mem2 == sync_info_mem_store_add(mem, info)
           b == Bucket(info.target)
<1>1. /\ b \in Buckets
      /\ \A c \in Buckets : c # b => mem2.chain[c] = mem.chain[c]
      /\ \E n \in DOMAIN mem2.chain[b] :
           /\ mem2.chain[b][n] = info
           /\ \A k \in DOMAIN mem2.chain[b] : k # n =>
                \E j \in DOMAIN mem.chain[b] : mem2.chain[b][k] = mem.chain[b][j]
  BY AddPlaces
<1>2. \A c \in Buckets : \A k \in DOMAIN mem.chain[c] :
        \E j \in DOMAIN mem2.chain[c] : mem2.chain[c][j] = mem.chain[c][k]
  BY AddFacts
<1> HIDE DEF mem2, b
<1>3. Entries(mem2) \subseteq Entries(mem) \cup {info}
  BY <1>1 DEF Entries
<1>4. Entries(mem) \subseteq Entries(mem2)
  BY <1>2 DEF Entries
<1>5. info \in Entries(mem2)
  BY <1>1 DEF Entries
<1> QED BY <1>3, <1>4, <1>5 DEF mem2

(* After an add a directory is found if it was before, or if it is the new
   entry's source and the target falls in its bucket. *)
LEMMA AddIsFound ==
  ASSUME NEW mem \in Store, NEW info \in DirInfo, NEW d \in Dir
  PROVE  IsFound(sync_info_mem_store_add(mem, info), d) <=>
           IsFound(mem, d) \/ (d = info.source /\ Bucket(info.target) = Bucket(d))
<1> DEFINE mem2 == sync_info_mem_store_add(mem, info)
           b == Bucket(info.target)
<1>1. /\ \E k \in DOMAIN mem2.chain[b] : mem2.chain[b][k] = info
      /\ \A c \in Buckets : \A k \in DOMAIN mem.chain[c] :
           \E j \in DOMAIN mem2.chain[c] : mem2.chain[c][j] = mem.chain[c][k]
  BY AddFacts
<1>2. /\ \A c \in Buckets : c # b => mem2.chain[c] = mem.chain[c]
      /\ \A k \in DOMAIN mem2.chain[b] :
           \/ mem2.chain[b][k] = info
           \/ \E j \in DOMAIN mem.chain[b] : mem2.chain[b][k] = mem.chain[b][j]
  <2> DEFINE new == mem2.chain[b]
             old == mem.chain[b]
  <2>1. /\ \A c \in Buckets : c # b => mem2.chain[c] = mem.chain[c]
        /\ \E n \in DOMAIN new :
             /\ new[n] = info
             /\ \A k \in DOMAIN new : k # n =>
                  \E j \in DOMAIN old : new[k] = old[j]
    BY AddPlaces
  <2> QED BY <2>1
<1>3. Bucket(d) \in Buckets
  BY DEF Buckets
<1> HIDE DEF mem2, b
<1>4. ASSUME IsFound(mem, d) \/ (d = info.source /\ b = Bucket(d))
      PROVE  IsFound(mem2, d)
  BY <1>1, <1>3, <1>4 DEF IsFound, Matches
<1>5. ASSUME IsFound(mem2, d)
      PROVE  IsFound(mem, d) \/ (d = info.source /\ b = Bucket(d))
  BY <1>2, <1>3, <1>5 DEF IsFound, Matches
<1> QED BY <1>4, <1>5 DEF mem2, b

(* A source that has one place keeps it, one that is new gets one. *)
LEMMA AddOnce ==
  ASSUME NEW mem \in Store, NEW info \in DirInfo, NEW source, OnePlace(mem, source),
         source = info.source => \A e \in Entries(mem) : e.source # source
  PROVE  OnePlace(sync_info_mem_store_add(mem, info), source)
<1> DEFINE mem2 == sync_info_mem_store_add(mem, info)
           b == Bucket(info.target)
           old == mem.chain[b]
           new == mem2.chain[b]
<1>1. /\ b \in Buckets
      /\ \A c \in Buckets : c # b => mem2.chain[c] = mem.chain[c]
      /\ \E n \in DOMAIN new :
           /\ n \in Nat /\ new[n] = info
           /\ \A k \in DOMAIN new : k # n =>
                LET j == IF k < n THEN k ELSE k - 1 IN j \in DOMAIN old /\ new[k] = old[j]
           /\ DOMAIN new \subseteq Nat
  BY AddPlaces
<1>2. PICK n \in DOMAIN new :
           /\ n \in Nat /\ new[n] = info
           /\ \A k \in DOMAIN new : k # n =>
                LET j == IF k < n THEN k ELSE k - 1 IN j \in DOMAIN old /\ new[k] = old[j]
           /\ DOMAIN new \subseteq Nat
  BY <1>1
<1>3. source = info.source =>
        \A c \in Buckets : \A k \in DOMAIN mem.chain[c] : mem.chain[c][k].source # source
  BY DEF Entries
<1> HIDE DEF mem2, b
<1>4. SUFFICES ASSUME NEW c \in Buckets, NEW d \in Buckets,
                      NEW j \in DOMAIN mem2.chain[c], NEW k \in DOMAIN mem2.chain[d],
                      mem2.chain[c][j].source = source, mem2.chain[d][k].source = source
               PROVE  c = d /\ j = k
  BY DEF OnePlace, mem2
<1>5. CASE c # b /\ d # b
  BY <1>1, <1>4, <1>5 DEF OnePlace
<1>6. CASE c = b /\ d # b
  <2>1. mem2.chain[d][k] = mem.chain[d][k] /\ k \in DOMAIN mem.chain[d]
    BY <1>1, <1>6
  <2>2. CASE j = n
    BY <2>1, <2>2, <1>2, <1>3, <1>4, <1>6
  <2>3. CASE j # n
    <3>1. PICK i \in DOMAIN old : new[j] = old[i]
      BY <2>3, <1>2, <1>6
    <3> QED BY <2>1, <3>1, <1>1, <1>4, <1>6 DEF OnePlace
  <2> QED BY <2>2, <2>3
<1>7. CASE c # b /\ d = b
  <2>1. mem2.chain[c][j] = mem.chain[c][j] /\ j \in DOMAIN mem.chain[c]
    BY <1>1, <1>7
  <2>2. CASE k = n
    BY <2>1, <2>2, <1>2, <1>3, <1>4, <1>7
  <2>3. CASE k # n
    <3>1. PICK i \in DOMAIN old : new[k] = old[i]
      BY <2>3, <1>2, <1>7
    <3> QED BY <2>1, <3>1, <1>1, <1>4, <1>7 DEF OnePlace
  <2> QED BY <2>2, <2>3
<1>8. CASE c = b /\ d = b
  <2> DEFINE at(i) == IF i < n THEN i ELSE i - 1
  <2>1. j \in DOMAIN new /\ k \in DOMAIN new /\ new[j].source = source /\ new[k].source = source
    BY <1>4, <1>8
  <2>2. \A i \in DOMAIN new : i # n => at(i) \in DOMAIN old /\ new[i] = old[at(i)]
    BY <1>2
  <2>3. j \in Nat /\ k \in Nat /\ n \in Nat
    BY <2>1, <1>2
  <2>4. CASE j = n /\ k = n
    BY <2>4, <1>8
  <2>5. CASE (j = n) # (k = n)
    BY <2>1, <2>2, <2>5, <1>1, <1>2, <1>3
  <2>6. CASE j # n /\ k # n
    <3>1. at(j) = at(k)
      <4> HIDE DEF at
      <4> QED BY <2>1, <2>2, <2>6, <1>1 DEF OnePlace
    <3>2. j = k
      BY <2>3, <2>6, <3>1
    <3> QED BY <3>2, <1>8
  <2> QED BY <2>4, <2>5, <2>6
<1> QED BY <1>5, <1>6, <1>7, <1>8

(* A write through the pointer that find returned changes one place. *)
LEMMA OverwritePlaces ==
  ASSUME NEW mem \in Store, NEW source \in Dir, IsFound(mem, source),
         NEW info \in DirInfo, info.source = source
  PROVE  LET mem2 == Overwrite(mem, source, info)
             b == Bucket(source)
             n == Position(mem, source)
         IN /\ b \in Buckets /\ n \in DOMAIN mem.chain[b] /\ mem.chain[b][n].source = source
            /\ \A c \in Buckets :
                 /\ DOMAIN mem2.chain[c] = DOMAIN mem.chain[c]
                 /\ \A k \in DOMAIN mem.chain[c] :
                      mem2.chain[c][k] = IF c = b /\ k = n THEN info ELSE mem.chain[c][k]
            /\ \A d : OnePlace(mem, d) => OnePlace(mem2, d)
<1> DEFINE b == Bucket(source)
           n == Position(mem, source)
           old == mem.chain[b]
           new == [old EXCEPT ![n] = info]
           mem2 == Overwrite(mem, source, info)
<1>1. b \in Buckets /\ mem.chain \in [Buckets -> Seq(DirInfo)]
  BY DEF Buckets, Store
<1>2. old \in Seq(DirInfo) /\ n \in DOMAIN old /\ old[n].source = source
  BY <1>1, PositionFacts DEF Matches
<1>3. DOMAIN new = DOMAIN old /\ \A k \in DOMAIN old : new[k] = IF k = n THEN info ELSE old[k]
  BY <1>2
<1>4. mem2.chain = [mem.chain EXCEPT ![b] = new]
  BY <1>1 DEF Overwrite, Store
<1>5. mem2.chain[b] = new /\ \A c \in Buckets : c # b => mem2.chain[c] = mem.chain[c]
  BY <1>1, <1>4
<1> HIDE DEF new, n, mem2, b
<1>6. \A c \in Buckets :
        /\ DOMAIN mem2.chain[c] = DOMAIN mem.chain[c]
        /\ \A k \in DOMAIN mem.chain[c] :
             mem2.chain[c][k] = IF c = b /\ k = n THEN info ELSE mem.chain[c][k]
  BY <1>2, <1>3, <1>5
<1>7. \A c \in Buckets : \A k \in DOMAIN mem.chain[c] :
        mem2.chain[c][k].source = mem.chain[c][k].source
  BY <1>2, <1>6
<1>8. \A d : OnePlace(mem, d) => OnePlace(mem2, d)
  BY <1>6, <1>7 DEF OnePlace
<1> QED BY <1>1, <1>2, <1>6, <1>8 DEF mem2, n, b
=============================================================================
