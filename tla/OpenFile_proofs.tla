-------------------------- MODULE OpenFile_proofs ---------------------------
(***************************************************************************)
(* For any number of threads and any size of the cache and the file: until *)
(* calls overlap on its list the cache never outgrows its size nor holds a *)
(* cluster twice; the variables keep their types; the record of an open    *)
(* file follows the size in the directory while there is one record; and,  *)
(* but for the mishaps that damage names, what users write is kept in the  *)
(* cache, in the hands of a thread or on the device.                       *)
(***************************************************************************)
EXTENDS OpenFile, Fat_proofs

isBlock(b) == "cluster_no" \in DOMAIN b
isRecord(r) == r = [first |-> r.first, size |-> r.size, open_count |-> r.open_count]

\* Lists of blocks, whatever the blocks hold.
isCache(q) ==
    /\ Len(q) \in Nat
    /\ q = [i \in 1 .. Len(q) |-> q[i]]
    /\ \A i \in 1 .. Len(q) : isBlock(q[i])

CacheInv ==
    /\ max_blocks \in Nat /\ isCache(cache) /\ CacheShape
    /\ max_blocks = 0 => Len(cache) = 0

\* What is known to have gone wrong stays known.
LEMMA Damages == [Next]_vars => damage \subseteq damage'
<1> SUFFICES ASSUME [Next]_vars PROVE damage \subseteq damage'
  OBVIOUS
<1>1. ASSUME NEW t \in Threads,
             Open(t) \/ GetEntry(t) \/ BeginTruncatePath(t) \/ Begin(t) \/ Fetch(t)
             \/ PutOut(t) \/ Unlock(t) \/ FlushWrite(t) \/ FlushEnd(t) \/ Release(t)
             \/ Overlap(t) \/ Die(t)
      PROVE  damage \subseteq damage'
  BY <1>1 DEF Open, GetEntry, BeginTruncatePath, Begin, Fetch, PutOut, Unlock, FlushWrite,
     FlushEnd, Release, Overlap, Die
<1>2. ASSUME NEW t \in Threads,
             AddRecord(t) \/ Truncate(t) \/ ReadLookup(t) \/ WriteLock(t) \/ WriteLookup(t)
             \/ WriteCopy(t) \/ FlushTake(t)
      PROVE  damage \subseteq damage'
  BY <1>2 DEF AddRecord, Truncate, ReadLookup, WriteLock, WriteLookup, WriteCopy, FlushTake,
     fat32_truncate, Lookup, because
<1>3. ASSUME NEW t \in Threads, Keep(t) PROVE damage \subseteq damage'
  BY <1>3 DEF Keep, CACHE_write_block
<1>4. CASE Recreate \/ Tick \/ UNCHANGED vars
  BY <1>4 DEF Recreate, Tick, vars, because
<1> QED
  BY <1>1, <1>2, <1>3, <1>4 DEF Next

\* A search that finds nothing has met every block.
LEMMA NoneCached ==
    ASSUME DOMAIN cache = 1 .. Len(cache), Len(cache) \in Nat, NEW c, cached(c) = {}
    PROVE  \A i \in DOMAIN cache : cache[i].cluster_no # c
<1> DEFINE n == Len(cache)
           S == {k \in 0 .. n : \A i \in 1 .. k : cache[i].cluster_no # c}
<1>0. n \in Nat /\ DOMAIN cache = 1 .. n
  OBVIOUS
<1> HIDE DEF n
<1>1. 0 \in S
  BY <1>0
<1>2. ASSUME NEW k \in 0 .. n - 1, k \in S PROVE k + 1 \in S
  <2>1. k + 1 \in 1 .. n /\ (k + 1) - 1 = k /\ k + 1 \in 0 .. n
    BY <1>0
  <2>2. \A i \in 1 .. k : cache[i].cluster_no # c
    BY <1>2
  <2>3. cache[k + 1].cluster_no # c
    BY <1>0, <2>1, <2>2 DEF cached
  <2>4. \A i \in 1 .. k + 1 : i \in 1 .. k \/ i = k + 1
    BY <2>1
  <2> QED
    BY <2>1, <2>2, <2>3, <2>4
<1> HIDE DEF S
<1>3. 0 .. n \subseteq S
  BY <1>0, <1>1, <1>2, UpTo
<1>4. n \in S
  BY <1>0, <1>3
<1> QED
  BY <1>0, <1>4 DEF S

\* In a cache that has each cluster once the search finds the block there is.
LEMMA CachedBlock ==
    ASSUME DOMAIN cache = 1 .. Len(cache), Len(cache) \in Nat,
           \A i, j \in DOMAIN cache : cache[i].cluster_no = cache[j].cluster_no => i = j
    PROVE  \A c, i : i \in cached(c) <=> i \in DOMAIN cache /\ cache[i].cluster_no = c
<1> DEFINE n == Len(cache)
<1>0. n \in Nat /\ DOMAIN cache = 1 .. n
  OBVIOUS
<1> HIDE DEF n
<1> SUFFICES ASSUME NEW c, NEW i \in DOMAIN cache, cache[i].cluster_no = c PROVE i \in cached(c)
  BY DEF cached
<1>1. ASSUME NEW j \in 1 .. i - 1 PROVE j \in DOMAIN cache /\ j # i
  BY <1>0
<1> QED
  BY <1>1 DEF cached

\* A cache on which no calls overlapped.
LEMMA ShapeFacts ==
    ASSUME CacheInv, damage = {}
    PROVE  /\ Len(cache) <= max_blocks
           /\ \A i, j \in DOMAIN cache : cache[i].cluster_no = cache[j].cluster_no => i = j
           /\ \A c, i : i \in cached(c) <=> i \in DOMAIN cache /\ cache[i].cluster_no = c
<1>1. DOMAIN cache = 1 .. Len(cache) /\ Len(cache) \in Nat
  BY DEF CacheInv, isCache
<1>2. Len(cache) <= max_blocks
      /\ \A i, j \in DOMAIN cache : cache[i].cluster_no = cache[j].cluster_no => i = j
  BY DEF CacheInv, CacheShape
<1> QED
  BY <1>1, <1>2, CachedBlock

\* A list as long as before in which each block has the cluster it had.
LEMMA SameClusters ==
    ASSUME CacheInv, damage \subseteq damage', max_blocks' = max_blocks, isCache(cache'),
           Len(cache') = Len(cache),
           \A i \in 1 .. Len(cache) : cache'[i].cluster_no = cache[i].cluster_no
    PROVE  CacheInv'
<1>1. DOMAIN cache = 1 .. Len(cache) /\ DOMAIN cache' = 1 .. Len(cache)
  BY DEF CacheInv, isCache
<1> QED
  BY <1>1 DEF CacheInv, CacheShape, isCache

LEMMA InitCache == Init => CacheInv
  BY CacheAssumption DEF Init, CacheInv, CacheShape, isCache

\* The same blocks but for their age, content or mark.
LEMMA Mapped ==
    ASSUME CacheInv, damage \subseteq damage', max_blocks' = max_blocks,
           cache' = [i \in DOMAIN cache |-> cache'[i]],
           \A i \in DOMAIN cache : isBlock(cache'[i]) /\ cache'[i].cluster_no = cache[i].cluster_no
    PROVE  CacheInv'
<1>1. DOMAIN cache = 1 .. Len(cache) /\ Len(cache) \in Nat
  BY DEF CacheInv, isCache
<1>2. cache' = [i \in 1 .. Len(cache) |-> cache'[i]]
  BY <1>1
<1>3. Len(cache') = Len(cache)
  BY <1>1, <1>2
<1>4. isCache(cache')
  BY <1>1, <1>2, <1>3 DEF isCache
<1> QED
  BY <1>1, <1>2, <1>3, <1>4, SameClusters

LEMMA Frame ==
    ASSUME CacheInv, UNCHANGED <<cache, max_blocks>>, damage \subseteq damage'
    PROVE  CacheInv'
  BY DEF CacheInv, CacheShape, isCache

LEMMA LookupStep ==
    ASSUME CacheInv, NEW t \in Threads, Lookup(t), UNCHANGED max_blocks,
           damage \subseteq damage'
    PROVE  CacheInv'
<1> DEFINE c == clusterAt(op[t].offset)
<1>1. cache' = [i \in DOMAIN cache |-> IF i \in cached(c) THEN fresh(cache[i]) ELSE cache[i]]
  BY DEF Lookup
<1> HIDE DEF c
<1>2. \A i \in DOMAIN cache : isBlock(cache[i])
  BY DEF CacheInv, isCache
<1>3. ASSUME NEW i \in DOMAIN cache
      PROVE  isBlock(cache'[i]) /\ cache'[i].cluster_no = cache[i].cluster_no
  <2>1. cache'[i] = fresh(cache[i]) \/ cache'[i] = cache[i]
    BY <1>1
  <2>2. isBlock(fresh(cache[i])) /\ fresh(cache[i]).cluster_no = cache[i].cluster_no
    BY <1>2 DEF isBlock, fresh
  <2> QED
    BY <1>2, <2>1, <2>2
<1>4. cache' = [i \in DOMAIN cache |-> cache'[i]]
  BY <1>1
<1> QED
  BY <1>3, <1>4, Mapped

LEMMA TickStep == ASSUME CacheInv, Tick, damage \subseteq damage' PROVE CacheInv'
<1>1. cache' = [i \in DOMAIN cache |->
                  [cache[i] EXCEPT !.age = IF @ < MaxAge THEN @ + 1 ELSE @]]
      /\ UNCHANGED max_blocks
  BY DEF Tick
<1>2. \A i \in DOMAIN cache : isBlock(cache[i])
  BY DEF CacheInv, isCache
<1>3. \A i \in DOMAIN cache :
          isBlock(cache'[i]) /\ cache'[i].cluster_no = cache[i].cluster_no
  BY <1>1, <1>2 DEF isBlock
<1>4. cache' = [i \in DOMAIN cache |-> cache'[i]]
  BY <1>1
<1> QED
  BY <1>1, <1>3, <1>4, Mapped

LEMMA CopyStep ==
    ASSUME CacheInv, NEW t \in Threads, WriteCopy(t), damage \subseteq damage'
    PROVE  CacheInv'
<1> DEFINE k == reg[t].index
<1>0. CASE k = 0
  BY <1>0, Frame DEF WriteCopy
<1> SUFFICES ASSUME k # 0 PROVE CacheInv'
  BY <1>0
<1>1. cache' = [cache EXCEPT ![k].data = op[t].value, ![k].modified = TRUE]
      /\ UNCHANGED max_blocks
  BY DEF WriteCopy
<1> HIDE DEF k
<1>2. \A i \in DOMAIN cache : isBlock(cache[i])
  BY DEF CacheInv, isCache
<1>3. ASSUME NEW i \in DOMAIN cache
      PROVE  isBlock(cache'[i]) /\ cache'[i].cluster_no = cache[i].cluster_no
  <2> DEFINE b == cache[i]
             new == [b EXCEPT !.data = op[t].value, !.modified = TRUE]
  <2>1. cache'[i] = new \/ cache'[i] = b
    BY <1>1 DEF CacheInv, isCache
  <2>2. isBlock(b)
    BY <1>2
  <2> HIDE DEF b
  <2>3. isBlock(new) /\ new.cluster_no = b.cluster_no
    BY <2>2 DEF isBlock
  <2> QED
    BY <2>1, <2>2, <2>3 DEF b
<1>4. cache' = [i \in DOMAIN cache |-> cache'[i]]
  BY <1>1 DEF CacheInv, isCache
<1> QED
  BY <1>1, <1>3, <1>4, Mapped

\* A cluster that the cache does not have comes in: at the end of the list while
\* there is room, or over the block that is replaced.
LEMMA KeepStep ==
    ASSUME CacheInv, NEW t \in Threads, Keep(t), damage \subseteq damage'
    PROVE  CacheInv'
<1> DEFINE r == reg[t]
           has == cached(r.cluster)
           victim == CHOOSE i \in CACHE_getLRU : TRUE
<1>a. UNCHANGED max_blocks /\ CACHE_write_block(t) /\ ~noVictim(t)
  BY DEF Keep
<1>b. DOMAIN cache = 1 .. Len(cache) /\ Len(cache) \in Nat
      /\ \A i \in DOMAIN cache : isBlock(cache[i])
  BY DEF CacheInv, isCache
<1>c. /\ max_blocks \in Nat
      /\ "overlap" \notin damage' =>
            /\ Len(cache) <= max_blocks
            /\ \A i, j \in DOMAIN cache : cache[i].cluster_no = cache[j].cluster_no => i = j
  BY DEF CacheInv, CacheShape
<1>e. has = {} => \A i \in DOMAIN cache : cache[i].cluster_no # r.cluster
  BY <1>b, NoneCached
<1>d. \A d, m : isBlock(block(r.cluster, d, m)) /\ block(r.cluster, d, m).cluster_no = r.cluster
  BY DEF block, isBlock
<1>1. CASE max_blocks = 0
  BY <1>a, <1>1, Frame DEF CACHE_write_block
<1>2. CASE max_blocks # 0 /\ has # {}
  <2>1. cache' = [i \in DOMAIN cache |->
                    IF i \in has THEN block(r.cluster, r.data, TRUE) ELSE cache[i]]
    BY <1>a, <1>2 DEF CACHE_write_block
  <2>2. \A i \in has : cache[i].cluster_no = r.cluster
    BY DEF cached
  <2> HIDE DEF has, r
  <2>3. \A i \in DOMAIN cache :
            isBlock(cache'[i]) /\ cache'[i].cluster_no = cache[i].cluster_no
    BY <1>b, <1>d, <2>1, <2>2
  <2>4. cache' = [i \in DOMAIN cache |-> cache'[i]]
    BY <2>1
  <2> QED
    BY <1>a, <2>3, <2>4, Mapped
<1>3. CASE max_blocks # 0 /\ has = {} /\ Len(cache) # max_blocks
  <2> DEFINE new == block(r.cluster, r.data, FALSE)
  <2>1. cache' = Append(cache, new)
    BY <1>a, <1>3 DEF CACHE_write_block
  <2>2. \A i \in DOMAIN cache : cache[i].cluster_no # r.cluster
    BY <1>3, <1>e
  <2>3. isBlock(new) /\ new.cluster_no = r.cluster
    BY DEF block, isBlock
  <2> HIDE DEF new, r, has
  <2> DEFINE S == {cache[i] : i \in DOMAIN cache} \cup {new}
  <2>4. cache \in Seq(S)
    <3>1. cache \in [1 .. Len(cache) -> S]
      BY <1>b DEF CacheInv, isCache
    <3> QED
      BY <1>b, <3>1, SeqDef
  <2>5. /\ Append(cache, new) \in Seq(S) /\ Len(Append(cache, new)) = Len(cache) + 1
        /\ \A i \in 1 .. Len(cache) : Append(cache, new)[i] = cache[i]
        /\ Append(cache, new)[Len(cache) + 1] = new
    BY <2>4, AppendProperties
  <2>6. /\ Len(cache') = Len(cache) + 1 /\ DOMAIN cache' = 1 .. Len(cache) + 1
        /\ cache' = [i \in 1 .. Len(cache) + 1 |-> cache'[i]]
    BY <2>1, <2>5, LenProperties
  <2>7. \A i \in 1 .. Len(cache) + 1 :
            \/ i \in DOMAIN cache /\ cache'[i] = cache[i]
            \/ i = Len(cache) + 1 /\ cache'[i] = new
    BY <1>b, <2>1, <2>5
  <2>8. isCache(cache')
    BY <1>b, <2>3, <2>6, <2>7 DEF isCache
  <2>9. CacheShape'
    BY <1>a, <1>b, <1>c, <1>3, <2>2, <2>3, <2>6, <2>7 DEF CacheShape
  <2> QED
    BY <1>a, <1>c, <1>3, <2>8, <2>9 DEF CacheInv
<1>4. CASE max_blocks # 0 /\ has = {} /\ Len(cache) = max_blocks
  <2> DEFINE new == block(r.cluster, r.data, FALSE)
  <2>1. cache' = [cache EXCEPT ![victim] = new]
    BY <1>a, <1>4 DEF CACHE_write_block
  <2>2. \A i \in DOMAIN cache : cache[i].cluster_no # r.cluster
    BY <1>4, <1>e
  <2>3. isBlock(new) /\ new.cluster_no = r.cluster
    BY DEF block, isBlock
  <2> HIDE DEF new, r, has, victim
  <2>4. /\ DOMAIN cache' = 1 .. Len(cache)
        /\ cache' = [i \in 1 .. Len(cache) |-> cache'[i]]
        /\ \A i \in 1 .. Len(cache) : cache'[i] = IF i = victim THEN new ELSE cache[i]
    BY <1>b, <2>1 DEF CacheInv, isCache
  <2>5. Len(cache') = Len(cache)
    BY <1>b, <2>4
  <2>6. isCache(cache')
    BY <1>b, <2>3, <2>4, <2>5 DEF isCache
  <2>7. CacheShape'
    BY <1>a, <1>b, <1>c, <2>2, <2>3, <2>4, <2>5 DEF CacheShape
  <2> QED
    BY <1>a, <1>c, <1>4, <2>6, <2>7 DEF CacheInv
<1> QED
  BY <1>b, <1>c, <1>1, <1>2, <1>3, <1>4

\* fuselage_flush takes the first block off the list.
LEMMA FlushStep ==
    ASSUME CacheInv, NEW t \in Threads, FlushTake(t), damage \subseteq damage'
    PROVE  CacheInv'
<1>1. cache' = Tail(cache) /\ cache # <<>> /\ UNCHANGED max_blocks
  BY DEF FlushTake
<1>b. DOMAIN cache = 1 .. Len(cache) /\ Len(cache) \in Nat
      /\ \A i \in DOMAIN cache : isBlock(cache[i])
  BY DEF CacheInv, isCache
<1> DEFINE S == {cache[i] : i \in DOMAIN cache}
<1>2. cache \in Seq(S)
  <2>1. cache \in [1 .. Len(cache) -> S]
    BY <1>b DEF CacheInv, isCache
  <2> QED
    BY <1>b, <2>1, SeqDef
<1>3. /\ Tail(cache) \in Seq(S) /\ Len(Tail(cache)) = Len(cache) - 1
      /\ \A i \in 1 .. Len(Tail(cache)) : Tail(cache)[i] = cache[i + 1]
  BY <1>1, <1>2, HeadTailProperties
<1>4. Len(cache') = Len(cache) - 1 /\ Len(cache') \in Nat
      /\ DOMAIN cache' = 1 .. Len(cache')
      /\ cache' = [i \in 1 .. Len(cache') |-> cache'[i]]
  BY <1>1, <1>3, LenProperties
<1>5. \A i \in 1 .. Len(cache') : i + 1 \in DOMAIN cache /\ cache'[i] = cache[i + 1]
  BY <1>1, <1>3, <1>4, <1>b
<1>6. isCache(cache')
  BY <1>4, <1>5, <1>b DEF isCache
<1>7. CacheShape'
  BY <1>1, <1>4, <1>5, <1>b DEF CacheInv, CacheShape
<1> QED
  BY <1>1, <1>4, <1>6, <1>7, <1>b DEF CacheInv

\* A list of blocks, as the theorems about sequences want it.
LEMMA CacheSeq ==
    ASSUME CacheInv
    PROVE  \A S : (\A i \in DOMAIN cache : cache[i] \in S) => cache \in Seq(S)
<1> SUFFICES ASSUME NEW S, \A i \in DOMAIN cache : cache[i] \in S PROVE cache \in Seq(S)
  OBVIOUS
<1>1. Len(cache) \in Nat /\ cache = [i \in 1 .. Len(cache) |-> cache[i]]
  BY DEF CacheInv, isCache
<1>2. cache \in [1 .. Len(cache) -> S]
  BY <1>1
<1> QED
  BY <1>1, <1>2, SeqDef

\* The first blocks of the cache with a block behind them, or with none.
LEMMA MixedAppend ==
    ASSUME CacheInv, NEW t \in Threads, NEW n \in 0 .. Len(cache), mixedAppend(t, n)
    PROVE  isCache(cache')
<1> DEFINE b == block(reg[t].cluster, reg[t].data, FALSE)
           S == {cache[i] : i \in DOMAIN cache} \cup {b}
           q == SubSeq(cache, 1, n)
<1>1. cache' = cache \/ cache' = Append(q, b)
  BY DEF mixedAppend
<1>2. isBlock(b)
  BY DEF block, isBlock
<1>3. DOMAIN cache = 1 .. Len(cache) /\ Len(cache) \in Nat
      /\ \A i \in DOMAIN cache : isBlock(cache[i])
  BY DEF CacheInv, isCache
<1> HIDE DEF b
<1>4. n \in Nat /\ \A i \in 1 .. n : i \in DOMAIN cache /\ cache[i] \in S
  BY <1>3
<1>5. b \in S /\ \A x \in S : isBlock(x)
  BY <1>2, <1>3
<1> HIDE DEF S
<1>6. q \in Seq(S)
  BY <1>4, SubSeqProperties
<1> HIDE DEF q
<1> DEFINE p == Append(q, b)
<1>7. p \in Seq(S)
  BY <1>5, <1>6, AppendProperties
<1> HIDE DEF p
<1>8. Len(p) \in Nat /\ p \in [1 .. Len(p) -> S]
  BY <1>7, LenProperties
<1>9. isCache(p)
  BY <1>5, <1>8 DEF isCache
<1> QED
  BY <1>1, <1>9 DEF p, CacheInv

\* Calls that overlap leave a list of blocks, of whatever shape.
LEMMA OverlapStep == ASSUME CacheInv, NEW t \in Threads, Overlap(t) PROVE CacheInv'
<1>1. UNCHANGED max_blocks /\ max_blocks # 0 /\ "overlap" \in damage'
  BY DEF Overlap, overlaps, onList
<1>2. isCache(cache')
  <2>1. CASE \E n \in 0 .. Len(cache) : mixedAppend(t, n)
    BY <2>1, MixedAppend
  <2>2. CASE \E i \in DOMAIN cache : mixedBlock(t, i)
    <3>0. PICK i \in DOMAIN cache : mixedBlock(t, i)
      BY <2>2
    <3>1. PICK c, m, d : cache' = [cache EXCEPT ![i] = block(c, d, m)]
      BY <3>0 DEF mixedBlock
    <3> DEFINE b == block(c, d, m)
    <3>2. isBlock(b)
      BY DEF block, isBlock
    <3> HIDE DEF b
    <3>3. /\ Len(cache) \in Nat /\ cache' = [j \in 1 .. Len(cache) |-> cache'[j]]
          /\ \A j \in 1 .. Len(cache) : isBlock(cache'[j])
      BY <3>1, <3>2 DEF CacheInv, isCache, b
    <3>4. Len(cache') = Len(cache)
      BY <3>3
    <3> QED
      BY <3>3, <3>4 DEF isCache
  <2> QED
    BY <2>1, <2>2 DEF Overlap
<1> QED
  BY <1>1, <1>2 DEF CacheInv, CacheShape

LEMMA NextCache == CacheInv /\ [Next]_vars => CacheInv'
<1> SUFFICES ASSUME CacheInv, [Next]_vars PROVE CacheInv'
  OBVIOUS
<1>0. damage \subseteq damage'
  BY Damages
<1>1. ASSUME NEW t \in Threads,
             Open(t) \/ GetEntry(t) \/ AddRecord(t) \/ BeginTruncatePath(t) \/ Begin(t)
             \/ Truncate(t) \/ WriteLock(t) \/ Fetch(t) \/ PutOut(t) \/ Unlock(t)
             \/ FlushWrite(t) \/ FlushEnd(t) \/ Release(t) \/ Die(t)
      PROVE  CacheInv'
  BY <1>0, <1>1, Frame DEF Open, GetEntry, AddRecord, BeginTruncatePath, Begin, Truncate,
     WriteLock, Fetch, PutOut, Unlock, FlushWrite, FlushEnd, Release, Die
<1>2. ASSUME NEW t \in Threads, ReadLookup(t) \/ WriteLookup(t)
      PROVE  CacheInv'
  BY <1>0, <1>2, LookupStep, Frame DEF ReadLookup, WriteLookup
<1>3. ASSUME NEW t \in Threads, WriteCopy(t) \/ Keep(t) \/ FlushTake(t) \/ Overlap(t)
      PROVE  CacheInv'
  BY <1>0, <1>3, CopyStep, KeepStep, FlushStep, OverlapStep
<1>4. CASE Recreate \/ Tick
  BY <1>0, <1>4, Frame, TickStep DEF Recreate
<1>5. CASE UNCHANGED vars
  BY <1>0, <1>5, Frame DEF vars
<1> QED
  BY <1>1, <1>2, <1>3, <1>4, <1>5 DEF Next

\* The cache (file_cache.c:57-110) never has more blocks than its size nor two
\* for one cluster, though several threads may miss a cluster and each bring it
\* in later: nothing but the steps of two calls that overlap on its list, which
\* has no lock (tad_queue.c:24-50), leaves it otherwise.
THEOREM CacheKeepsShape == Spec => []CacheShape
<1>1. CacheInv => CacheShape
  BY DEF CacheInv
<1> QED
  BY InitCache, NextCache, <1>1, PTL DEF Spec

-----------------------------------------------------------------------------
(* What the recursive definitions give.                                     *)

LEMMA NextLinkedType ==
    ASSUME NEW tab \in Tables, NEW c \in 0 .. EOC
    PROVE  nextLinked(tab, c) \in 0 .. EOC
  BY FatAssumption DEF nextLinked, isEOC, Media, EOC, Tables, Entries

LEMMA ClusterAtType ==
    ASSUME table \in Tables, record \in Records, NEW k \in Nat
    PROVE  clusterAt(k) \in 0 .. EOC
<1> DEFINE T == 0 .. EOC
           step == [c \in T |-> nextLinked(table, c)]
           body(g) == [n \in 0 .. k |-> IF n = 0 THEN record.first
                                        ELSE nextLinked(table, g[n - 1])]
           f == CHOOSE g : g = body(g)
<1>1. step \in [T -> T] /\ record.first \in T
  BY NextLinkedType, FatAssumption DEF Records, Entries, EOC
<1>2. clusterAt(k) = f[k]
  BY DEF clusterAt
<1>3. \A c \in T : step[c] = nextLinked(table, c)
  OBVIOUS
<1>e. nextLinked(table, 0) \in T
  BY NextLinkedType, FatAssumption DEF EOC
<1> HIDE DEF step, T
<1>4. PICK g : g \in [0 .. k -> T] /\ iterates(g, record.first, step, k)
  BY <1>1, Iterated
<1>5. ASSUME NEW n \in 0 .. k
      PROVE  g[n] = IF n = 0 THEN record.first ELSE nextLinked(table, g[n - 1])
  <2>1. n = 0 \/ (n \in 1 .. k /\ n - 1 \in 0 .. k)
    OBVIOUS
  <2> QED
    BY <1>3, <1>4, <2>1 DEF iterates
<1>6. g = body(g)
  BY <1>4, <1>5
<1>7. f = body(f)
  <2> HIDE DEF body
  <2> QED
    BY <1>6
<1> HIDE DEF f
<1> DEFINE S == {n \in 0 .. k : f[n] \in T}
<1>8. 0 \in S
  BY <1>1, <1>7
<1>9. ASSUME NEW n \in 0 .. k - 1, n \in S PROVE n + 1 \in S
  <2>1. n + 1 \in 0 .. k /\ (n + 1) - 1 = n /\ n + 1 # 0
    OBVIOUS
  <2>2. f[n + 1] = nextLinked(table, f[n])
    BY <1>7, <2>1
  <2> QED
    BY <1>9, <2>1, <2>2, NextLinkedType DEF T
<1> HIDE DEF S
<1>10. 0 .. k \subseteq S
  BY <1>8, <1>9, UpTo
<1> QED
  BY <1>2, <1>10 DEF S, T

\* A turn of the loop of fat32_truncate.
turned(size, b) ==
    IF size > entry.size
    THEN [tab |-> grown(b.tab, b.first),
          first |-> IF b.first = 0 THEN nextFree(b.tab) ELSE b.first]
    ELSE [tab |-> removeLast(b.tab, b.first),
          first |-> IF removed(b.tab, b.first) = 0 THEN 0 ELSE b.first]

turns(size) == IF size > entry.size THEN size - entry.size ELSE entry.size - size

Ends == [tab : Tables, first : Entries]

LEMMA NextFreeType == ASSUME NEW tab \in Tables PROVE nextFree(tab) \in Entries
<1>1. Size \in Nat /\ Size > 2
  BY FatAssumption
<1> QED
  BY <1>1, NextFree DEF Clusters, Entries

LEMMA TurnType ==
    ASSUME NEW size \in 0 .. MaxSize, NEW b \in Ends
    PROVE  turned(size, b) \in Ends
<1>1. b.tab \in Tables /\ b.first \in Entries
  BY DEF Ends
<1>2. 0 \in Entries /\ EOC \in 0 .. Size + 1 /\ 0 \in 0 .. Size + 1
  BY FatAssumption DEF Entries, EOC
<1>3. nextFree(b.tab) \in Entries /\ nextFree(b.tab) \in 0 .. Size + 1
  BY <1>1, NextFreeType, FatAssumption DEF Entries
<1>4. setUsed(b.tab, nextFree(b.tab)) \in Tables
  BY <1>1, <1>2 DEF setUsed, Tables
<1>5. linkFree(b.tab, b.first) \in Tables
  BY <1>1, <1>2, <1>3 DEF linkFree, Tables
<1>6. grown(b.tab, b.first) \in Tables
  BY <1>4, <1>5 DEF grown
<1>7. removeLast(b.tab, b.first) \in Tables
  BY <1>1, <1>2 DEF removeLast, Tables
<1> HIDE DEF Tables, Entries
<1> QED
  BY <1>1, <1>2, <1>3, <1>6, <1>7 DEF turned, Ends

\* The states of the loop, one after the other.
LEMMA ResizedTurns ==
    ASSUME table \in Tables, entry \in DirEntries,
           NEW size \in 0 .. MaxSize
    PROVE  \E f : /\ f \in [0 .. MaxSize -> Ends]
                  /\ f[0] = [tab |-> table, first |-> entry.first]
                  /\ \A n \in 1 .. MaxSize : f[n] = turned(size, f[n - 1])
                  /\ turns(size) \in 0 .. MaxSize /\ resized(size) = f[turns(size)]
<1> DEFINE a == [tab |-> table, first |-> entry.first]
           step == [b \in Ends |-> turned(size, b)]
           body(g) == [n \in 0 .. MaxSize |->
                         IF n = 0 THEN [tab |-> table, first |-> entry.first]
                         ELSE LET b == g[n - 1]
                              IN  IF size > entry.size
                                  THEN [tab |-> grown(b.tab, b.first),
                                        first |-> IF b.first = 0 THEN nextFree(b.tab)
                                                  ELSE b.first]
                                  ELSE [tab |-> removeLast(b.tab, b.first),
                                        first |-> IF removed(b.tab, b.first) = 0 THEN 0
                                                  ELSE b.first]]
           f == CHOOSE g : g = body(g)
<1>0. MaxSize \in Nat /\ 0 \in 0 .. MaxSize
  BY CacheAssumption
<1>1. step \in [Ends -> Ends] /\ a \in Ends /\ \A b \in Ends : step[b] = turned(size, b)
  BY TurnType DEF Ends, DirEntries
<1>2. resized(size) = f[turns(size)]
  BY DEF resized, turns
<1>t. turns(size) \in 0 .. MaxSize
  BY <1>0 DEF turns, DirEntries
<1>b. ASSUME NEW g
      PROVE  body(g) = [n \in 0 .. MaxSize |-> IF n = 0 THEN a ELSE turned(size, g[n - 1])]
  BY DEF turned
<1> HIDE DEF step, a, body
<1>4. PICK g : g \in [0 .. MaxSize -> Ends] /\ iterates(g, a, step, MaxSize)
  BY <1>0, <1>1, Iterated
<1>5. ASSUME NEW n \in 0 .. MaxSize
      PROVE  g[n] = IF n = 0 THEN a ELSE turned(size, g[n - 1])
  <2>1. n = 0 \/ (n \in 1 .. MaxSize /\ n - 1 \in 0 .. MaxSize)
    BY <1>0
  <2> QED
    BY <1>1, <1>4, <2>1 DEF iterates
<1>6. g = body(g)
  BY <1>4, <1>5, <1>b
<1>7. f = body(f)
  BY <1>6
<1> HIDE DEF f
<1>f. f = [n \in 0 .. MaxSize |-> IF n = 0 THEN a ELSE turned(size, f[n - 1])]
  BY <1>7, <1>b
<1> DEFINE S == {n \in 0 .. MaxSize : f[n] \in Ends}
<1>8. 0 \in S
  BY <1>0, <1>1, <1>f
<1>9. ASSUME NEW n \in 0 .. MaxSize - 1, n \in S PROVE n + 1 \in S
  <2>1. n + 1 \in 0 .. MaxSize /\ (n + 1) - 1 = n /\ n + 1 # 0
    BY <1>0
  <2>2. f[n + 1] = turned(size, f[n])
    BY <1>f, <2>1
  <2> QED
    BY <1>9, <2>1, <2>2, TurnType
<1> HIDE DEF S
<1>10. 0 .. MaxSize \subseteq S
  BY <1>0, <1>8, <1>9, UpTo
<1>11. f \in [0 .. MaxSize -> Ends]
  BY <1>10, <1>f DEF S
<1>12. f[0] = a
  BY <1>0, <1>f
<1>13. ASSUME NEW n \in 1 .. MaxSize PROVE f[n] = turned(size, f[n - 1])
  <2>1. n \in 0 .. MaxSize /\ n # 0
    BY <1>0
  <2> QED
    BY <1>f, <2>1
<1> QED
  BY <1>2, <1>t, <1>11, <1>12, <1>13 DEF a

LEMMA ResizedType ==
    ASSUME table \in Tables, entry \in DirEntries,
           NEW size \in 0 .. MaxSize
    PROVE  resized(size).tab \in Tables /\ resized(size).first \in Entries
<1>1. PICK f : f \in [0 .. MaxSize -> Ends] /\ turns(size) \in 0 .. MaxSize
                /\ resized(size) = f[turns(size)]
  BY ResizedTurns
<1>2. resized(size) \in Ends
  BY <1>1
<1> QED
  BY <1>2 DEF Ends

-----------------------------------------------------------------------------
(* The variables have their types.                                         *)

\* The call a thread can be in at a place.
fits(place, call) ==
    /\ place \in {"closed", "open"} => call.kind = "none"
    /\ place = "addRecord" => call.kind \in {"open", "truncate"}
    /\ place \in {"write", "writeLookup", "copy", "unlock"} => call.kind = "write"
    /\ place \in {"truncate", "truncatePath", "truncateAside"} => call.kind = "truncate"
    /\ place = "read" => call.kind = "read"
    /\ place \in {"fetch", "keep", "putOut"} => call.kind \in {"read", "write"}
    /\ place \in flushing \cup {"release"} => call.kind = "close"
    /\ call.kind = "write" => call.offset < MaxSize

Kinds == \A t \in Threads : fits(pc[t], op[t])

\* The threads that open_count counts.
uncountedAt == {"closed", "lastFlush", "addRecord", "truncatePath", "truncateAside"}
inside == {t \in Threads : pc[t] \notin uncountedAt}

\* Whoever is past OFILE_get has a record; it counts the opens until two go wrong.
Counted ==
    /\ \A t \in Threads : pc[t] \notin {"closed", "addRecord"} => record # None
    /\ record # None /\ damage \cap {"twoRecords", "miscounted"} = {} =>
          record.open_count = Cardinality(inside)

TypeInv == TypeOK /\ Kinds /\ Counted

LEMMA InsideBound ==
    ASSUME NEW S, S \subseteq Threads
    PROVE  IsFiniteSet(S) /\ Cardinality(S) \in 0 .. Cardinality(Threads)
<1>1. IsFiniteSet(Threads)
  BY CacheAssumption
<1>2. IsFiniteSet(S) /\ Cardinality(S) <= Cardinality(Threads)
  BY <1>1, FS_Subset
<1> QED
  BY <1>1, <1>2, FS_CardinalityType

LEMMA NoneNotRecord == None \notin Records
  BY CacheAssumption

LEMMA DirEntryType ==
    ASSUME NEW first \in Entries, NEW size \in 0 .. MaxSize
    PROVE  [first |-> first, size |-> size] \in DirEntries
<1> HIDE DEF Entries
<1> QED
  BY DEF DirEntries

LEMMA NoRegType == NoReg \in Regs
<1>1. 0 \in Entries /\ 0 \in 0 .. MaxSize /\ 0 \in 0 .. EOC
  BY FatAssumption, CacheAssumption DEF Entries, EOC
<1>2. [first |-> 0, size |-> 0] \in DirEntries
  BY <1>1, DirEntryType
<1> QED
  BY <1>1, <1>2 DEF NoReg, Regs

LEMMA TypeFacts ==
    ASSUME TypeInv
    PROVE  /\ alive \in BOOLEAN /\ max_blocks \in CacheSizes
           /\ table \in Tables /\ entry \in DirEntries /\ record \in Records \cup {None}
           /\ disk \in [0 .. EOC -> Values \cup {0}] /\ cache \in Seq(Blocks)
           /\ write_mutex \in Threads \cup {None} /\ pc \in [Threads -> Places]
           /\ op \in [Threads -> Calls] /\ reg \in [Threads -> Regs] /\ damage \subseteq Causes
           /\ Kinds /\ Counted
  BY DEF TypeInv, TypeOK

\* What the steps owe: the bound on open_count follows from the count.
LEMMA TypeStep ==
    ASSUME TypeInv, max_blocks' = max_blocks, alive' \in BOOLEAN,
           table' \in Tables, entry' \in DirEntries, record' \in Records \cup {None},
           disk' \in [0 .. EOC -> Values \cup {0}], cache' \in Seq(Blocks),
           write_mutex' \in Threads \cup {None}, reg' \in [Threads -> Regs],
           damage' \subseteq Causes,
           pc' \in [Threads -> Places] /\ op' \in [Threads -> Calls] /\ Kinds', Counted'
    PROVE  TypeInv'
<1>1. max_blocks' \in CacheSizes
  BY TypeFacts
<1>2. inside' \subseteq Threads
  BY DEF inside
<1>3. Cardinality(inside') \in 0 .. Cardinality(Threads)
  BY <1>2, InsideBound
<1>4. record' # None /\ damage' \cap {"twoRecords", "miscounted"} = {} =>
          record'.open_count \in 0 .. Cardinality(Threads)
  BY <1>3 DEF Counted
<1>5. TypeOK'
  BY <1>1, <1>4 DEF TypeOK
<1> QED
  BY <1>5 DEF TypeInv

LEMMA BlockType ==
    ASSUME NEW c \in 0 .. EOC, NEW d \in Values \cup {0}, NEW m \in BOOLEAN
    PROVE  block(c, d, m) \in Blocks
  BY CacheAssumption DEF block, Blocks

LEMMA InitType == Init => TypeInv
<1> SUFFICES ASSUME Init PROVE TypeInv
  OBVIOUS
<1>1. Size \in Nat /\ Size > 2 /\ MaxSize \in Nat /\ InitialSize \in 0 .. MaxSize
      /\ MaxSize + 3 <= Size
  BY FatAssumption, CacheAssumption
<1>2. table \in Tables
  BY <1>1 DEF Init, Tables, Entries, Media, EOC
<1>3. entry \in DirEntries
  <2>1. (IF InitialSize = 0 THEN 0 ELSE 3) \in Entries
    BY <1>1 DEF Entries
  <2> QED
    BY <1>1, <2>1, DirEntryType DEF Init
<1>4. disk \in [0 .. EOC -> Values \cup {0}] /\ cache \in Seq(Blocks)
      /\ damage \subseteq Causes /\ record = None /\ write_mutex = None
      /\ alive \in BOOLEAN /\ max_blocks \in CacheSizes
  BY DEF Init
<1>5. NoCall \in Calls /\ NoCall.kind = "none" /\ NoReg \in Regs
  BY <1>1, NoRegType DEF NoCall, Call, Calls
<1>6. op \in [Threads -> Calls] /\ reg \in [Threads -> Regs] /\ pc \in [Threads -> Places]
      /\ \A t \in Threads : pc[t] = "closed" /\ op[t] = NoCall
  BY <1>5 DEF Init, Places
<1>7. Kinds /\ Counted
  BY <1>4, <1>5, <1>6 DEF Kinds, fits, Counted, flushing
<1> HIDE DEF Tables, Entries, Calls, Regs, Records
<1> QED
  BY <1>2, <1>3, <1>4, <1>6, <1>7 DEF TypeInv, TypeOK

\* One thread goes to a place with a call that fits.
LEMMA KindsMove ==
    ASSUME TypeInv, NEW t \in Threads, NEW place \in Places, NEW call \in Calls,
           pc' = [pc EXCEPT ![t] = place], op' = [op EXCEPT ![t] = call], fits(place, call)
    PROVE  pc' \in [Threads -> Places] /\ op' \in [Threads -> Calls] /\ Kinds'
<1>1. pc \in [Threads -> Places] /\ op \in [Threads -> Calls] /\ Kinds
  BY TypeFacts
<1>2. pc' \in [Threads -> Places] /\ op' \in [Threads -> Calls]
  BY <1>1
<1>3. ASSUME NEW u \in Threads PROVE fits(pc'[u], op'[u])
  BY <1>1 DEF Kinds
<1> QED
  BY <1>2, <1>3 DEF Kinds, fits, flushing

\* One thread goes to a place of the call it is in, or to "open".
LEMMA KindsStep ==
    ASSUME TypeInv, NEW t \in Threads, NEW place \in Places, goto(t, place),
           place \notin {"open", "closed"} => fits(place, op[t])
    PROVE  pc' \in [Threads -> Places] /\ op' \in [Threads -> Calls] /\ Kinds'
<1> DEFINE call == IF place \in {"open", "closed"} THEN NoCall ELSE op[t]
<1>1. pc \in [Threads -> Places] /\ op \in [Threads -> Calls]
  BY TypeFacts
<1>2. NoCall \in Calls /\ NoCall.kind = "none"
  BY CacheAssumption DEF NoCall, Call, Calls
<1>3. call \in Calls
  BY <1>1, <1>2
<1>4. pc' = [pc EXCEPT ![t] = place] /\ op' = [op EXCEPT ![t] = call]
  BY <1>1 DEF goto
<1>5. fits(place, call)
  BY <1>2 DEF fits, flushing
<1> HIDE DEF call
<1> QED
  BY <1>3, <1>4, <1>5, KindsMove

\* A thread moves among the places that open_count counts, or among the others.
LEMMA CountedStep ==
    ASSUME TypeInv, NEW t \in Threads, pc[t] \notin {"closed", "addRecord"},
           NEW place, pc' = [pc EXCEPT ![t] = place],
           place \in uncountedAt <=> pc[t] \in uncountedAt,
           record' # None, record'.open_count = record.open_count, damage \subseteq damage'
    PROVE  Counted'
<1>1. pc \in [Threads -> Places] /\ Counted
  BY TypeFacts
<1>2. inside' = inside
  BY <1>1 DEF inside
<1>3. Cardinality(inside)' = Cardinality(inside)
  BY <1>2
<1>4. record # None
  BY <1>1 DEF Counted
<1> QED
  BY <1>1, <1>3, <1>4 DEF Counted

LEMMA InsideFrame == ASSUME pc' = pc PROVE Cardinality(inside)' = Cardinality(inside)
<1>1. inside' = inside
  BY DEF inside
<1> QED
  BY <1>1

LEMMA RecordSized ==
    ASSUME record \in Records, NEW size \in 0 .. MaxSize, record' = resizedRecord(size)
    PROVE  /\ record' \in Records /\ record' # None /\ record'.size = size
           /\ record'.open_count = record.open_count
<1>1. record' = [record EXCEPT !.size = size]
  BY DEF resizedRecord
<1>2. record' \in Records /\ record'.size = size /\ record'.open_count = record.open_count
  <2> HIDE DEF Entries
  <2> QED
    BY <1>1 DEF Records
<1> QED
  BY <1>2, NoneNotRecord

LEMMA RecordCounted ==
    ASSUME record \in Records, NEW n \in Int, record' = [record EXCEPT !.open_count = n]
    PROVE  /\ record' \in Records /\ record' # None /\ record'.open_count = n
           /\ record'.size = record.size
<1>1. record' \in Records /\ record'.open_count = n /\ record'.size = record.size
  <2> HIDE DEF Entries
  <2> QED
    BY DEF Records
<1> QED
  BY <1>1, NoneNotRecord

LEMMA TruncatedType ==
    ASSUME TypeInv, NEW size \in 0 .. MaxSize, fat32_truncate(size)
    PROVE  /\ table' \in Tables /\ disk' \in [0 .. EOC -> Values \cup {0}]
           /\ entry' \in DirEntries /\ entry'.size = size
           /\ damage' \subseteq Causes /\ damage \subseteq damage'
<1>0. /\ table \in Tables /\ entry \in DirEntries
      /\ disk \in [0 .. EOC -> Values \cup {0}] /\ damage \subseteq Causes
  BY TypeFacts
<1> DEFINE new == resized(size)
<1>1. new.tab \in Tables /\ new.first \in Entries
  BY <1>0, ResizedType
<1> HIDE DEF new
<1>2. /\ table' = new.tab /\ entry' = [first |-> new.first, size |-> size]
      /\ disk' = [c \in DOMAIN disk |-> IF c \in added(new.tab) THEN 0 ELSE disk[c]]
      /\ damage' \subseteq damage \cup {"oldBlock"} /\ damage \subseteq damage'
  BY DEF fat32_truncate, because, new
<1>3. table' \in Tables /\ entry' \in DirEntries /\ entry'.size = size
  <2> HIDE DEF Entries, Tables
  <2> QED
    BY <1>1, <1>2, DirEntryType
<1>4. disk' \in [0 .. EOC -> Values \cup {0}]
  BY <1>0, <1>2
<1>5. damage' \subseteq Causes
  BY <1>0, <1>2 DEF Causes
<1> QED
  BY <1>2, <1>3, <1>4, <1>5

\* Blocks that change in a list leave a list of blocks.
LEMMA MapType ==
    ASSUME cache \in Seq(Blocks), NEW q, q = [i \in DOMAIN cache |-> q[i]],
           \A i \in DOMAIN cache : q[i] \in Blocks
    PROVE  q \in Seq(Blocks)
<1>1. DOMAIN cache = 1 .. Len(cache) /\ Len(cache) \in Nat
  BY LenProperties
<1>2. q \in [1 .. Len(cache) -> Blocks]
  BY <1>1
<1> QED
  BY <1>1, <1>2, SeqDef

LEMMA FreshType == ASSUME NEW b \in Blocks PROVE fresh(b) \in Blocks
  BY CacheAssumption DEF fresh, Blocks

LEMMA LookedUpType ==
    ASSUME TypeInv, record # None, NEW t \in Threads, Lookup(t)
    PROVE  /\ cache' \in Seq(Blocks) /\ reg' \in [Threads -> Regs] /\ damage' \subseteq Causes
<1> DEFINE c == clusterAt(op[t].offset)
<1>0. /\ table \in Tables /\ record \in Records /\ cache \in Seq(Blocks)
      /\ reg \in [Threads -> Regs] /\ op \in [Threads -> Calls] /\ damage \subseteq Causes
  BY TypeFacts
<1>1. op[t].offset \in Nat
  BY <1>0, CacheAssumption DEF Calls
<1>2. c \in 0 .. EOC
  BY <1>0, <1>1, ClusterAtType
<1>3. /\ cache' = [i \in DOMAIN cache |->
                     IF i \in cached(c) THEN fresh(cache[i]) ELSE cache[i]]
      /\ \/ reg' = reg
         \/ reg' = [reg EXCEPT ![t].cluster = c,
                               ![t].index = IF cached(c) = {} THEN 0
                                            ELSE CHOOSE i \in cached(c) : TRUE]
      /\ damage' \subseteq damage \cup {"strayed"}
  BY DEF Lookup, because
<1> HIDE DEF c
<1>4. \A i \in DOMAIN cache : cache[i] \in Blocks /\ i \in Nat
  BY <1>0, LenProperties, ElementOfSeq
<1>5. cache' \in Seq(Blocks)
  <2>1. cache' = [i \in DOMAIN cache |-> cache'[i]]
    BY <1>3
  <2>2. ASSUME NEW i \in DOMAIN cache PROVE cache'[i] \in Blocks
    BY <1>3, <1>4, FreshType
  <2> QED
    BY <1>0, <2>1, <2>2, MapType
<1> DEFINE k == IF cached(c) = {} THEN 0 ELSE CHOOSE i \in cached(c) : TRUE
<1>6. k \in Nat
  <2>1. \A i \in cached(c) : i \in Nat
    BY <1>4 DEF cached
  <2> QED
    BY <2>1
<1> HIDE DEF k
<1>7. reg' \in [Threads -> Regs]
  <2>0. CASE reg' = reg
    BY <1>0, <2>0
  <2> SUFFICES ASSUME reg' # reg PROVE reg' \in [Threads -> Regs]
    BY <2>0
  <2>1. reg' = [reg EXCEPT ![t].cluster = c, ![t].index = k]
    BY <1>3 DEF k
  <2>2. reg[t] \in Regs
    BY <1>0
  <2>3. [reg[t] EXCEPT !.cluster = c, !.index = k] \in Regs
    BY <1>2, <1>6, <2>2 DEF Regs
  <2>4. reg' = [reg EXCEPT ![t] = [reg[t] EXCEPT !.cluster = c, !.index = k]]
    BY <1>0, <2>1, <2>2 DEF Regs
  <2> QED
    BY <1>0, <2>3, <2>4
<1> QED
  BY <1>0, <1>3, <1>5, <1>7 DEF Causes

-----------------------------------------------------------------------------
(* A step of each kind.                                                    *)

LEMMA OpenType == ASSUME TypeInv, NEW t \in Threads, Open(t) PROVE TypeInv'
<1>1. /\ pc[t] = "closed" /\ goto(t, "open") /\ pc' = [pc EXCEPT ![t] = "open"]
      /\ record # None
      /\ \/ record' = [record EXCEPT !.open_count = @ + 1] /\ damage' = damage
         \/ record' = record /\ damage' = damage \cup {"miscounted"}
      /\ UNCHANGED <<alive, max_blocks, table, disk, entry, cache, write_mutex, reg>>
  BY DEF Open, at, goto, fileVars
<1>2. inside' = inside \cup {t} /\ t \notin inside /\ inside \subseteq Threads
  BY <1>1, TypeFacts DEF inside, uncountedAt
<1>3. Cardinality(inside)' = Cardinality(inside) + 1
  BY <1>2, InsideBound, FS_AddElement
<1>4. record \in Records /\ record.open_count \in Int
  BY <1>1, TypeFacts DEF Records
<1>5. record' \in Records /\ record' # None
      /\ (record' # record => damage' = damage /\ record'.open_count = record.open_count + 1)
      /\ (record' = record => "miscounted" \in damage')
  <2>1. CASE record' = [record EXCEPT !.open_count = @ + 1] /\ damage' = damage
    <3>1. record' \in Records /\ record' # None /\ record'.open_count = record.open_count + 1
      BY <1>4, <2>1, RecordCounted
    <3> HIDE DEF Records
    <3>2. record' # record
      BY <1>4, <3>1
    <3> QED
      BY <2>1, <3>1, <3>2
  <2>2. CASE record' = record /\ damage' = damage \cup {"miscounted"}
    BY <1>1, <1>4, <2>2
  <2> QED
    BY <1>1, <2>1, <2>2
<1>6. pc' \in [Threads -> Places] /\ op' \in [Threads -> Calls] /\ Kinds'
  BY <1>1, KindsStep DEF Places, flushing, fits
<1>7. Counted'
  BY <1>1, <1>3, <1>5, TypeFacts DEF Counted
<1>8. damage' \subseteq Causes
  BY <1>1, TypeFacts DEF Causes
<1> QED
  BY <1>1, <1>5, <1>6, <1>7, <1>8, TypeFacts, TypeStep

\* A thread without a record of its own goes where open_count does not count it.
LEMMA WaitCounted ==
    ASSUME TypeInv, NEW t \in Threads, pc[t] \in uncountedAt, NEW place \in uncountedAt,
           pc' = [pc EXCEPT ![t] = place], record' = record, damage' = damage,
           place = "addRecord" \/ record # None
    PROVE  Counted'
<1>1. pc \in [Threads -> Places] /\ Counted
  BY TypeFacts
<1>2. inside' = inside
  BY <1>1 DEF inside
<1>3. Cardinality(inside)' = Cardinality(inside)
  BY <1>2
<1> QED
  BY <1>1, <1>3 DEF Counted

LEMMA GetEntryType == ASSUME TypeInv, NEW t \in Threads, GetEntry(t) PROVE TypeInv'
<1>1. PICK kind \in {"open", "truncate"}, k \in 0 .. MaxSize :
          op' = [op EXCEPT ![t] = Call(kind, k, 0)]
  BY DEF GetEntry
<1>2. /\ pc[t] = "closed" /\ pc' = [pc EXCEPT ![t] = "addRecord"]
      /\ reg' = [reg EXCEPT ![t].entry = entry]
      /\ UNCHANGED <<alive, max_blocks, table, disk, entry, record, cache, write_mutex, damage>>
  BY DEF GetEntry, at, fileVars
<1> DEFINE call == Call(kind, k, 0)
<1>3. call \in Calls /\ call.kind = kind
  BY DEF Call, Calls
<1>4. fits("addRecord", call) /\ "addRecord" \in Places
  BY <1>3 DEF fits, flushing, Places
<1> HIDE DEF call
<1>5. pc' \in [Threads -> Places] /\ op' \in [Threads -> Calls] /\ Kinds'
  BY <1>1, <1>2, <1>3, <1>4, KindsMove DEF call
<1>6. Counted'
  BY <1>2, WaitCounted DEF uncountedAt
<1>7. reg' \in [Threads -> Regs]
  <2>1. reg[t] \in Regs /\ entry \in DirEntries
    BY TypeFacts
  <2>2. [reg[t] EXCEPT !.entry = entry] \in Regs
    BY <2>1 DEF Regs
  <2>3. reg' = [reg EXCEPT ![t] = [reg[t] EXCEPT !.entry = entry]]
    BY <1>2
  <2> HIDE DEF Regs
  <2> QED
    BY <2>2, <2>3, TypeFacts
<1> QED
  BY <1>2, <1>5, <1>6, <1>7, TypeFacts, TypeStep

LEMMA AddRecordType == ASSUME TypeInv, NEW t \in Threads, AddRecord(t) PROVE TypeInv'
<1> DEFINE opens == op[t].kind = "open"
           n == IF opens THEN 1 ELSE 0
           new == OFILE_add_new(reg[t].entry, n)
           place == IF opens THEN "open"
                    ELSE IF record = None THEN "truncatePath" ELSE "truncateAside"
<1>1. /\ pc[t] = "addRecord" /\ goto(t, place) /\ pc' = [pc EXCEPT ![t] = place]
      /\ record' = IF record = None THEN new ELSE record
      /\ reg' = [reg EXCEPT ![t] = NoReg]
      /\ damage' = damage \cup (IF record # None THEN {"twoRecords"} ELSE {})
      /\ UNCHANGED <<alive, max_blocks, table, disk, entry, cache, write_mutex>>
  BY DEF AddRecord, at, fileVars, because, goto
<1>2. op[t].kind \in {"open", "truncate"} /\ op[t].kind # "write"
  BY <1>1, TypeFacts DEF Kinds, fits
<1>3. new \in Records /\ new # None /\ new.open_count = n
  <2>1. reg[t].entry \in DirEntries
    BY TypeFacts DEF Regs
  <2>2. reg[t].entry.first \in Entries /\ reg[t].entry.size \in 0 .. MaxSize
    BY <2>1 DEF DirEntries
  <2> HIDE DEF Entries
  <2>3. new \in Records /\ new.open_count = n
    BY <2>2 DEF OFILE_add_new, Records
  <2> QED
    BY <2>3, NoneNotRecord
<1>4. pc' \in [Threads -> Places] /\ op' \in [Threads -> Calls] /\ Kinds'
  <2>1. place \in Places
    BY DEF Places
  <2>2. place \notin {"open", "closed"} => fits(place, op[t])
    BY <1>2 DEF fits, flushing
  <2> HIDE DEF place
  <2> QED
    BY <1>1, <2>1, <2>2, KindsStep
<1>5. Counted'
  <2>1. CASE record # None
    BY <1>1, <2>1, TypeFacts DEF Counted
  <2>2. CASE record = None
    <3>1. \A u \in Threads : pc[u] \in {"closed", "addRecord"}
      BY <2>2, TypeFacts DEF Counted
    <3>2. inside' = IF opens THEN {t} ELSE {}
      BY <1>1, <2>2, <3>1, TypeFacts DEF inside, uncountedAt
    <3>3. Cardinality(inside)' = n
      BY <3>2, FS_EmptySet, FS_Singleton
    <3> QED
      BY <1>1, <1>3, <2>2, <3>3 DEF Counted
  <2> QED
    BY <2>1, <2>2
<1>6. damage' \subseteq Causes /\ reg' \in [Threads -> Regs]
  BY <1>1, TypeFacts, NoRegType DEF Causes
<1>7. record' \in Records \cup {None}
  BY <1>1, <1>3, TypeFacts
<1> QED
  BY <1>1, <1>4, <1>5, <1>6, <1>7, TypeFacts, TypeStep

LEMMA BeginTruncatePathType ==
    ASSUME TypeInv, NEW t \in Threads, BeginTruncatePath(t)
    PROVE  TypeInv'
<1>1. PICK k \in 0 .. MaxSize : op' = [op EXCEPT ![t] = Call("truncate", k, 0)]
  BY DEF BeginTruncatePath
<1>2. /\ pc[t] = "closed" /\ pc' = [pc EXCEPT ![t] = "truncatePath"] /\ record # None
      /\ UNCHANGED <<alive, max_blocks, table, disk, entry, record, cache, write_mutex, reg, damage>>
  BY DEF BeginTruncatePath, at, fileVars
<1> DEFINE call == Call("truncate", k, 0)
<1>3. call \in Calls /\ call.kind = "truncate"
  BY DEF Call, Calls
<1>4. fits("truncatePath", call) /\ "truncatePath" \in Places
  BY <1>3 DEF fits, flushing, Places
<1> HIDE DEF call
<1>5. pc' \in [Threads -> Places] /\ op' \in [Threads -> Calls] /\ Kinds'
  BY <1>1, <1>2, <1>3, <1>4, KindsMove DEF call
<1>6. Counted'
  BY <1>2, WaitCounted DEF uncountedAt
<1> QED
  BY <1>2, <1>5, <1>6, TypeFacts, TypeStep

LEMMA BeginType == ASSUME TypeInv, NEW t \in Threads, Begin(t) PROVE TypeInv'
<1>1. PICK kind \in {"read", "write", "truncate", "close"}, k \in 0 .. MaxSize,
           v \in Values \cup {0} :
          /\ kind = "write" => k < MaxSize
          /\ op' = [op EXCEPT ![t] = Call(kind, k, v)]
          /\ pc' = [pc EXCEPT ![t] = IF kind = "close" THEN "flush" ELSE kind]
  BY DEF Begin
<1>2. /\ pc[t] = "open"
      /\ UNCHANGED <<alive, max_blocks, table, disk, entry, record, cache, write_mutex, reg, damage>>
  BY DEF Begin, at, fileVars
<1> DEFINE call == Call(kind, k, v)
           place == IF kind = "close" THEN "flush" ELSE kind
<1>3. call \in Calls /\ call.kind = kind /\ call.offset = k
  BY DEF Call, Calls
<1>4. place \in Places /\ place \notin uncountedAt
  BY DEF Places, flushing, uncountedAt
<1>5. fits(place, call)
  BY <1>1, <1>3 DEF fits, flushing
<1>6. pc' = [pc EXCEPT ![t] = place] /\ op' = [op EXCEPT ![t] = call]
  BY <1>1
<1> HIDE DEF call, place
<1>7. pc' \in [Threads -> Places] /\ op' \in [Threads -> Calls] /\ Kinds'
  BY <1>3, <1>4, <1>5, <1>6, KindsMove
<1>8. record # None
  BY <1>2, TypeFacts DEF Counted
<1>9. Counted'
  BY <1>2, <1>4, <1>6, <1>8, CountedStep DEF uncountedAt
<1> QED
  BY <1>2, <1>7, <1>9, TypeFacts, TypeStep

LEMMA TruncateType == ASSUME TypeInv, NEW t \in Threads, Truncate(t) PROVE TypeInv'
<1> DEFINE place == IF pc[t] = "truncate" THEN "open" ELSE "closed"
<1>1. /\ pc[t] \in {"truncate", "truncatePath", "truncateAside"}
      /\ goto(t, place) /\ pc' = [pc EXCEPT ![t] = place]
      /\ fat32_truncate(op[t].offset)
      /\ record' = record \/ record' = resizedRecord(op[t].offset)
      /\ UNCHANGED <<alive, max_blocks, cache, write_mutex, reg>>
  BY DEF Truncate, goto
<1>2. op[t].offset \in 0 .. MaxSize /\ record \in Records /\ record # None
  BY <1>1, TypeFacts DEF Calls, Counted
<1>3. /\ table' \in Tables /\ disk' \in [0 .. EOC -> Values \cup {0}]
      /\ entry' \in DirEntries /\ damage' \subseteq Causes /\ damage \subseteq damage'
  BY <1>1, <1>2, TruncatedType
<1>4. record' \in Records /\ record' # None /\ record'.open_count = record.open_count
  BY <1>1, <1>2, RecordSized
<1>5. pc' \in [Threads -> Places] /\ op' \in [Threads -> Calls] /\ Kinds'
  BY <1>1, KindsStep DEF Places, flushing, fits
<1>6. place \in uncountedAt <=> pc[t] \in uncountedAt
  BY <1>1 DEF uncountedAt
<1> HIDE DEF place
<1>7. Counted'
  BY <1>1, <1>3, <1>4, <1>6, CountedStep
<1> QED
  BY <1>1, <1>3, <1>4, <1>5, <1>7, TypeFacts, TypeStep

LEMMA WriteLockType == ASSUME TypeInv, NEW t \in Threads, WriteLock(t) PROVE TypeInv'
<1>1. /\ pc[t] = "write" /\ goto(t, "writeLookup") /\ pc' = [pc EXCEPT ![t] = "writeLookup"]
      /\ write_mutex' = t
      /\ \/ fat32_truncate(op[t].offset + 1) /\ record' = resizedRecord(op[t].offset + 1)
         \/ UNCHANGED <<table, disk, entry, record, damage>>
      /\ UNCHANGED <<alive, max_blocks, cache, reg>>
  BY DEF WriteLock, at, goto, fileVars
<1>2. op[t].kind = "write" /\ op[t].offset + 1 \in 0 .. MaxSize
  <2>1. op[t].kind = "write" /\ op[t].offset < MaxSize
    BY <1>1, TypeFacts DEF Kinds, fits
  <2>2. op[t].offset \in 0 .. MaxSize
    BY TypeFacts DEF Calls
  <2> QED
    BY <2>1, <2>2, CacheAssumption
<1>r. record \in Records /\ record # None
  BY <1>1, TypeFacts DEF Counted
<1>3. /\ table' \in Tables /\ disk' \in [0 .. EOC -> Values \cup {0}]
      /\ entry' \in DirEntries
      /\ record' \in Records /\ record' # None
      /\ record'.open_count = record.open_count
      /\ damage' \subseteq Causes /\ damage \subseteq damage'
  <2>1. CASE fat32_truncate(op[t].offset + 1) /\ record' = resizedRecord(op[t].offset + 1)
    BY <1>2, <1>r, <2>1, TruncatedType, RecordSized
  <2>2. CASE UNCHANGED <<table, disk, entry, record, damage>>
    BY <1>r, <2>2, TypeFacts
  <2> QED
    BY <1>1, <2>1, <2>2
<1>4. pc' \in [Threads -> Places] /\ op' \in [Threads -> Calls] /\ Kinds'
  BY <1>1, <1>2, KindsStep, TypeFacts DEF Places, flushing, fits, Kinds
<1>5. Counted'
  BY <1>1, <1>3, CountedStep DEF uncountedAt
<1> QED
  BY <1>1, <1>3, <1>4, <1>5, TypeFacts, TypeStep

\* The steps of a thread that leave the table, the entry and the record.
LEMMA LocalType ==
    ASSUME TypeInv, NEW t \in Threads, NEW place \in Places,
           goto(t, place), pc[t] \notin uncountedAt, place \notin uncountedAt,
           place # "open" => fits(place, op[t]),
           UNCHANGED <<alive, max_blocks, table, entry, record>>,
           disk' \in [0 .. EOC -> Values \cup {0}], cache' \in Seq(Blocks),
           write_mutex' \in Threads \cup {None},
           reg' \in [Threads -> Regs], damage' \subseteq Causes, damage \subseteq damage'
    PROVE  TypeInv'
<1>1. pc' \in [Threads -> Places] /\ op' \in [Threads -> Calls] /\ Kinds'
  BY KindsStep DEF uncountedAt
<1>2. pc' = [pc EXCEPT ![t] = place]
  BY DEF goto
<1>3. record # None
  BY TypeFacts DEF Counted, uncountedAt
<1>4. Counted'
  BY <1>2, <1>3, CountedStep DEF uncountedAt
<1> QED
  BY <1>1, <1>4, TypeFacts, TypeStep

LEMMA ReadLookupType == ASSUME TypeInv, NEW t \in Threads, ReadLookup(t) PROVE TypeInv'
<1>1. /\ pc[t] = "read" /\ UNCHANGED <<alive, max_blocks, table, disk, entry, record, write_mutex>>
      /\ \/ goto(t, "open") /\ UNCHANGED <<cache, reg, damage>>
         \/ Lookup(t) /\ (goto(t, "fetch") \/ goto(t, "open"))
  BY DEF ReadLookup, at, fileVars
<1>2. op[t].kind = "read" /\ record # None
  BY <1>1, TypeFacts DEF Kinds, fits, Counted, Places
<1>3. cache' \in Seq(Blocks) /\ reg' \in [Threads -> Regs] /\ damage' \subseteq Causes
      /\ damage \subseteq damage'
  <2>1. CASE UNCHANGED <<cache, reg, damage>>
    BY <2>1, TypeFacts
  <2>2. CASE Lookup(t)
    BY <1>2, <2>2, LookedUpType DEF Lookup, because
  <2> QED
    BY <1>1, <2>1, <2>2
<1>4. PICK place \in {"open", "fetch"} : goto(t, place)
  BY <1>1
<1>5. disk' \in [0 .. EOC -> Values \cup {0}] /\ write_mutex' \in Threads \cup {None}
  BY <1>1, TypeFacts
<1> QED
  BY <1>1, <1>2, <1>3, <1>4, <1>5, LocalType, TypeFacts DEF Places, flushing, fits, Kinds, uncountedAt

LEMMA WriteLookupType == ASSUME TypeInv, NEW t \in Threads, WriteLookup(t) PROVE TypeInv'
<1>1. /\ pc[t] = "writeLookup" /\ UNCHANGED <<alive, max_blocks, table, disk, entry, record, write_mutex>>
      /\ Lookup(t) /\ (goto(t, "fetch") \/ goto(t, "copy"))
  BY DEF WriteLookup, at, fileVars
<1>2. op[t].kind = "write" /\ record # None
  BY <1>1, TypeFacts DEF Kinds, fits, Counted, Places
<1>3. cache' \in Seq(Blocks) /\ reg' \in [Threads -> Regs] /\ damage' \subseteq Causes
      /\ damage \subseteq damage'
  BY <1>1, <1>2, LookedUpType DEF Lookup, because
<1>4. PICK place \in {"copy", "fetch"} : goto(t, place)
  BY <1>1
<1>5. disk' \in [0 .. EOC -> Values \cup {0}] /\ write_mutex' \in Threads \cup {None}
  BY <1>1, TypeFacts
<1> QED
  BY <1>1, <1>2, <1>3, <1>4, <1>5, LocalType, TypeFacts DEF Places, flushing, fits, Kinds, uncountedAt

LEMMA WriteCopyType == ASSUME TypeInv, NEW t \in Threads, WriteCopy(t) PROVE TypeInv'
<1>1. /\ pc[t] = "copy" /\ goto(t, "unlock")
      /\ UNCHANGED <<alive, max_blocks, table, disk, entry, record, write_mutex, reg>>
      /\ \/ cache' = cache
         \/ cache' = [cache EXCEPT ![reg[t].index].data = op[t].value,
                                   ![reg[t].index].modified = TRUE]
      /\ damage' \subseteq damage \cup {"otherBlock"} /\ damage \subseteq damage'
  BY DEF WriteCopy, at, fileVars, because
<1>2. op[t].kind = "write" /\ op[t].value \in Values \cup {0}
  BY <1>1, TypeFacts DEF Kinds, fits, Calls
<1> DEFINE k == reg[t].index
           new == [cache[k] EXCEPT !.data = op[t].value, !.modified = TRUE]
<1>3. cache' \in Seq(Blocks)
  <2>0. CASE cache' = cache
    BY <2>0, TypeFacts
  <2> SUFFICES ASSUME cache' # cache PROVE cache' \in Seq(Blocks)
    BY <2>0
  <2>1. DOMAIN cache = 1 .. Len(cache) /\ cache \in Seq(Blocks)
    BY TypeFacts, LenProperties
  <2>2. \A i \in DOMAIN cache : cache[i] \in Blocks
    BY <2>1, ElementOfSeq
  <2>3. cache' = [i \in DOMAIN cache |-> cache'[i]]
    BY <1>1, <2>1
  <2>4. ASSUME NEW i \in DOMAIN cache PROVE cache'[i] = cache[i] \/ (i = k /\ cache'[i] = new)
    <3> DEFINE m == cache
    <3>1. m = [j \in DOMAIN m |-> m[j]]
      BY <2>1
    <3> QED
      BY <1>1, <3>1
  <2>6. ASSUME k \in DOMAIN cache PROVE new \in Blocks
    <3> DEFINE b == cache[k]
    <3>1. b \in Blocks
      BY <2>2, <2>6
    <3> HIDE DEF b
    <3>2. [b EXCEPT !.data = op[t].value, !.modified = TRUE] \in Blocks
      BY <1>2, <3>1 DEF Blocks
    <3> QED
      BY <3>2 DEF b
  <2> HIDE DEF new, k
  <2> QED
    BY <2>1, <2>2, <2>3, <2>4, <2>6, MapType
<1>4. reg' \in [Threads -> Regs] /\ damage' \subseteq Causes
      /\ disk' \in [0 .. EOC -> Values \cup {0}] /\ write_mutex' \in Threads \cup {None}
  BY <1>1, TypeFacts DEF Causes
<1> QED
  BY <1>1, <1>2, <1>3, <1>4, LocalType, TypeFacts DEF Places, flushing, fits, Kinds, uncountedAt

LEMMA FetchType == ASSUME TypeInv, NEW t \in Threads, Fetch(t) PROVE TypeInv'
<1> DEFINE d == IF op[t].kind = "write" THEN op[t].value ELSE disk[reg[t].cluster]
<1>1. /\ pc[t] = "fetch" /\ goto(t, "keep")
      /\ UNCHANGED <<alive, max_blocks, table, disk, entry, record, cache, write_mutex, damage>>
      /\ reg' = [reg EXCEPT ![t].data = d]
  BY DEF Fetch, at, fileVars
<1>2. op[t].kind \in {"read", "write"}
  BY <1>1, TypeFacts DEF Kinds, fits
<1>3. d \in Values \cup {0}
  BY TypeFacts DEF Calls, Regs
<1> HIDE DEF d
<1>4. reg' \in [Threads -> Regs]
  <2>1. reg[t] \in Regs /\ reg \in [Threads -> Regs]
    BY TypeFacts
  <2>2. [reg[t] EXCEPT !.data = d] \in Regs
    BY <1>3, <2>1 DEF Regs
  <2>3. reg' = [reg EXCEPT ![t] = [reg[t] EXCEPT !.data = d]]
    BY <1>1
  <2> QED
    BY <2>1, <2>2, <2>3
<1> QED
  BY <1>1, <1>2, <1>4, LocalType, TypeFacts DEF Places, flushing, fits, Kinds, uncountedAt

\* The block that is replaced, when there is one to replace.
LEMMA VictimIsBlock ==
    ASSUME NEW t \in Threads, ~noVictim(t), cached(reg[t].cluster) = {}, max_blocks # 0,
           Len(cache) = max_blocks
    PROVE  (CHOOSE i \in CACHE_getLRU : TRUE) \in DOMAIN cache
<1>1. CACHE_getLRU # {}
  BY DEF noVictim
<1>2. CACHE_getLRU \subseteq DOMAIN cache
  BY DEF CACHE_getLRU
<1> QED
  BY <1>1, <1>2

LEMMA KeepType ==
    ASSUME TypeInv, NEW t \in Threads, Keep(t)
    PROVE  TypeInv'
<1> DEFINE r == reg[t]
           has == cached(r.cluster)
           victim == CHOOSE i \in CACHE_getLRU : TRUE
<1>0. /\ cache \in Seq(Blocks) /\ reg \in [Threads -> Regs] /\ r \in Regs
      /\ damage \subseteq Causes /\ disk \in [0 .. EOC -> Values \cup {0}]
  BY TypeFacts
<1>1. /\ pc[t] = "keep" /\ goto(t, "putOut") /\ ~noVictim(t) /\ CACHE_write_block(t)
      /\ disk' = IF max_blocks = 0 /\ op[t].kind = "write"
                 THEN [disk EXCEPT ![reg[t].cluster] = reg[t].data] ELSE disk
      /\ UNCHANGED <<alive, max_blocks, table, entry, record, write_mutex>>
  BY DEF Keep, at
<1>2. op[t].kind \in {"read", "write"}
  BY <1>1, TypeFacts DEF Kinds, fits
<1>3. r.cluster \in 0 .. EOC /\ r.data \in Values \cup {0}
  BY <1>0 DEF Regs
<1>4. disk' \in [0 .. EOC -> Values \cup {0}] /\ write_mutex' \in Threads \cup {None}
  BY <1>0, <1>1, <1>3, TypeFacts
<1> DEFINE full == block(r.cluster, r.data, TRUE)
           bare == block(r.cluster, r.data, FALSE)
<1>5. full \in Blocks /\ bare \in Blocks
  BY <1>3, BlockType
<1>6. DOMAIN cache = 1 .. Len(cache) /\ \A i \in DOMAIN cache : cache[i] \in Blocks
  BY <1>0, LenProperties, ElementOfSeq
<1>7. CASE max_blocks = 0
  <2>1. UNCHANGED <<cache, reg, damage>>
    BY <1>1, <1>7 DEF CACHE_write_block
  <2> QED
    BY <1>0, <1>1, <1>2, <1>4, <2>1, LocalType, TypeFacts DEF Places, flushing, fits, Kinds, uncountedAt
<1>8. CASE max_blocks # 0
  <2> DEFINE replaced == has = {} /\ Len(cache) = max_blocks
             q == IF replaced /\ cache[victim].modified THEN <<cache[victim]>> ELSE <<>>
  <2>1. /\ cache' = IF has # {} THEN [i \in DOMAIN cache |-> IF i \in has THEN full ELSE cache[i]]
                    ELSE IF Len(cache) # max_blocks THEN Append(cache, bare)
                    ELSE [cache EXCEPT ![victim] = bare]
        /\ reg' = [reg EXCEPT ![t].out = q]
        /\ damage' \subseteq damage \cup {"overtaken", "crossing", "unmarked"}
        /\ damage \subseteq damage'
    BY <1>1, <1>8 DEF CACHE_write_block
  <2>2. q \in Seq(Blocks)
    <3>1. replaced => victim \in DOMAIN cache
      BY <1>1, <1>8, VictimIsBlock
    <3> HIDE DEF victim, replaced, Blocks
    <3> QED
      BY <1>6, <3>1
  <2>3. cache' \in Seq(Blocks)
    <3>1. CASE has # {}
      <4>1. cache' = [i \in DOMAIN cache |-> IF i \in has THEN full ELSE cache[i]]
        BY <2>1, <3>1
      <4> HIDE DEF has, full, Blocks
      <4>2. cache' = [i \in DOMAIN cache |-> cache'[i]]
        BY <4>1
      <4>3. \A i \in DOMAIN cache : cache'[i] \in Blocks
        BY <1>5, <1>6, <4>1
      <4> QED
        BY <1>0, <4>2, <4>3, MapType
    <3>2. CASE has = {} /\ Len(cache) # max_blocks
      BY <1>0, <1>5, <2>1, <3>2, AppendProperties
    <3>3. CASE has = {} /\ Len(cache) = max_blocks
      <4>1. cache' = [cache EXCEPT ![victim] = bare]
        BY <2>1, <3>3
      <4> HIDE DEF has, bare, victim, Blocks
      <4>2. cache' = [i \in DOMAIN cache |-> cache'[i]]
        BY <1>6, <4>1
      <4>3. \A i \in DOMAIN cache : cache'[i] \in Blocks
        BY <1>5, <1>6, <4>1
      <4> QED
        BY <1>0, <4>2, <4>3, MapType
    <3> QED
      BY <3>1, <3>2, <3>3
  <2> HIDE DEF q
  <2>4. reg' \in [Threads -> Regs]
    <3>1. [r EXCEPT !.out = q] \in Regs
      <4> HIDE DEF r
      <4> QED
        BY <1>0, <2>2 DEF Regs
    <3>2. reg' = [reg EXCEPT ![t] = [r EXCEPT !.out = q]]
      BY <2>1
    <3> HIDE DEF r
    <3> QED
      BY <1>0, <3>1, <3>2
  <2>5. damage' \subseteq Causes
    BY <1>0, <2>1 DEF Causes
  <2> QED
    BY <1>1, <1>2, <1>4, <2>1, <2>3, <2>4, <2>5, LocalType, TypeFacts DEF Places, flushing, fits, Kinds, uncountedAt
<1> QED
  BY <1>7, <1>8

LEMMA PutOutDisk ==
    ASSUME TypeInv, NEW t \in Threads, putOut(t)
    PROVE  disk' \in [0 .. EOC -> Values \cup {0}] /\ reg' \in [Threads -> Regs]
<1>0. disk \in [0 .. EOC -> Values \cup {0}] /\ reg \in [Threads -> Regs]
  BY TypeFacts
<1>1. /\ disk' = [c \in DOMAIN disk |->
                  IF \E i \in DOMAIN out(t) : out(t)[i].cluster_no = c
                  THEN out(t)[1].data ELSE disk[c]]
      /\ reg' = [reg EXCEPT ![t] = NoReg]
  BY DEF putOut
<1>2. out(t) \in Seq(Blocks)
  BY <1>0 DEF Regs, out
<1>3. ASSUME NEW i \in DOMAIN out(t) PROVE out(t)[1].data \in Values \cup {0}
  <2> DEFINE q == out(t)
  <2>1. q \in Seq(Blocks) /\ i \in DOMAIN q
    BY <1>2, <1>3
  <2> HIDE DEF q
  <2>2. Len(q) \in Nat /\ DOMAIN q = 1 .. Len(q)
    BY <2>1, LenProperties
  <2>3. 1 \in 1 .. Len(q)
    BY <2>1, <2>2
  <2>4. q[1] \in Blocks
    BY <2>1, <2>3, ElementOfSeq
  <2> QED
    BY <2>4 DEF Blocks, q
<1> HIDE DEF Regs
<1> QED
  BY <1>0, <1>1, <1>3, NoRegType

LEMMA PutOutType == ASSUME TypeInv, NEW t \in Threads, PutOut(t) PROVE TypeInv'
<1>1. /\ pc[t] = "putOut" /\ putOut(t)
      /\ goto(t, IF op[t].kind = "write" THEN "unlock" ELSE "open")
      /\ UNCHANGED <<alive, max_blocks, table, entry, record, cache, write_mutex, damage>>
  BY DEF PutOut, at
<1>2. disk' \in [0 .. EOC -> Values \cup {0}] /\ reg' \in [Threads -> Regs]
  BY <1>1, PutOutDisk
<1> QED
  BY <1>1, <1>2, LocalType, TypeFacts DEF Places, flushing, fits, Kinds, uncountedAt

LEMMA UnlockType == ASSUME TypeInv, NEW t \in Threads, Unlock(t) PROVE TypeInv'
<1>1. /\ pc[t] = "unlock" /\ goto(t, "open") /\ write_mutex' = None
      /\ reg' = [reg EXCEPT ![t] = NoReg]
      /\ UNCHANGED <<alive, max_blocks, table, disk, entry, record, cache, damage>>
  BY DEF Unlock, at, fileVars
<1> HIDE DEF Regs
<1>3. reg' \in [Threads -> Regs]
  BY <1>1, NoRegType, TypeFacts
<1> QED
  BY <1>1, <1>3, LocalType, TypeFacts DEF Places, flushing, fits, Kinds, uncountedAt

\* Nobody moves, and the table, the entry and the record stay.
LEMMA StillType ==
    ASSUME TypeInv, UNCHANGED <<max_blocks, table, entry, record, write_mutex, pc, op>>,
           alive' \in BOOLEAN, disk' \in [0 .. EOC -> Values \cup {0}],
           cache' \in Seq(Blocks), reg' \in [Threads -> Regs], damage' \subseteq Causes,
           damage \subseteq damage'
    PROVE  TypeInv'
<1>1. pc' \in [Threads -> Places] /\ op' \in [Threads -> Calls] /\ Kinds'
  BY TypeFacts DEF Kinds, fits, flushing
<1>2. Counted'
  BY TypeFacts, InsideFrame DEF Counted
<1> QED
  BY <1>1, <1>2, TypeFacts, TypeStep

LEMMA FlushTakeType == ASSUME TypeInv, NEW t \in Threads, FlushTake(t) PROVE TypeInv'
<1> DEFINE q == IF Head(cache).modified THEN <<Head(cache)>> ELSE <<>>
<1>1. /\ cache # <<>> /\ cache' = Tail(cache)
      /\ reg' = [u \in Threads |->
                    IF u = t THEN [reg[t] EXCEPT !.out = q]
                    ELSE [reg[u] EXCEPT !.index = IF @ > 0 THEN @ - 1 ELSE 0]]
      /\ damage' \subseteq damage \cup {"unmarked"} /\ damage \subseteq damage'
      /\ UNCHANGED <<alive, max_blocks, table, disk, entry, record, write_mutex, pc, op>>
  BY DEF FlushTake, because, fileVars
<1>2. cache \in Seq(Blocks) /\ reg \in [Threads -> Regs] /\ alive \in BOOLEAN
      /\ disk \in [0 .. EOC -> Values \cup {0}] /\ damage \subseteq Causes
  BY TypeFacts
<1>3. Head(cache) \in Blocks /\ Tail(cache) \in Seq(Blocks)
  BY <1>1, <1>2, HeadTailProperties
<1>4. q \in Seq(Blocks)
  <2> HIDE DEF Blocks
  <2> QED
    BY <1>3
<1> HIDE DEF q
<1>5. reg' \in [Threads -> Regs]
  <2>1. reg[t] \in Regs
    BY <1>2
  <2>2. [reg[t] EXCEPT !.out = q] \in Regs
    BY <1>4, <2>1 DEF Regs
  <2>3. ASSUME NEW u \in Threads
        PROVE  [reg[u] EXCEPT !.index = IF @ > 0 THEN @ - 1 ELSE 0] \in Regs
    <3> DEFINE n == IF reg[u].index > 0 THEN reg[u].index - 1 ELSE 0
    <3>1. reg[u] \in Regs /\ n \in Nat
      BY <1>2 DEF Regs
    <3> HIDE DEF n
    <3>2. [reg[u] EXCEPT !.index = n] \in Regs
      BY <3>1 DEF Regs
    <3> HIDE DEF Regs
    <3> QED
      BY <3>2 DEF n
  <2> HIDE DEF Regs
  <2> QED
    BY <1>1, <2>2, <2>3
<1>6. damage' \subseteq Causes
  BY <1>1, <1>2 DEF Causes
<1> QED
  BY <1>1, <1>2, <1>3, <1>5, <1>6, StillType

LEMMA FlushWriteType == ASSUME TypeInv, NEW t \in Threads, FlushWrite(t) PROVE TypeInv'
<1>1. /\ putOut(t)
      /\ UNCHANGED <<alive, max_blocks, table, entry, record, cache, write_mutex, pc, op, damage>>
  BY DEF FlushWrite
<1>2. disk' \in [0 .. EOC -> Values \cup {0}] /\ reg' \in [Threads -> Regs]
  BY <1>1, PutOutDisk
<1> QED
  BY <1>1, <1>2, StillType, TypeFacts

LEMMA FlushEndType == ASSUME TypeInv, NEW t \in Threads, FlushEnd(t) PROVE TypeInv'
<1> DEFINE place == IF pc[t] = "flush" THEN "release" ELSE "closed"
<1>1. /\ pc[t] \in flushing /\ goto(t, place) /\ pc' = [pc EXCEPT ![t] = place]
      /\ UNCHANGED <<alive, max_blocks, table, disk, entry, record, cache, write_mutex, reg, damage>>
  BY DEF FlushEnd, fileVars, goto
<1>2. op[t].kind = "close" /\ record # None
  BY <1>1, TypeFacts DEF Kinds, fits, Counted, flushing
<1>3. pc' \in [Threads -> Places] /\ op' \in [Threads -> Calls] /\ Kinds'
  BY <1>1, <1>2, KindsStep, TypeFacts DEF Places, flushing, fits, Kinds
<1>4. place \in uncountedAt <=> pc[t] \in uncountedAt
  BY <1>1 DEF uncountedAt, flushing
<1> HIDE DEF place
<1>5. Counted'
  BY <1>1, <1>2, <1>4, CountedStep DEF flushing
<1> QED
  BY <1>1, <1>3, <1>5, TypeFacts, TypeStep

LEMMA ReleaseType == ASSUME TypeInv, NEW t \in Threads, Release(t) PROVE TypeInv'
<1> DEFINE place == IF record.open_count = 1 /\ max_blocks # 0 THEN "lastFlush" ELSE "closed"
           n == Cardinality(inside)
<1>1. /\ pc[t] = "release" /\ goto(t, place) /\ pc' = [pc EXCEPT ![t] = place]
      /\ \/ record' = [record EXCEPT !.open_count = @ - 1] /\ damage' = damage
         \/ record' = record /\ damage' = damage \cup {"miscounted"}
      /\ UNCHANGED <<alive, max_blocks, table, disk, entry, cache, write_mutex, reg>>
  BY DEF Release, at, fileVars, goto
<1>2. op[t].kind = "close" /\ record # None /\ record \in Records
  BY <1>1, TypeFacts DEF Kinds, fits, Counted, flushing
<1>3. place \in {"lastFlush", "closed"}
  OBVIOUS
<1> HIDE DEF place
<1>4. inside' = inside \ {t} /\ t \in inside /\ inside \subseteq Threads
  BY <1>1, <1>3, TypeFacts DEF inside, uncountedAt
<1>5. Cardinality(inside)' = n - 1
  BY <1>4, InsideBound, FS_RemoveElement
<1>6. record' \in Records /\ record' # None
      /\ \/ damage' = damage \cup {"miscounted"}
         \/ damage' = damage /\ record'.open_count = record.open_count - 1
  <2>1. CASE record' = [record EXCEPT !.open_count = @ - 1] /\ damage' = damage
    <3>1. record.open_count - 1 \in Int
      BY <1>2 DEF Records
    <3> QED
      BY <1>2, <2>1, <3>1, RecordCounted
  <2>2. CASE record' = record /\ damage' = damage \cup {"miscounted"}
    BY <1>2, <2>2
  <2> QED
    BY <1>1, <2>1, <2>2
<1> HIDE DEF n
<1>7. pc' \in [Threads -> Places] /\ op' \in [Threads -> Calls] /\ Kinds'
  BY <1>1, <1>2, <1>3, KindsStep DEF Places, flushing, fits
<1>8. Counted'
  BY <1>2, <1>5, <1>6, TypeFacts DEF Counted, n
<1>9. damage' \subseteq Causes
  BY <1>6, TypeFacts DEF Causes
<1> QED
  BY <1>1, <1>6, <1>7, <1>8, <1>9, TypeFacts, TypeStep

LEMMA RecreateType == ASSUME TypeInv, Recreate PROVE TypeInv'
<1>1. /\ table' = [c \in Entries |-> IF \E k \in DOMAIN chain : chain[k] = c THEN 0 ELSE table[c]]
      /\ entry' = [first |-> 0, size |-> 0]
      /\ damage' \subseteq damage \cup {"oldRecord"} /\ damage \subseteq damage'
      /\ UNCHANGED <<alive, max_blocks, disk, record, cache, write_mutex, pc, op, reg>>
  BY DEF Recreate, because
<1>2. 0 \in Entries /\ 0 \in 0 .. MaxSize /\ 0 \in 0 .. Size + 1
  BY FatAssumption, CacheAssumption DEF Entries
<1>3. table' \in Tables
  BY <1>1, <1>2, TypeFacts DEF Tables
<1>4. Kinds' /\ Counted' /\ pc' \in [Threads -> Places] /\ op' \in [Threads -> Calls]
  BY <1>1, TypeFacts, InsideFrame DEF Kinds, fits, Counted, flushing
<1>5. entry' \in DirEntries /\ damage' \subseteq Causes
  BY <1>1, <1>2, TypeFacts, DirEntryType DEF Causes
<1> HIDE DEF Tables
<1> QED
  BY <1>1, <1>3, <1>4, <1>5, TypeFacts, TypeStep

LEMMA TickType == ASSUME TypeInv, Tick PROVE TypeInv'
<1> DEFINE older(b) == [b EXCEPT !.age = IF @ < MaxAge THEN @ + 1 ELSE @]
<1>1. /\ cache' = [i \in DOMAIN cache |-> older(cache[i])]
      /\ UNCHANGED <<alive, max_blocks, table, disk, entry, record, write_mutex, pc, op, reg, damage>>
  BY DEF Tick, fileVars
<1>2. cache \in Seq(Blocks) /\ alive \in BOOLEAN
  BY TypeFacts
<1>3. ASSUME NEW b \in Blocks PROVE older(b) \in Blocks
  BY CacheAssumption DEF Blocks
<1> HIDE DEF older
<1>4. \A i \in DOMAIN cache : cache'[i] \in Blocks
  BY <1>1, <1>2, <1>3, LenProperties, ElementOfSeq
<1>5. cache' = [i \in DOMAIN cache |-> cache'[i]]
  BY <1>1
<1>6. cache' \in Seq(Blocks)
  BY <1>2, <1>4, <1>5, MapType
<1> QED
  BY <1>1, <1>2, <1>6, StillType, TypeFacts

LEMMA MixedType ==
    ASSUME TypeInv, NEW t \in Threads,
           (\E n \in 0 .. Len(cache) : mixedAppend(t, n)) \/ (\E i \in DOMAIN cache : mixedBlock(t, i))
    PROVE  cache' \in Seq(Blocks)
<1>0. cache \in Seq(Blocks) /\ reg[t].cluster \in 0 .. EOC /\ reg[t].data \in Values \cup {0}
      /\ op[t].value \in Values \cup {0}
  BY TypeFacts DEF Regs, Calls
<1>1. DOMAIN cache = 1 .. Len(cache) /\ Len(cache) \in Nat
      /\ \A i \in DOMAIN cache : cache[i] \in Blocks
  BY <1>0, LenProperties, ElementOfSeq
<1>2. CASE \E n \in 0 .. Len(cache) : mixedAppend(t, n)
  <2> DEFINE b == block(reg[t].cluster, reg[t].data, FALSE)
  <2>1. PICK n \in 0 .. Len(cache) : cache' = cache \/ cache' = Append(SubSeq(cache, 1, n), b)
    BY <1>2 DEF mixedAppend
  <2>2. b \in Blocks
    BY <1>0, BlockType
  <2> HIDE DEF b, Blocks
  <2> DEFINE q == SubSeq(cache, 1, n)
  <2>3. q \in Seq(Blocks)
    BY <1>1, SubSeqProperties
  <2> HIDE DEF q
  <2>4. Append(q, b) \in Seq(Blocks)
    BY <2>2, <2>3, AppendProperties
  <2> QED
    BY <1>0, <2>1, <2>4 DEF q
<1>3. CASE \E i \in DOMAIN cache : mixedBlock(t, i)
  <2>1. PICK i \in DOMAIN cache : mixedBlock(t, i)
    BY <1>3
  <2>2. PICK c \in {cache[i].cluster_no, reg[t].cluster}, m \in BOOLEAN,
             d \in {cache[i].data, reg[t].data, op[t].value} :
                cache' = [cache EXCEPT ![i] = block(c, d, m)]
    BY <2>1 DEF mixedBlock
  <2>3. c \in 0 .. EOC /\ d \in Values \cup {0}
    BY <1>0, <1>1 DEF Blocks
  <2>4. block(c, d, m) \in Blocks
    BY <2>3, BlockType
  <2> QED
    BY <1>0, <1>1, <2>2, <2>4, ExceptSeq
<1> QED
  BY <1>2, <1>3

LEMMA OverlapType == ASSUME TypeInv, NEW t \in Threads, Overlap(t) PROVE TypeInv'
<1> DEFINE place == IF pc[t] = "keep" THEN "putOut" ELSE "unlock"
<1>1. /\ pc[t] \in {"keep", "copy"} /\ goto(t, place) /\ damage' = damage \cup {"overlap"}
      /\ UNCHANGED <<alive, max_blocks, table, disk, entry, record, write_mutex>>
  BY DEF Overlap, fileVars
<1>2. cache' \in Seq(Blocks)
  BY MixedType DEF Overlap
<1>3. reg' \in [Threads -> Regs]
  <2>1. CASE \E n \in 0 .. Len(cache) :
              reg' = [u \in Threads |->
                        IF u # t /\ reg[u].index > n THEN [reg[u] EXCEPT !.index = 0] ELSE reg[u]]
    <3>1. \A u \in Threads : reg[u] \in Regs /\ [reg[u] EXCEPT !.index = 0] \in Regs
      BY TypeFacts DEF Regs
    <3> HIDE DEF Regs
    <3> QED
      BY <2>1, <3>1
  <2>2. CASE UNCHANGED reg
    BY <2>2, TypeFacts
  <2>3. CASE \E i \in DOMAIN cache : reg' = [reg EXCEPT ![t].out = <<cache[i]>>]
    <3>1. PICK i \in DOMAIN cache : reg' = [reg EXCEPT ![t].out = <<cache[i]>>]
      BY <2>3
    <3>2. cache[i] \in Blocks
      BY TypeFacts, LenProperties, ElementOfSeq
    <3>3. PICK q : q = <<cache[i]>>
      OBVIOUS
    <3>4. q \in Seq(Blocks)
      <4> HIDE DEF Blocks
      <4> QED
        BY <3>2, <3>3
    <3>5. reg[t] \in Regs
      BY TypeFacts
    <3>6. [reg[t] EXCEPT !.out = q] \in Regs
      BY <3>4, <3>5 DEF Regs
    <3>7. reg' = [reg EXCEPT ![t] = [reg[t] EXCEPT !.out = q]]
      BY <3>1, <3>3
    <3> HIDE DEF Regs
    <3> QED
      BY <3>6, <3>7, TypeFacts
  <2> QED
    BY <2>1, <2>2, <2>3 DEF Overlap
<1>4. damage' \subseteq Causes /\ damage \subseteq damage'
  BY <1>1, TypeFacts DEF Causes
<1>5. place \in Places /\ place \notin uncountedAt /\ fits(place, op[t]) /\ pc[t] \notin uncountedAt
  BY <1>1, TypeFacts DEF Kinds, Places, fits, flushing, uncountedAt
<1> HIDE DEF place
<1> QED
  BY <1>1, <1>2, <1>3, <1>4, <1>5, LocalType, TypeFacts

LEMMA NextType == TypeInv /\ [Next]_vars => TypeInv'
<1> SUFFICES ASSUME TypeInv, [Next]_vars PROVE TypeInv'
  OBVIOUS
<1>1. ASSUME NEW t \in Threads,
             Open(t) \/ GetEntry(t) \/ AddRecord(t) \/ BeginTruncatePath(t) \/ Begin(t)
             \/ Truncate(t) \/ WriteLock(t) \/ ReadLookup(t) \/ WriteLookup(t)
             \/ WriteCopy(t) \/ Fetch(t)
      PROVE  TypeInv'
  BY <1>1, OpenType, GetEntryType, AddRecordType, BeginTruncatePathType, BeginType,
     TruncateType, WriteLockType, ReadLookupType, WriteLookupType, WriteCopyType, FetchType
<1>2. ASSUME NEW t \in Threads,
             Keep(t) \/ PutOut(t) \/ Unlock(t) \/ FlushTake(t) \/ FlushWrite(t)
             \/ FlushEnd(t) \/ Release(t) \/ Overlap(t)
      PROVE  TypeInv'
  BY <1>2, KeepType, PutOutType, UnlockType, FlushTakeType, FlushWriteType,
     FlushEndType, ReleaseType, OverlapType
<1>3. ASSUME NEW t \in Threads, Die(t) PROVE TypeInv'
  BY <1>3, StillType, TypeFacts DEF Die, fileVars
<1>4. CASE UNCHANGED vars
  BY <1>4, StillType, TypeFacts DEF vars, fileVars
<1>5. CASE Recreate \/ Tick
  BY <1>5, RecreateType, TickType
<1> QED
  BY <1>1, <1>2, <1>3, <1>4, <1>5 DEF Next

\* The variables keep to their types: a cluster number read through the table
\* is one the device has or an end mark, the first cluster of the file an entry
\* of the table, and open_count the number of threads that have the file open.
THEOREM TypeCorrect == Spec => []TypeOK
<1>1. TypeInv => TypeOK
  BY DEF TypeInv
<1> QED
  BY InitType, NextType, <1>1, PTL DEF Spec

-----------------------------------------------------------------------------
(* The record of an open file.                                             *)

\* The record has the size of the entry, unless the file was made anew under it or
\* two threads made it; what a thread has read to make the first one still holds;
\* a truncate works on a record of its own only when there are two.
RecordInv ==
    /\ record # None /\ damage \cap {"oldRecord", "twoRecords"} = {} => record.size = entry.size
    /\ record = None => \A t \in Threads : pc[t] = "addRecord" => reg[t].entry = entry
    /\ \A t \in Threads : pc[t] = "truncateAside" => "twoRecords" \in damage

\* A thread that does not change the entry goes to a place past OFILE_get.
LEMMA StillRecord ==
    ASSUME TypeInv, RecordInv, entry' = entry, damage \subseteq damage', record' # None,
           record # None, record'.size = record.size,
           NEW t \in Threads, NEW place, pc' = [pc EXCEPT ![t] = place], place # "truncateAside"
    PROVE  RecordInv'
<1>1. \A u \in Threads : pc'[u] = "truncateAside" => pc[u] = "truncateAside"
  BY TypeFacts
<1> QED
  BY <1>1 DEF RecordInv

\* The record takes the size of the entry over, or there are two.
LEMMA ResizedRecord ==
    ASSUME TypeInv, RecordInv, NEW t \in Threads, record # None,
           NEW size \in 0 .. MaxSize, fat32_truncate(size),
           record' = resizedRecord(size) \/ (record' = record /\ "twoRecords" \in damage),
           NEW place, pc' = [pc EXCEPT ![t] = place], place # "truncateAside"
    PROVE  RecordInv'
<1>1. entry'.size = size /\ damage \subseteq damage'
  BY TruncatedType
<1>2. record \in Records
  BY TypeFacts
<1>3. record' # None /\ (record'.size = size \/ "twoRecords" \in damage')
  BY <1>1, <1>2, RecordSized
<1>4. \A u \in Threads : pc'[u] = "truncateAside" => pc[u] = "truncateAside"
  BY TypeFacts
<1> QED
  BY <1>1, <1>3, <1>4 DEF RecordInv

LEMMA GetEntryRecord ==
    ASSUME TypeInv, RecordInv, NEW t \in Threads, GetEntry(t)
    PROVE  RecordInv'
<1>1. /\ record = None /\ UNCHANGED <<record, entry, damage>>
      /\ reg' = [reg EXCEPT ![t].entry = entry] /\ pc' = [pc EXCEPT ![t] = "addRecord"]
  BY DEF GetEntry, fileVars
<1>2. reg'[t].entry = entry /\ \A u \in Threads : u # t => reg'[u] = reg[u]
  BY <1>1, TypeFacts DEF Regs
<1>3. \A u \in Threads : u # t => pc'[u] = pc[u]
  BY <1>1, TypeFacts
<1> QED
  BY <1>1, <1>2, <1>3, TypeFacts DEF RecordInv

LEMMA AddRecordRecord ==
    ASSUME TypeInv, RecordInv, NEW t \in Threads, AddRecord(t)
    PROVE  RecordInv'
<1> DEFINE place == IF op[t].kind = "open" THEN "open"
                    ELSE IF record = None THEN "truncatePath" ELSE "truncateAside"
           new == OFILE_add_new(reg[t].entry, IF op[t].kind = "open" THEN 1 ELSE 0)
<1>1. /\ pc[t] = "addRecord" /\ pc' = [pc EXCEPT ![t] = place]
      /\ record' = IF record = None THEN new ELSE record
      /\ damage' = damage \cup (IF record # None THEN {"twoRecords"} ELSE {})
      /\ entry' = entry
  BY DEF AddRecord, at, goto, because, fileVars
<1>2. new.size = reg[t].entry.size /\ "size" \in DOMAIN new
  BY DEF OFILE_add_new
<1>3. \A u \in Threads : pc'[u] = IF u = t THEN place ELSE pc[u]
  BY <1>1, TypeFacts
<1>4. CASE record = None
  <2>0. Counted' /\ pc'[t] \notin {"closed", "addRecord"}
    BY AddRecordType, <1>3, <1>4 DEF TypeInv
  <2>1. record' # None
    BY <2>0 DEF Counted
  <2>2. record'.size = entry.size
    BY <1>1, <1>2, <1>4 DEF RecordInv
  <2>3. place # "truncateAside"
    BY <1>4
  <2> HIDE DEF place, new
  <2> QED
    BY <1>1, <1>3, <1>4, <2>1, <2>2, <2>3 DEF RecordInv
<1>5. CASE record # None
  BY <1>1, <1>3, <1>5 DEF RecordInv
<1> QED
  BY <1>4, <1>5

LEMMA NextRecord == TypeInv /\ RecordInv /\ [Next]_vars => RecordInv'
<1> SUFFICES ASSUME TypeInv, RecordInv, [Next]_vars PROVE RecordInv'
  OBVIOUS
<1>0. damage \subseteq damage'
  BY Damages
<1>1. ASSUME NEW t \in Threads, Open(t) \/ Release(t) PROVE RecordInv'
  <2>1. /\ entry' = entry /\ \E place : goto(t, place) /\ place # "truncateAside"
        /\ record # None
        /\ \/ record' = record
           \/ \E n \in {record.open_count + 1, record.open_count - 1} :
                 record' = [record EXCEPT !.open_count = n]
    BY <1>1, TypeFacts DEF Open, Release, fileVars, at, Counted
  <2>2. record \in Records /\ record.open_count \in Int
    BY <2>1, TypeFacts DEF Records
  <2>3. record' # None /\ record'.size = record.size
    BY <2>1, <2>2, RecordCounted
  <2>4. PICK place : pc' = [pc EXCEPT ![t] = place] /\ place # "truncateAside"
    BY <2>1 DEF goto
  <2> QED
    BY <1>0, <2>1, <2>3, <2>4, StillRecord
<1>2. ASSUME NEW t \in Threads, Truncate(t) PROVE RecordInv'
  <2>1. /\ op[t].offset \in 0 .. MaxSize /\ fat32_truncate(op[t].offset)
        /\ pc[t] \in {"truncate", "truncatePath", "truncateAside"}
    BY <1>2, TypeFacts DEF Calls, Truncate
  <2>2. record # None
    BY <2>1, TypeFacts DEF Counted
  <2>3. record' = resizedRecord(op[t].offset) \/ (record' = record /\ "twoRecords" \in damage)
    BY <1>2 DEF Truncate, RecordInv
  <2> DEFINE place == IF pc[t] = "truncate" THEN "open" ELSE "closed"
  <2>4. pc' = [pc EXCEPT ![t] = place] /\ place # "truncateAside"
    BY <1>2 DEF Truncate, goto
  <2> HIDE DEF place
  <2> QED
    BY <2>1, <2>2, <2>3, <2>4, ResizedRecord
<1>3. ASSUME NEW t \in Threads, WriteLock(t) PROVE RecordInv'
  <2>1. pc[t] = "write" /\ pc' = [pc EXCEPT ![t] = "writeLookup"]
    BY <1>3 DEF WriteLock, at, goto
  <2>2. record # None
    BY <2>1, TypeFacts DEF Counted
  <2>3. CASE UNCHANGED <<fileVars, record, expected, damage>>
    BY <1>0, <2>1, <2>2, <2>3, StillRecord DEF fileVars
  <2>4. CASE fat32_truncate(op[t].offset + 1) /\ record' = resizedRecord(op[t].offset + 1)
    <3>1. op[t].kind = "write" /\ op[t].offset < MaxSize
      BY <2>1, TypeFacts DEF Kinds, fits
    <3>2. op[t].offset \in 0 .. MaxSize
      BY TypeFacts DEF Calls
    <3>3. op[t].offset + 1 \in 0 .. MaxSize
      BY <3>1, <3>2, CacheAssumption
    <3> QED
      BY <2>1, <2>2, <2>4, <3>3, ResizedRecord
  <2> QED
    BY <1>3, <2>3, <2>4 DEF WriteLock
<1>4. ASSUME NEW t \in Threads,
             ReadLookup(t) \/ WriteLookup(t) \/ WriteCopy(t) \/ Fetch(t) \/ Keep(t)
             \/ PutOut(t) \/ Unlock(t) \/ FlushEnd(t) \/ Overlap(t)
      PROVE  RecordInv'
  <2>1. /\ UNCHANGED <<record, entry>> /\ pc[t] \notin {"closed", "addRecord"}
        /\ \E place : goto(t, place) /\ place # "truncateAside"
    BY <1>4 DEF ReadLookup, WriteLookup, WriteCopy, Fetch, Keep, PutOut, Unlock, FlushEnd,
       Overlap, at, flushing, fileVars
  <2>2. record # None
    BY <2>1, TypeFacts DEF Counted
  <2>3. PICK place : pc' = [pc EXCEPT ![t] = place] /\ place # "truncateAside"
    BY <2>1 DEF goto
  <2> QED
    BY <1>0, <2>1, <2>2, <2>3, StillRecord
<1>5. ASSUME NEW t \in Threads, BeginTruncatePath(t) PROVE RecordInv'
  BY <1>0, <1>5, StillRecord DEF BeginTruncatePath, fileVars
<1>6. ASSUME NEW t \in Threads, Begin(t) PROVE RecordInv'
  <2>1. PICK place : pc' = [pc EXCEPT ![t] = place] /\ place # "truncateAside"
    BY <1>6 DEF Begin
  <2>2. pc[t] = "open" /\ UNCHANGED <<record, entry>>
    BY <1>6 DEF Begin, at, fileVars
  <2>3. record # None
    BY <2>2, TypeFacts DEF Counted
  <2> QED
    BY <1>0, <2>1, <2>2, <2>3, StillRecord
<1>7. ASSUME NEW t \in Threads, FlushTake(t) \/ FlushWrite(t) \/ Die(t) PROVE RecordInv'
  <2>1. CASE Die(t)
    BY <2>1 DEF Die, fileVars, RecordInv
  <2>2. CASE FlushTake(t) \/ FlushWrite(t)
    <3>1. pc[t] \in flushing /\ UNCHANGED <<record, entry, pc>>
      BY <2>2 DEF FlushTake, FlushWrite, fileVars
    <3>2. record # None
      BY <3>1, TypeFacts DEF Counted, flushing
    <3>3. pc' = [pc EXCEPT ![t] = pc[t]] /\ pc[t] # "truncateAside"
      BY <3>1, TypeFacts DEF flushing
    <3> QED
      BY <1>0, <3>1, <3>2, <3>3, StillRecord
  <2> QED
    BY <1>7, <2>1, <2>2
<1>8. CASE Recreate
  <2>1. /\ UNCHANGED <<record, pc>> /\ \A t \in Threads : pc[t] = "closed"
        /\ damage' = damage \cup (IF record # None THEN {"oldRecord"} ELSE {})
    BY <1>8 DEF Recreate, because
  <2> QED
    BY <2>1 DEF RecordInv
<1>9. CASE Tick \/ UNCHANGED vars
  BY <1>9 DEF Tick, vars, fileVars, RecordInv
<1> QED
  BY <1>1, <1>2, <1>3, <1>4, <1>5, <1>6, <1>7, <1>8, <1>9, GetEntryRecord, AddRecordRecord
  DEF Next

\* Whatever the sequence of truncates (by path too), growing writes, opens and
\* closes, the record that a search finds (opened_file_t, tad_file.c) and the entry
\* in the directory have one size between them, as long as the file keeps its entry
\* and no other thread appended a record between the search of OFILE_get and its
\* own append (tad_file.c:72-104): a read of the entry that another thread has
\* overtaken by a truncate never becomes the only record.
THEOREM RecordFollows == Spec => []RecordAgrees
<1>1. RecordInv => RecordAgrees
  BY DEF RecordInv, RecordAgrees
<1>2. Init => RecordInv
  BY DEF Init, RecordInv
<1> QED
  BY InitType, NextType, NextRecord, <1>1, <1>2, PTL DEF Spec

-----------------------------------------------------------------------------
(* The chain of the file.                                                  *)

\* The clusters a file can have: cluster 2 is the root's.
Data == Clusters \ {2}

\* s is the chain of the only file of the table, from its first cluster on.
fileChain(s, tab, first) ==
    /\ tab \in Tables /\ s \in Seq(Data) /\ distinct(s)
    /\ Len(s) = 0 => first = 0
    /\ Len(s) # 0 => first = s[1] /\ isChain(s, tab)
    /\ tab[2] # 0
    /\ \A c \in Data : tab[c] = 0 <=> \A i \in 1 .. Len(s) : s[i] # c

ChainInv == fileChain(chain, table, entry.first) /\ Len(chain) = entry.size

LEMMA LinkedOfFile ==
    ASSUME NEW tab, NEW s, NEW first, fileChain(s, tab, first)
    PROVE  linked(tab, first) = s
<1>0. tab \in Tables /\ s \in Seq(Data)
  BY DEF fileChain
<1>1. CASE Len(s) = 0
  <2>1. s = <<>> /\ first = 0
    BY <1>0, <1>1, EmptySeq DEF fileChain
  <2> QED
    BY <2>1 DEF linked
<1>2. CASE Len(s) # 0
  BY <1>0, <1>2, LinkedOfChain DEF fileChain
<1> QED
  BY <1>1, <1>2

\* A chain shorter than the file may grow leaves a cluster free.
LEMMA SomeFree ==
    ASSUME NEW tab, NEW s, NEW first, fileChain(s, tab, first), Len(s) < MaxSize
    PROVE  nextFree(tab) \in Data /\ tab[nextFree(tab)] = 0
<1>0. Size \in Nat /\ Size > 2 /\ MaxSize \in Nat /\ MaxSize + 3 <= Size
  BY FatAssumption, CacheAssumption
<1>a. tab \in Tables /\ s \in Seq(Data) /\ tab[2] # 0 /\ Len(s) \in Nat
      /\ \A c \in Data : tab[c] = 0 <=> \A i \in 1 .. Len(s) : s[i] # c
  BY LenProperties DEF fileChain
<1>1. Data = 3 .. Size - 1
  BY <1>0 DEF Data, Clusters
<1>2. IsFiniteSet(Data) /\ Cardinality(Data) = Size - 3
  <2>1. 3 \in Int /\ Size - 1 \in Int
    BY <1>0
  <2>2. IsFiniteSet(3 .. Size - 1)
        /\ Cardinality(3 .. Size - 1) = IF 3 > Size - 1 THEN 0 ELSE Size - 1 - 3 + 1
    BY <2>1, FS_Interval
  <2> QED
    BY <1>0, <1>1, <2>2
<1>3. IsFiniteSet(1 .. Len(s)) /\ Cardinality(1 .. Len(s)) = Len(s)
  <2>1. IsFiniteSet(1 .. Len(s))
        /\ Cardinality(1 .. Len(s)) = IF 1 > Len(s) THEN 0 ELSE Len(s) - 1 + 1
    BY <1>a, FS_Interval
  <2> DEFINE n == Len(s)
  <2>2. n \in Nat
    BY <1>a
  <2> HIDE DEF n
  <2> QED
    BY <2>1, <2>2 DEF n
<1>4. ASSUME nextFree(tab) = 0, freeClusters(tab) = {} PROVE FALSE
  <2>1. \A c \in Data : \E i \in 1 .. Len(s) : s[i] = c
    BY <1>a, <1>4 DEF freeClusters, Data
  <2>2. s \in [1 .. Len(s) -> Data]
    BY <1>a, LenProperties
  <2>3. s \in Surjection(1 .. Len(s), Data)
    BY <2>1, <2>2 DEF Surjection
  <2>4. Cardinality(Data) <= Cardinality(1 .. Len(s))
    BY <1>3, <2>3, FS_Surjection
  <2> DEFINE n == Len(s)
  <2>5. n \in Nat /\ n < MaxSize /\ Size - 3 <= n
    BY <1>a, <1>2, <1>3, <2>4
  <2> HIDE DEF n
  <2> QED
    BY <1>0, <2>5
<1>5. nextFree(tab) \in Clusters /\ tab[nextFree(tab)] = 0
  BY <1>a, <1>4, NextFree
<1> QED
  BY <1>a, <1>5 DEF Data

LEMMA GrowTurn ==
    ASSUME NEW tab, NEW s, NEW first, fileChain(s, tab, first), Len(s) < MaxSize
    PROVE  \E q : /\ fileChain(q, grown(tab, first), IF first = 0 THEN nextFree(tab) ELSE first)
                  /\ Len(q) = Len(s) + 1 /\ \A i \in 1 .. Len(s) : q[i] = s[i]
<1> DEFINE c == nextFree(tab)
           new == grown(tab, first)
<1>0. Size \in Nat /\ Size > 2 /\ MaxSize \in Nat /\ MaxSize + 3 <= Size
  BY FatAssumption, CacheAssumption
<1>1. c \in Data /\ tab[c] = 0
  BY SomeFree
<1>2. /\ tab \in Tables /\ s \in Seq(Data) /\ distinct(s) /\ tab[2] # 0 /\ Len(s) \in Nat
      /\ Len(s) = 0 => first = 0
      /\ Len(s) # 0 => first = s[1] /\ isChain(s, tab)
      /\ \A d \in Data : tab[d] = 0 <=> \A i \in 1 .. Len(s) : s[i] # d
  BY LenProperties DEF fileChain
<1>3. c \in Clusters /\ c \in Entries /\ c # 2 /\ c # 0 /\ 2 \in Entries
      /\ EOC \in 0 .. Size + 1 /\ EOC # 0 /\ isEOC(EOC) /\ Data \subseteq Entries
  BY <1>0, <1>1 DEF Data, Clusters, Entries, EOC, isEOC
<1>4. CASE Len(s) = 0
  <2>1. new = [tab EXCEPT ![c] = EOC] /\ first = 0
    BY <1>2, <1>4 DEF grown, setUsed
  <2> DEFINE q == <<c>>
  <2>2. q \in Seq(Data) /\ q \in Seq(Clusters) /\ Len(q) = 1 /\ q[1] = c
    BY <1>1, <1>3
  <2> HIDE DEF q, new, c
  <2>3. new \in Tables /\ new[c] = EOC /\ \A d \in Entries : d # c => new[d] = tab[d]
    BY <1>2, <1>3, <2>1 DEF Tables
  <2>4. isChain(q, new)
    BY <1>0, <1>3, <2>2, <2>3 DEF isChain
  <2>5. distinct(q)
    BY <2>2 DEF distinct
  <2>6. \A d \in Data : new[d] = 0 <=> \A i \in 1 .. Len(q) : q[i] # d
    BY <1>2, <1>3, <1>4, <2>2, <2>3
  <2>7. new[2] # 0
    BY <1>2, <1>3, <2>3
  <2>8. fileChain(q, new, c)
    BY <1>3, <2>2, <2>3, <2>4, <2>5, <2>6, <2>7 DEF fileChain
  <2> QED
    BY <1>4, <2>1, <2>2, <2>8 DEF new, c
<1>5. CASE Len(s) # 0
  <2> DEFINE q == Append(s, c)
  <2>1. first = s[1] /\ isChain(s, tab)
    BY <1>2, <1>5
  <2>2. s[1] \in Clusters /\ first # 0
    <3>1. 1 \in 1 .. Len(s)
      BY <1>2, <1>5
    <3> QED
      BY <2>1, <3>1, <1>2, ChainFacts DEF Clusters
  <2>3. new = linkFree(tab, s[1])
    BY <2>1, <2>2 DEF grown
  <2>4. Len(s) < Size
    <3> DEFINE n == Len(s)
    <3>1. n \in Nat /\ n < MaxSize
      BY <1>2
    <3> HIDE DEF n
    <3> QED
      BY <1>0, <3>1 DEF n
  <2>5. /\ new \in Tables /\ isChain(q, new) /\ distinct(q)
        /\ Len(q) = Len(s) + 1 /\ q[1] = s[1]
        /\ \A d \in Entries : d \notin {c, s[Len(s)]} => new[d] = tab[d]
    BY <1>2, <1>3, <2>1, <2>3, <2>4, LinkFreeAppends
  <2>6. q \in Seq(Data) /\ q[Len(s) + 1] = c /\ \A i \in 1 .. Len(s) : q[i] = s[i]
    BY <1>1, <1>2, AppendProperties
  <2> HIDE DEF q, new, c
  <2>7. \A i \in 1 .. Len(q) : new[q[i]] # 0
    BY <2>5, ChainFacts
  <2>8. ASSUME NEW d \in Data PROVE new[d] = 0 <=> \A i \in 1 .. Len(q) : q[i] # d
    <3>1. CASE \E i \in 1 .. Len(q) : q[i] = d
      BY <2>7, <3>1
    <3>2. CASE \A i \in 1 .. Len(q) : q[i] # d
      <4> DEFINE n == Len(s)
      <4>1. n \in Nat /\ n # 0 /\ Len(q) = n + 1 /\ q[n + 1] = c
            /\ \A i \in 1 .. n : q[i] = s[i]
        BY <1>2, <1>5, <2>5, <2>6
      <4> HIDE DEF n
      <4>2. d # c /\ \A i \in 1 .. n : s[i] # d
        <5>1. n + 1 \in 1 .. Len(q) /\ \A i \in 1 .. n : i \in 1 .. Len(q)
          BY <4>1
        <5> QED
          BY <3>2, <4>1, <5>1
      <4>3. n \in 1 .. n
        BY <4>1
      <4>4. d \notin {c, s[Len(s)]} /\ tab[d] = 0
        BY <1>2, <4>2, <4>3 DEF n
      <4> QED
        BY <1>3, <2>5, <3>2, <4>4
    <3> QED
      BY <3>1, <3>2
  <2>9. new[2] # 0
    <3>1. Len(s) \in 1 .. Len(s)
      BY <1>2, <1>5
    <3>2. s[Len(s)] # 2
      BY <1>2, <3>1 DEF Data
    <3> QED
      BY <1>2, <1>3, <2>5, <3>2
  <2>10. fileChain(q, new, first)
    BY <2>1, <2>5, <2>6, <2>8, <2>9 DEF fileChain
  <2> QED
    BY <2>2, <2>5, <2>6, <2>10 DEF new
<1> QED
  BY <1>4, <1>5

LEMMA ShrinkTurn ==
    ASSUME NEW tab, NEW s, NEW first, fileChain(s, tab, first), Len(s) > 0
    PROVE  \E q : /\ fileChain(q, removeLast(tab, first),
                               IF removed(tab, first) = 0 THEN 0 ELSE first)
                  /\ Len(q) = Len(s) - 1 /\ \A i \in 1 .. Len(s) - 1 : q[i] = s[i]
<1> DEFINE new == removeLast(tab, first)
           q == SubSeq(s, 1, Len(s) - 1)
           n == Len(s)
<1>1. /\ tab \in Tables /\ s \in Seq(Data) /\ distinct(s) /\ tab[2] # 0
      /\ n \in Nat /\ n > 0
      /\ first = s[1] /\ isChain(s, tab)
      /\ \A d \in Data : tab[d] = 0 <=> \A i \in 1 .. n : s[i] # d
  BY LenProperties DEF fileChain
<1>2. /\ new \in Tables /\ new[s[n]] = 0
      /\ q \in Seq(Clusters) /\ Len(q) = n - 1 /\ distinct(q)
      /\ \A i \in 1 .. n - 1 : q[i] = s[i]
      /\ n = 1 => removed(tab, first) = 0
      /\ n > 1 => isChain(q, new) /\ removed(tab, first) # 0
      /\ \A d \in Entries : (\A i \in 1 .. n : d # s[i]) => new[d] = tab[d]
  BY <1>1, RemoveLastShortens
<1>3. \A i \in 1 .. n : s[i] \in Data
  BY <1>1
<1>4. Data \subseteq Entries /\ 2 \in Entries /\ 2 \notin Data
  BY FatAssumption DEF Data, Clusters, Entries
<1> HIDE DEF new, q, n
<1>n. n \in Nat /\ n > 0 /\ Len(q) = n - 1
  BY <1>1, <1>2
<1>5. q \in Seq(Data)
  <2>1. \A i \in 1 .. Len(q) : q[i] \in Data
    <3>1. \A i \in 1 .. Len(q) : i \in 1 .. n - 1 /\ i \in 1 .. n
      BY <1>n
    <3> QED
      BY <1>2, <1>3, <3>1
  <2>2. DOMAIN q = 1 .. Len(q) /\ q = [i \in 1 .. Len(q) |-> q[i]] /\ Len(q) \in Nat
    BY <1>2, LenProperties
  <2>3. q \in [1 .. Len(q) -> Data]
    BY <2>1, <2>2
  <2> QED
    BY <2>2, <2>3, SeqDef
<1>6. ASSUME NEW d \in Data PROVE new[d] = 0 <=> \A i \in 1 .. Len(q) : q[i] # d
  <2>1. CASE \A i \in 1 .. n : s[i] # d
    <3>1. \A i \in 1 .. Len(q) : i \in 1 .. n - 1 /\ i \in 1 .. n
      BY <1>n
    <3> QED
      BY <1>1, <1>2, <1>4, <2>1, <3>1
  <2>2. CASE \E i \in 1 .. n : s[i] = d
    <3>1. PICK i \in 1 .. n : s[i] = d
      BY <2>2
    <3>2. CASE i = n
      <4>1. \A j \in 1 .. Len(q) : j \in 1 .. n - 1 /\ j \in 1 .. n /\ j # n /\ n \in 1 .. n
        BY <1>n
      <4>2. \A j \in 1 .. Len(q) : q[j] # s[n]
        BY <1>1, <1>2, <4>1 DEF distinct, n
      <4> QED
        BY <1>2, <3>1, <3>2, <4>2
    <3>3. CASE i # n
      <4>1. i \in 1 .. n - 1 /\ i \in 1 .. Len(q) /\ n > 1
        BY <1>n, <3>3
      <4>2. q[i] = d /\ isChain(q, new)
        BY <1>2, <3>1, <4>1
      <4>3. new[q[i]] # 0
        BY <1>2, <4>1, <4>2, ChainFacts
      <4> QED
        BY <4>1, <4>2, <4>3
    <3> QED
      BY <3>2, <3>3
  <2> QED
    BY <2>1, <2>2
<1>7. new[2] # 0
  BY <1>1, <1>2, <1>3, <1>4
<1> DEFINE f == IF removed(tab, first) = 0 THEN 0 ELSE first
<1>8. (Len(q) = 0 => f = 0) /\ (Len(q) # 0 => f = q[1] /\ isChain(q, new))
  <2>1. CASE n = 1
    BY <1>2, <1>n, <2>1
  <2>2. CASE n # 1
    <3>1. n > 1 /\ 1 \in 1 .. n - 1
      BY <1>n, <2>2
    <3> QED
      BY <1>1, <1>2, <3>1
  <2> QED
    BY <2>1, <2>2
<1> HIDE DEF f
<1>9. fileChain(q, new, f)
  BY <1>2, <1>5, <1>6, <1>7, <1>8 DEF fileChain
<1> QED
  BY <1>2, <1>9 DEF new, f, n

\* q is the chain that b ends in, n clusters long, and has the clusters of s as
\* far as both go.
grew(q, b, s, n) ==
    /\ fileChain(q, b.tab, b.first) /\ Len(q) = n
    /\ \A i \in 1 .. n : i <= Len(s) => q[i] = s[i]

LEMMA TurnGrows ==
    ASSUME NEW size, NEW b \in Ends, NEW s, Len(s) \in Nat,
           NEW q, NEW n \in Nat, grew(q, b, s, n),
           size > entry.size, Len(s) = entry.size, n >= entry.size, n < MaxSize
    PROVE  \E p : grew(p, turned(size, b), s, n + 1)
<1> DEFINE t == turned(size, b)
<1>1. /\ t.tab = grown(b.tab, b.first)
      /\ t.first = IF b.first = 0 THEN nextFree(b.tab) ELSE b.first
  BY DEF turned
<1>2. PICK p : /\ fileChain(p, grown(b.tab, b.first),
                            IF b.first = 0 THEN nextFree(b.tab) ELSE b.first)
               /\ Len(p) = Len(q) + 1 /\ \A i \in 1 .. Len(q) : p[i] = q[i]
  BY GrowTurn DEF grew
<1> HIDE DEF t
<1>3. ASSUME NEW i \in 1 .. n + 1, i <= Len(s) PROVE p[i] = s[i]
  <2> DEFINE l == Len(s)
  <2>1. l \in Nat /\ l <= n /\ i <= l
    BY <1>3
  <2> HIDE DEF l
  <2>2. i \in 1 .. n
    BY <2>1
  <2> QED
    BY <1>2, <1>3, <2>2 DEF grew
<1>4. grew(p, t, s, n + 1)
  BY <1>1, <1>2, <1>3 DEF grew
<1> QED
  BY <1>4 DEF t

LEMMA TurnShrinks ==
    ASSUME NEW size, NEW b \in Ends, NEW s,
           NEW q, NEW n \in Nat, grew(q, b, s, n), n > 0, ~ (size > entry.size)
    PROVE  \E p : grew(p, turned(size, b), s, n - 1)
<1> DEFINE t == turned(size, b)
<1>1. /\ t.tab = removeLast(b.tab, b.first)
      /\ t.first = IF removed(b.tab, b.first) = 0 THEN 0 ELSE b.first
  BY DEF turned
<1>2. PICK p : /\ fileChain(p, removeLast(b.tab, b.first),
                            IF removed(b.tab, b.first) = 0 THEN 0 ELSE b.first)
               /\ Len(p) = Len(q) - 1 /\ \A i \in 1 .. Len(q) - 1 : p[i] = q[i]
  BY ShrinkTurn DEF grew
<1> HIDE DEF t
<1>3. ASSUME NEW i \in 1 .. n - 1, i <= Len(s) PROVE p[i] = s[i]
  <2>1. i \in 1 .. n
    OBVIOUS
  <2> QED
    BY <1>2, <1>3, <2>1 DEF grew
<1>4. grew(p, t, s, n - 1)
  BY <1>1, <1>2, <1>3 DEF grew
<1> QED
  BY <1>4 DEF t

\* A truncate to a size leaves a chain as long as that, which has the clusters
\* of the old chain as far as both go.
LEMMA ResizedChain ==
    ASSUME table \in Tables, entry \in DirEntries, ChainInv,
           NEW size \in 0 .. MaxSize
    PROVE  \E q : grew(q, resized(size), chain, size)
<1>0. MaxSize \in Nat /\ entry.size \in 0 .. MaxSize
  BY CacheAssumption DEF DirEntries
<1>1. PICK f : /\ f \in [0 .. MaxSize -> Ends]
               /\ f[0] = [tab |-> table, first |-> entry.first]
               /\ \A n \in 1 .. MaxSize : f[n] = turned(size, f[n - 1])
               /\ turns(size) \in 0 .. MaxSize /\ resized(size) = f[turns(size)]
  BY ResizedTurns
<1> DEFINE z == entry.size
           s == chain
           long(n) == IF size > z THEN z + n ELSE z - n
           S == {n \in 0 .. MaxSize : n <= turns(size) => \E q : grew(q, f[n], s, long(n))}
<1>2. Len(s) = z
  BY DEF ChainInv
<1>3. 0 \in S
  <2>1. fileChain(s, f[0].tab, f[0].first)
    BY <1>1 DEF ChainInv
  <2>2. grew(s, f[0], s, z)
    BY <1>2, <2>1 DEF grew
  <2>3. long(0) = z
    BY <1>0
  <2> QED
    BY <1>0, <2>2, <2>3
<1> HIDE DEF s, z
<1>4. ASSUME NEW n \in 0 .. MaxSize - 1, n \in S PROVE n + 1 \in S
  <2>1. n + 1 \in 1 .. MaxSize /\ (n + 1) - 1 = n /\ n + 1 \in 0 .. MaxSize /\ n \in 0 .. MaxSize
    BY <1>0
  <2>2. f[n + 1] = turned(size, f[n]) /\ f[n] \in Ends
    BY <1>1, <2>1
  <2>3. ASSUME n + 1 <= turns(size) PROVE \E q : grew(q, f[n + 1], s, long(n + 1))
    <3>1. n <= turns(size) /\ z \in 0 .. MaxSize
      BY <1>0, <1>1, <2>1, <2>3 DEF z
    <3>2. PICK q : grew(q, f[n], s, long(n))
      BY <1>4, <3>1
    <3>3. CASE size > z
      <4>1. /\ long(n) \in Nat /\ long(n) >= z /\ long(n) < MaxSize
            /\ long(n + 1) = long(n) + 1
        BY <1>0, <2>1, <2>3, <3>1, <3>3 DEF turns, z
      <4> HIDE DEF long
      <4>2. \E p : grew(p, turned(size, f[n]), s, long(n) + 1)
        BY <1>2, <2>2, <3>1, <3>2, <3>3, <4>1, TurnGrows DEF z
      <4> QED
        BY <2>2, <4>1, <4>2
    <3>4. CASE ~ (size > z)
      <4>1. long(n) \in Nat /\ long(n) > 0 /\ long(n + 1) = long(n) - 1
        BY <1>0, <2>1, <2>3, <3>1, <3>4 DEF turns, z
      <4> HIDE DEF long
      <4>2. \E p : grew(p, turned(size, f[n]), s, long(n) - 1)
        BY <2>2, <3>2, <3>4, <4>1, TurnShrinks DEF z
      <4> QED
        BY <2>2, <4>1, <4>2
    <3> QED
      BY <3>3, <3>4
  <2> QED
    BY <2>1, <2>3
<1>5. 0 .. MaxSize \subseteq S
  <2> HIDE DEF S
  <2> QED
    BY <1>0, <1>3, <1>4, UpTo
<1>6. PICK q : grew(q, f[turns(size)], s, long(turns(size)))
  BY <1>1, <1>5
<1>7. long(turns(size)) = size
  BY <1>0 DEF turns, z
<1> QED
  BY <1>1, <1>6, <1>7 DEF s

LEMMA FileTypes ==
    ASSUME TypeInv
    PROVE  /\ table \in Tables /\ entry \in DirEntries /\ entry.size \in 0 .. MaxSize
           /\ op \in [Threads -> Calls] /\ Kinds
<1>1. /\ table \in Tables /\ entry \in DirEntries
      /\ op \in [Threads -> Calls] /\ Kinds
  BY TypeFacts
<1> QED
  BY <1>1 DEF DirEntries

LEMMA InitChain == Init => ChainInv
<1> SUFFICES ASSUME Init PROVE ChainInv
  OBVIOUS
<1>0. Size \in Nat /\ Size > 2 /\ MaxSize \in Nat /\ InitialSize \in 0 .. MaxSize
      /\ MaxSize + 3 <= Size
  BY FatAssumption, CacheAssumption
<1> DEFINE s == [i \in 1 .. InitialSize |-> i + 2]
<1>1. table \in Tables
  BY InitType DEF TypeInv, TypeOK
<1>2. \A i \in 1 .. InitialSize : i + 2 \in Data
  BY <1>0 DEF Data, Clusters
<1>3. s \in Seq(Data) /\ Len(s) = InitialSize
  <2>1. s \in [1 .. InitialSize -> Data]
    BY <1>2
  <2> QED
    BY <1>0, <2>1, SeqDef, LenProperties
<1>4. \A i \in 1 .. InitialSize : s[i] = i + 2
  OBVIOUS
<1> HIDE DEF s
<1> DEFINE n == Len(s)
<1>n. n = InitialSize
  BY <1>3
<1> HIDE DEF n
<1>5. distinct(s)
  BY <1>0, <1>4, <1>n DEF distinct, n
<1>6. \A c \in Entries : table[c] = IF c = 0 THEN Media ELSE IF c <= 2 THEN EOC
                         ELSE IF c < InitialSize + 2 THEN c + 1
                         ELSE IF c = InitialSize + 2 THEN EOC ELSE 0
  BY DEF Init
<1>7. table[2] # 0
  BY <1>0, <1>6 DEF Entries, EOC
<1>8. ASSUME NEW c \in Data PROVE table[c] = 0 <=> \A i \in 1 .. n : s[i] # c
  <2>1. c \in Entries /\ c \in Nat /\ c > 2
    BY <1>0 DEF Data, Clusters, Entries
  <2>2. table[c] = 0 <=> c > InitialSize + 2
    BY <1>0, <1>6, <2>1 DEF EOC
  <2>3. c <= InitialSize + 2 => c - 2 \in 1 .. n /\ (c - 2) + 2 = c
    BY <1>0, <1>n, <2>1
  <2>4. \A i \in 1 .. n : i + 2 <= InitialSize + 2
    BY <1>0, <1>n
  <2> QED
    BY <1>0, <1>4, <1>n, <2>1, <2>2, <2>3, <2>4
<1>9. n # 0 => entry.first = s[1] /\ isChain(s, table)
  <2> SUFFICES ASSUME n # 0 PROVE entry.first = s[1] /\ isChain(s, table)
    OBVIOUS
  <2>1. entry.first = 3 /\ 1 \in 1 .. n /\ n \in 1 .. n /\ n \in 1 .. Size
    BY <1>0, <1>n DEF Init
  <2>2. ASSUME NEW i \in 1 .. n - 1 PROVE table[s[i]] = s[i + 1]
    <3>1. i \in 1 .. n /\ i + 1 \in 1 .. n /\ i + 2 \in Entries /\ i + 2 > 2
          /\ i + 2 < InitialSize + 2
      BY <1>0, <1>n DEF Entries
    <3> QED
      BY <1>4, <1>6, <1>n, <3>1
  <2>3. isEOC(table[s[n]])
    <3>1. InitialSize + 2 \in Entries /\ InitialSize + 2 > 2
          /\ ~ (InitialSize + 2 < InitialSize + 2)
      BY <1>0, <1>n, <2>1 DEF Entries
    <3> QED
      BY <1>0, <1>4, <1>6, <1>n, <2>1, <3>1 DEF isEOC
  <2>4. s \in Seq(Clusters)
    <3>1. s \in [1 .. InitialSize -> Clusters]
      BY <1>2 DEF s, Data
    <3> QED
      BY <1>0, <3>1, SeqDef
  <2>5. Len(s) \in 1 .. Size /\ (\A i \in 1 .. Len(s) - 1 : table[s[i]] = s[i + 1])
        /\ isEOC(table[s[Len(s)]])
    BY <2>1, <2>2, <2>3 DEF n
  <2>6. isChain(s, table)
    BY <2>4, <2>5 DEF isChain
  <2>7. s[1] = 3
    BY <1>4, <1>n, <2>1
  <2> QED
    BY <2>1, <2>6, <2>7
<1>10. n = 0 => entry.first = 0
  BY <1>n DEF Init
<1>11. fileChain(s, table, entry.first)
  BY <1>1, <1>3, <1>5, <1>7, <1>8, <1>9, <1>10 DEF fileChain, n
<1>12. chain = s
  BY <1>11, LinkedOfFile DEF chain
<1> QED
  BY <1>3, <1>11, <1>12 DEF ChainInv, Init

\* The file after a truncate: as long as asked for, with the clusters it had as
\* far as it had that many; a cluster taken for it was free and is clear.
LEMMA TruncatedFile ==
    ASSUME TypeInv, ChainInv, NEW size \in 0 .. MaxSize, fat32_truncate(size)
    PROVE  /\ ChainInv' /\ entry'.size = size
           /\ \A i \in 1 .. size : i <= entry.size => chain'[i] = chain[i]
           /\ \A i \in 1 .. size : i > entry.size => chain'[i] \in added(resized(size).tab)
           /\ \A i \in 1 .. entry.size : chain[i] \notin added(resized(size).tab)
<1>1. PICK q : grew(q, resized(size), chain, size)
  BY FileTypes, ResizedChain
<1>2. table' = resized(size).tab /\ entry'.first = resized(size).first /\ entry'.size = size
  BY DEF fat32_truncate
<1>3. fileChain(q, table', entry'.first) /\ Len(q) = size
  BY <1>1, <1>2 DEF grew
<1>4. chain' = q
  BY <1>3, LinkedOfFile DEF chain
<1>5. fileChain(chain, table, entry.first) /\ Len(chain) = entry.size
  BY DEF ChainInv
<1>6. \A i \in 1 .. size : i <= entry.size => q[i] = chain[i]
  BY <1>1, <1>5 DEF grew
<1>7. ASSUME NEW i \in 1 .. size, i > entry.size
      PROVE  q[i] \in Clusters /\ table[q[i]] = 0 /\ table'[q[i]] # 0
  <2>1. i \in 1 .. Len(q) /\ q[i] \in Data
    BY <1>3 DEF fileChain
  <2>2. table'[q[i]] # 0
    BY <1>3, <2>1 DEF fileChain
  <2>3. ASSUME NEW j \in 1 .. entry.size, chain[j] = q[i] PROVE FALSE
    <3> DEFINE z == entry.size
    <3>0. z \in Nat /\ j \in 1 .. z /\ i > z /\ size \in Nat
      BY <1>7, FileTypes, CacheAssumption
    <3> HIDE DEF z
    <3>1. j \in 1 .. size /\ j <= z /\ j # i
      BY <3>0
    <3>2. q[j] = q[i]
      BY <1>6, <2>3, <3>1 DEF z
    <3> QED
      BY <1>3, <3>1, <3>2 DEF fileChain, distinct
  <2>4. table[q[i]] = 0
    BY <1>5, <2>1, <2>3 DEF fileChain
  <2> QED
    BY <2>1, <2>2, <2>4 DEF Data
<1>8. ASSUME NEW i \in 1 .. entry.size PROVE table[chain[i]] # 0
  <2>1. i \in 1 .. Len(chain) /\ chain[i] \in Data
    BY <1>5 DEF fileChain
  <2> QED
    BY <1>5, <2>1 DEF fileChain
<1> QED
  BY <1>2, <1>3, <1>4, <1>6, <1>7, <1>8 DEF ChainInv, added

LEMMA ChainFrame ==
    ASSUME UNCHANGED <<table, entry>>
    PROVE  chain' = chain /\ (ChainInv => ChainInv')
<1>1. chain' = chain
  BY DEF chain
<1> QED
  BY <1>1 DEF ChainInv

LEMMA RecreateChain == ASSUME TypeInv, ChainInv, Recreate PROVE ChainInv'
<1>1. /\ table' = [c \in Entries |-> IF \E k \in DOMAIN chain : chain[k] = c THEN 0 ELSE table[c]]
      /\ entry' = [first |-> 0, size |-> 0]
  BY DEF Recreate
<1>2. fileChain(chain, table, entry.first)
  BY DEF ChainInv
<1> DEFINE s == chain
<1>3. s \in Seq(Data) /\ DOMAIN s = 1 .. Len(s) /\ table[2] # 0
      /\ \A i \in 1 .. Len(s) : s[i] \in Data
  BY <1>2, LenProperties DEF fileChain
<1>4. Data \subseteq Entries /\ 2 \in Entries /\ 2 \notin Data /\ 0 \in 0 .. Size + 1
  BY FatAssumption DEF Data, Clusters, Entries
<1>5. table' \in Tables
  BY RecreateType DEF TypeInv, TypeOK
<1>6. \A c \in Data : table'[c] = 0
  BY <1>1, <1>2, <1>3, <1>4 DEF fileChain
<1>7. table'[2] # 0
  BY <1>1, <1>3, <1>4
<1>8. fileChain(<<>>, table', entry'.first)
  BY <1>1, <1>5, <1>6, <1>7 DEF fileChain, distinct
<1>9. chain' = <<>>
  BY <1>8, LinkedOfFile DEF chain
<1> QED
  BY <1>1, <1>8, <1>9 DEF ChainInv

\* A write that goes beyond the file asks for a size the file can have.
LEMMA WriteSize ==
    ASSUME TypeInv, NEW t \in Threads, pc[t] = "write"
    PROVE  op[t].kind = "write" /\ op[t].offset + 1 \in 0 .. MaxSize
<1>1. op[t].kind = "write" /\ op[t].offset < MaxSize
  BY FileTypes DEF Kinds, fits
<1>2. op[t].offset \in 0 .. MaxSize
  BY FileTypes DEF Calls
<1> QED
  BY <1>1, <1>2, CacheAssumption

LEMMA NextChain == TypeInv /\ ChainInv /\ [Next]_vars => ChainInv'
<1> SUFFICES ASSUME TypeInv, ChainInv, [Next]_vars PROVE ChainInv'
  OBVIOUS
<1>1. ASSUME NEW t \in Threads, Truncate(t) PROVE ChainInv'
  <2>1. op[t].offset \in 0 .. MaxSize /\ fat32_truncate(op[t].offset)
    BY <1>1, FileTypes DEF Calls, Truncate
  <2> QED
    BY <2>1, TruncatedFile
<1>2. ASSUME NEW t \in Threads, WriteLock(t) PROVE ChainInv'
  <2>1. CASE fat32_truncate(op[t].offset + 1)
    <3>1. op[t].offset + 1 \in 0 .. MaxSize
      BY <1>2, WriteSize DEF WriteLock, at
    <3> QED
      BY <2>1, <3>1, TruncatedFile
  <2>2. CASE UNCHANGED fileVars
    BY <2>2, ChainFrame DEF fileVars
  <2> QED
    BY <1>2, <2>1, <2>2 DEF WriteLock
<1>3. ASSUME NEW t \in Threads,
             Open(t) \/ GetEntry(t) \/ AddRecord(t) \/ BeginTruncatePath(t) \/ Begin(t)
             \/ ReadLookup(t) \/ WriteLookup(t) \/ WriteCopy(t) \/ Fetch(t)
      PROVE  ChainInv'
  <2>1. UNCHANGED <<table, entry>>
    BY <1>3 DEF Open, GetEntry, AddRecord, BeginTruncatePath, Begin, ReadLookup, WriteLookup,
       WriteCopy, Fetch, fileVars
  <2> QED
    BY <2>1, ChainFrame
<1>4. ASSUME NEW t \in Threads,
             Keep(t) \/ PutOut(t) \/ Unlock(t) \/ FlushTake(t) \/ FlushWrite(t)
             \/ FlushEnd(t) \/ Release(t) \/ Overlap(t) \/ Die(t)
      PROVE  ChainInv'
  <2>1. UNCHANGED <<table, entry>>
    BY <1>4 DEF Keep, PutOut, Unlock, FlushTake, FlushWrite, FlushEnd, Release, Overlap, Die,
       fileVars
  <2> QED
    BY <2>1, ChainFrame
<1>5. CASE Recreate
  BY <1>5, RecreateChain
<1>6. CASE Tick \/ UNCHANGED vars
  BY <1>6, ChainFrame DEF Tick, vars, fileVars
<1> QED
  BY <1>1, <1>2, <1>3, <1>4, <1>5, <1>6 DEF Next

-----------------------------------------------------------------------------
(* What a thread has in its hands.                                         *)

\* One write or truncate at a time.
Alone ==
    \A t, u \in Threads :
        op[t].kind \in {"write", "truncate"} /\ op[u].kind \in {"write", "truncate"} => t = u

\* At most one block is on its way to the device with a thread, from the cache,
\* and only while the thread is at the place that writes it; the content a write
\* brings to the cache is what its user gave.
hands(t) ==
    /\ \/ out(t) = <<>>
       \/ /\ \E b \in Blocks : out(t) = <<b>>
          /\ pc[t] \in flushing \cup {"putOut"} /\ max_blocks # 0
    /\ pc[t] = "keep" /\ op[t].kind = "write" => reg[t].data = op[t].value

HandsInv == Alone /\ \A t \in Threads : hands(t)

LEMMA InitHands == Init => HandsInv
<1> SUFFICES ASSUME Init PROVE HandsInv
  OBVIOUS
<1>1. ASSUME NEW t \in Threads
      PROVE  op[t].kind = "none" /\ reg[t].out = <<>> /\ pc[t] = "closed"
  BY DEF Init, NoCall, Call, NoReg
<1> QED
  BY <1>1 DEF HandsInv, Alone, hands, out

\* The other threads keep what they have, and the one that moves is in no call
\* or in the one it was in.
LEMMA HandsStep ==
    ASSUME TypeInv, HandsInv, NEW t \in Threads, max_blocks' = max_blocks,
           \A u \in Threads : u # t =>
               /\ pc'[u] = pc[u] /\ op'[u] = op[u]
               /\ reg'[u].out = reg[u].out /\ reg'[u].data = reg[u].data,
           op'[t] = op[t] \/ op'[t] = NoCall,
           hands(t)'
    PROVE  HandsInv'
<1>1. Alone'
  <2>1. NoCall.kind = "none"
    BY DEF NoCall, Call
  <2>2. \A u \in Threads : op'[u] = op[u] \/ op'[u].kind = "none"
    BY <2>1
  <2> QED
    BY <2>2 DEF HandsInv, Alone
<1>2. ASSUME NEW u \in Threads, u # t PROVE hands(u)'
  BY <1>2 DEF HandsInv, hands, out, flushing
<1> QED
  BY <1>1, <1>2 DEF HandsInv

\* goto moves one thread.
LEMMA GotoFacts ==
    ASSUME TypeInv, NEW t \in Threads, NEW place, goto(t, place)
    PROVE  /\ pc'[t] = place /\ (op'[t] = op[t] \/ op'[t] = NoCall)
           /\ place \notin {"open", "closed"} => op'[t] = op[t]
           /\ \A u \in Threads : u # t => pc'[u] = pc[u] /\ op'[u] = op[u]
  BY TypeFacts DEF goto

\* A thread with nothing in its hands goes to a place where it needs nothing.
LEMMA EmptyHands ==
    ASSUME TypeInv, HandsInv, NEW t \in Threads, NEW place, goto(t, place),
           place \notin {"copy", "keep"}, max_blocks' = max_blocks,
           \A u \in Threads : u # t => reg'[u] = reg[u],
           reg'[t].out = <<>>
    PROVE  HandsInv'
<1>1. pc'[t] = place
  BY GotoFacts
<1>2. hands(t)'
  BY <1>1 DEF hands, out
<1> QED
  BY <1>2, GotoFacts, HandsStep

LEMMA NoOut ==
    ASSUME HandsInv, NEW t \in Threads, pc[t] \notin flushing \cup {"putOut"}
    PROVE  reg[t].out = <<>>
  BY DEF HandsInv, hands, out

LEMMA NothingOut == NoReg.out = <<>>
  BY DEF NoReg

\* A thread with nothing in its hands starts a call.
LEMMA CallHands ==
    ASSUME TypeInv, HandsInv, NEW t \in Threads, pc[t] \in {"open", "closed"},
           NEW call, op' = [op EXCEPT ![t] = call],
           call.kind \in {"write", "truncate"} => alone,
           NEW place, pc' = [pc EXCEPT ![t] = place], place \notin {"copy", "keep"},
           max_blocks' = max_blocks, \A u \in Threads : reg'[u].out = reg[u].out,
           \A u \in Threads : u # t => reg'[u].data = reg[u].data
    PROVE  HandsInv'
<1>1. op'[t] = call /\ pc'[t] = place
      /\ \A u \in Threads : u # t => op'[u] = op[u] /\ pc'[u] = pc[u]
  BY TypeFacts
<1>2. Alone'
  BY <1>1 DEF HandsInv, Alone, alone
<1>3. reg[t].out = <<>>
  BY NoOut DEF flushing
<1>4. ASSUME NEW u \in Threads PROVE hands(u)'
  <2>1. CASE u = t
    BY <1>1, <1>3, <2>1 DEF hands, out
  <2>2. CASE u # t
    BY <1>1, <2>2 DEF HandsInv, hands, out, flushing
  <2> QED
    BY <2>1, <2>2
<1> QED
  BY <1>2, <1>4 DEF HandsInv

LEMMA BeginHands == ASSUME TypeInv, HandsInv, NEW t \in Threads, Begin(t) PROVE HandsInv'
<1>1. PICK kind \in {"read", "write", "truncate", "close"}, k \in 0 .. MaxSize,
           v \in Values \cup {0} :
          /\ kind \in {"write", "truncate"} => alone
          /\ op' = [op EXCEPT ![t] = Call(kind, k, v)]
          /\ pc' = [pc EXCEPT ![t] = IF kind = "close" THEN "flush" ELSE kind]
  BY DEF Begin
<1>2. UNCHANGED <<max_blocks, reg>> /\ pc[t] = "open"
  BY DEF Begin, at
<1>3. Call(kind, k, v).kind = kind
  BY DEF Call
<1> DEFINE place == IF kind = "close" THEN "flush" ELSE kind
<1>4. place \notin {"copy", "keep"} /\ pc' = [pc EXCEPT ![t] = place]
  BY <1>1
<1> HIDE DEF place
<1> QED
  BY <1>1, <1>2, <1>3, <1>4, CallHands

LEMMA GetEntryHands ==
    ASSUME TypeInv, HandsInv, NEW t \in Threads, GetEntry(t)
    PROVE  HandsInv'
<1>1. PICK kind \in {"open", "truncate"}, k \in 0 .. MaxSize :
          /\ kind = "truncate" => alone
          /\ op' = [op EXCEPT ![t] = Call(kind, k, 0)]
  BY DEF GetEntry
<1>2. /\ pc[t] = "closed" /\ pc' = [pc EXCEPT ![t] = "addRecord"] /\ UNCHANGED max_blocks
      /\ reg' = [reg EXCEPT ![t].entry = entry]
  BY DEF GetEntry, at
<1>3. (\A u \in Threads : reg'[u].out = reg[u].out)
      /\ \A u \in Threads : u # t => reg'[u].data = reg[u].data
  BY <1>2, TypeFacts DEF Regs
<1>4. Call(kind, k, 0).kind = kind
  BY DEF Call
<1> QED
  BY <1>1, <1>2, <1>3, <1>4, CallHands

LEMMA TruncatePathHands ==
    ASSUME TypeInv, HandsInv, NEW t \in Threads, BeginTruncatePath(t)
    PROVE  HandsInv'
<1>1. PICK k \in 0 .. MaxSize : op' = [op EXCEPT ![t] = Call("truncate", k, 0)]
  BY DEF BeginTruncatePath
<1>2. /\ pc[t] = "closed" /\ alone /\ pc' = [pc EXCEPT ![t] = "truncatePath"]
      /\ UNCHANGED <<max_blocks, reg>>
  BY DEF BeginTruncatePath, at
<1> QED
  BY <1>1, <1>2, CallHands

LEMMA LookupHands ==
    ASSUME TypeInv, HandsInv, NEW t \in Threads, WriteLookup(t)
    PROVE  HandsInv'
<1>1. /\ pc[t] = "writeLookup" /\ UNCHANGED max_blocks
      /\ \E place \in {"fetch", "copy"} : goto(t, place)
      /\ reg' = reg \/ \E c, k : reg' = [reg EXCEPT ![t].cluster = c, ![t].index = k]
  BY DEF WriteLookup, Lookup, at
<1>2. reg[t] \in Regs /\ reg[t].out = <<>>
  BY <1>1, NoOut, TypeFacts DEF flushing
<1>3. reg'[t].out = <<>> /\ \A u \in Threads : u # t => reg'[u] = reg[u]
  <2>1. CASE reg' = reg
    BY <1>2, <2>1
  <2>2. CASE reg' # reg
    <3>1. PICK c, k : reg' = [reg EXCEPT ![t].cluster = c, ![t].index = k]
      BY <1>1, <2>2
    <3> QED
      BY <1>2, <3>1, TypeFacts DEF Regs
  <2> QED
    BY <2>1, <2>2
<1>4. pc'[t] \in {"fetch", "copy"} /\ (op'[t] = op[t] \/ op'[t] = NoCall)
      /\ \A u \in Threads : u # t => pc'[u] = pc[u] /\ op'[u] = op[u]
  BY <1>1, GotoFacts
<1>5. hands(t)'
  BY <1>3, <1>4 DEF hands, out
<1> QED
  BY <1>1, <1>3, <1>4, <1>5, HandsStep

LEMMA FetchHands == ASSUME TypeInv, HandsInv, NEW t \in Threads, Fetch(t) PROVE HandsInv'
<1> DEFINE d == IF op[t].kind = "write" THEN op[t].value ELSE disk[reg[t].cluster]
<1>1. /\ pc[t] = "fetch" /\ goto(t, "keep") /\ UNCHANGED max_blocks
      /\ reg' = [reg EXCEPT ![t].data = d]
  BY DEF Fetch, at
<1>2. op[t].kind = "write" => d = op[t].value
  OBVIOUS
<1> HIDE DEF d
<1>3. reg'[t].out = <<>> /\ reg'[t].data = d /\ \A u \in Threads : u # t => reg'[u] = reg[u]
  <2>1. reg[t] \in Regs /\ reg[t].out = <<>>
    BY <1>1, NoOut, TypeFacts DEF flushing
  <2> QED
    BY <1>1, <2>1, TypeFacts DEF Regs
<1>4. pc'[t] = "keep" /\ op'[t] = op[t]
  BY <1>1, GotoFacts
<1>5. hands(t)'
  BY <1>2, <1>3, <1>4 DEF hands, out
<1> QED
  BY <1>1, <1>3, <1>5, GotoFacts, HandsStep

LEMMA KeepHands ==
    ASSUME TypeInv, HandsInv, NEW t \in Threads, Keep(t)
    PROVE  HandsInv'
<1> DEFINE victim == CHOOSE i \in CACHE_getLRU : TRUE
           replaced == cached(reg[t].cluster) = {} /\ Len(cache) = max_blocks
           q == IF replaced /\ cache[victim].modified THEN <<cache[victim]>> ELSE <<>>
<1>1. /\ pc[t] = "keep" /\ goto(t, "putOut") /\ UNCHANGED max_blocks
      /\ ~noVictim(t) /\ CACHE_write_block(t)
  BY DEF Keep, at
<1>2. pc'[t] = "putOut"
  BY <1>1, GotoFacts
<1>3. CASE max_blocks = 0
  <2>1. reg' = reg
    BY <1>1, <1>3 DEF CACHE_write_block
  <2>2. reg'[t].out = <<>>
    BY <1>1, <2>1, NoOut DEF flushing
  <2> QED
    BY <1>1, <2>1, <2>2, EmptyHands
<1>4. CASE max_blocks # 0
  <2>1. reg' = [reg EXCEPT ![t].out = q]
    BY <1>1, <1>4 DEF CACHE_write_block
  <2>2. q = <<>> \/ \E b \in Blocks : q = <<b>>
    <3>1. CASE replaced
      <4>1. victim \in DOMAIN cache
        BY <1>1, <1>4, <3>1, VictimIsBlock
      <4> HIDE DEF victim, replaced, Blocks
      <4>2. cache[victim] \in Blocks
        BY <4>1, TypeFacts, LenProperties, ElementOfSeq
      <4> QED
        BY <4>2
    <3>2. CASE ~ replaced
      BY <3>2
    <3> QED
      BY <3>1, <3>2
  <2> HIDE DEF q
  <2>3. reg'[t].out = q /\ \A u \in Threads : u # t => reg'[u] = reg[u]
    BY <2>1, TypeFacts DEF Regs
  <2>4. hands(t)'
    BY <1>1, <1>2, <1>4, <2>2, <2>3 DEF hands, out
  <2> QED
    BY <1>1, <2>3, <2>4, GotoFacts, HandsStep
<1> QED
  BY <1>3, <1>4

LEMMA FlushTakeHands ==
    ASSUME TypeInv, CacheInv, HandsInv, NEW t \in Threads, FlushTake(t)
    PROVE  HandsInv'
<1> DEFINE q == IF Head(cache).modified THEN <<Head(cache)>> ELSE <<>>
<1>1. /\ pc[t] \in flushing /\ cache # <<>> /\ UNCHANGED <<max_blocks, pc, op>>
      /\ reg' = [u \in Threads |->
                    IF u = t THEN [reg[t] EXCEPT !.out = q]
                    ELSE [reg[u] EXCEPT !.index = IF @ > 0 THEN @ - 1 ELSE 0]]
  BY DEF FlushTake
<1>2. cache \in Seq(Blocks)
  BY TypeFacts
<1>3. Head(cache) \in Blocks
  BY <1>1, <1>2, HeadTailProperties
<1>4. max_blocks # 0
  BY <1>1, <1>2, EmptySeq DEF CacheInv
<1>5. q = <<>> \/ \E b \in Blocks : q = <<b>>
  <2> HIDE DEF Blocks
  <2> QED
    BY <1>3
<1> HIDE DEF q
<1>6. reg'[t].out = q
      /\ \A u \in Threads : u # t => reg'[u].out = reg[u].out /\ reg'[u].data = reg[u].data
  BY <1>1, TypeFacts DEF Regs
<1>7. hands(t)'
  BY <1>1, <1>4, <1>5, <1>6 DEF hands, out, flushing
<1> QED
  BY <1>1, <1>6, <1>7, HandsStep

LEMMA OverlapHands ==
    ASSUME TypeInv, HandsInv, NEW t \in Threads, Overlap(t)
    PROVE  HandsInv'
<1>1. /\ pc[t] \in {"keep", "copy"} /\ max_blocks # 0 /\ UNCHANGED max_blocks
      /\ goto(t, IF pc[t] = "keep" THEN "putOut" ELSE "unlock")
  BY DEF Overlap, overlaps, onList
<1>2. reg[t].out = <<>>
  BY <1>1, NoOut DEF flushing
<1>3. \/ \E n : reg' = [u \in Threads |->
                          IF u # t /\ reg[u].index > n THEN [reg[u] EXCEPT !.index = 0]
                          ELSE reg[u]]
      \/ reg' = reg
      \/ pc[t] = "keep" /\ \E i \in DOMAIN cache : reg' = [reg EXCEPT ![t].out = <<cache[i]>>]
  BY DEF Overlap
<1>4. \A i \in DOMAIN cache : cache[i] \in Blocks
  BY TypeFacts, LenProperties, ElementOfSeq
<1>5. \/ reg'[t].out = <<>>
      \/ pc[t] = "keep" /\ \E b \in Blocks : reg'[t].out = <<b>>
  <2> HIDE DEF Blocks
  <2>1. CASE \E n : reg' = [u \in Threads |->
                          IF u # t /\ reg[u].index > n THEN [reg[u] EXCEPT !.index = 0]
                          ELSE reg[u]]
    BY <1>2, <2>1
  <2>2. CASE reg' = reg
    BY <1>2, <2>2
  <2>3. CASE pc[t] = "keep" /\ \E i \in DOMAIN cache : reg' = [reg EXCEPT ![t].out = <<cache[i]>>]
    <3>1. PICK i \in DOMAIN cache : reg' = [reg EXCEPT ![t].out = <<cache[i]>>]
      BY <2>3
    <3>2. reg'[t].out = <<cache[i]>>
      BY <3>1, TypeFacts DEF Regs
    <3> QED
      BY <1>4, <2>3, <3>2
  <2> QED
    BY <1>3, <2>1, <2>2, <2>3
<1>6. \A u \in Threads : u # t => reg'[u].out = reg[u].out /\ reg'[u].data = reg[u].data
  BY <1>3, TypeFacts DEF Regs
<1>7. pc'[t] = IF pc[t] = "keep" THEN "putOut" ELSE "unlock"
  BY <1>1, GotoFacts
<1>8. hands(t)'
  BY <1>1, <1>5, <1>7 DEF hands, out
<1> QED
  BY <1>1, <1>6, <1>8, GotoFacts, HandsStep

LEMMA NextHands == TypeInv /\ CacheInv /\ HandsInv /\ [Next]_vars => HandsInv'
<1> SUFFICES ASSUME TypeInv, CacheInv, HandsInv, [Next]_vars PROVE HandsInv'
  OBVIOUS
<1>1. ASSUME NEW t \in Threads,
             Open(t) \/ Truncate(t) \/ WriteLock(t) \/ WriteCopy(t) \/ Release(t) \/ FlushEnd(t)
      PROVE  HandsInv'
  <2>1. reg[t].out = <<>>
    <3>1. CASE FlushEnd(t)
      BY <3>1 DEF FlushEnd, out
    <3>2. CASE Open(t) \/ Truncate(t) \/ WriteLock(t) \/ WriteCopy(t) \/ Release(t)
      BY <3>2, NoOut DEF Open, Truncate, WriteLock, WriteCopy, Release, at, flushing
    <3> QED
      BY <1>1, <3>1, <3>2
  <2>2. UNCHANGED <<max_blocks, reg>>
    BY <1>1 DEF Open, Truncate, WriteLock, WriteCopy, Release, FlushEnd
  <2>3. \E place : goto(t, place) /\ place \notin {"copy", "keep"}
    BY <1>1 DEF Open, Truncate, WriteLock, WriteCopy, Release, FlushEnd
  <2> QED
    BY <2>1, <2>2, <2>3, EmptyHands
<1>2. ASSUME NEW t \in Threads, ReadLookup(t) PROVE HandsInv'
  <2>1. pc[t] = "read" /\ UNCHANGED max_blocks
    BY <1>2 DEF ReadLookup, at
  <2>2. PICK place \in {"open", "fetch"} : goto(t, place)
    BY <1>2 DEF ReadLookup
  <2>3. reg[t].out = <<>> /\ reg[t] \in Regs
    BY <2>1, NoOut, TypeFacts DEF flushing
  <2>4. reg'[t].out = <<>> /\ \A u \in Threads : u # t => reg'[u] = reg[u]
    <3>1. CASE reg' = reg
      BY <2>3, <3>1
    <3>2. CASE Lookup(t) /\ reg' # reg
      <4>1. PICK c, k : reg' = [reg EXCEPT ![t].cluster = c, ![t].index = k]
        BY <3>2 DEF Lookup
      <4> QED
        BY <2>3, <4>1, TypeFacts DEF Regs
    <3> QED
      BY <1>2, <3>1, <3>2 DEF ReadLookup
  <2> QED
    BY <2>1, <2>2, <2>4, EmptyHands
<1>3. ASSUME NEW t \in Threads, PutOut(t) \/ Unlock(t) \/ AddRecord(t) PROVE HandsInv'
  <2>1. reg' = [reg EXCEPT ![t] = NoReg] /\ UNCHANGED max_blocks
    BY <1>3 DEF PutOut, Unlock, AddRecord, putOut
  <2>2. reg'[t].out = <<>> /\ \A u \in Threads : u # t => reg'[u] = reg[u]
    BY <2>1, TypeFacts, NothingOut
  <2>3. \E place : goto(t, place) /\ place \notin {"copy", "keep"}
    BY <1>3 DEF PutOut, Unlock, AddRecord
  <2> QED
    BY <2>1, <2>2, <2>3, EmptyHands
<1>4. ASSUME NEW t \in Threads, FlushWrite(t) PROVE HandsInv'
  <2>1. /\ reg' = [reg EXCEPT ![t] = NoReg] /\ UNCHANGED <<max_blocks, pc, op>>
        /\ pc[t] \in flushing
    BY <1>4 DEF FlushWrite, putOut
  <2>2. reg'[t].out = <<>> /\ \A u \in Threads : u # t => reg'[u] = reg[u]
    BY <2>1, TypeFacts, NothingOut
  <2>3. hands(t)'
    BY <2>1, <2>2 DEF hands, out, flushing
  <2> QED
    BY <2>1, <2>2, <2>3, HandsStep
<1>5. ASSUME NEW t \in Threads, Die(t) PROVE HandsInv'
  BY <1>5 DEF Die, HandsInv, Alone, hands, out, flushing
<1>6. CASE Recreate \/ Tick \/ UNCHANGED vars
  BY <1>6 DEF Recreate, Tick, vars, HandsInv, Alone, hands, out, flushing
<1> QED
  BY <1>1, <1>2, <1>3, <1>4, <1>5, <1>6, BeginHands, GetEntryHands, TruncatePathHands,
     LookupHands, FetchHands, KeepHands, FlushTakeHands, OverlapHands DEF Next

-----------------------------------------------------------------------------
(* The block that a write has found.                                       *)

\* Whoever writes through the pointer of a block finds a block there, or knows
\* that it was freed.
FoundInv ==
    damage = {} => \A t \in Threads : pc[t] = "copy" => reg[t].index <= Len(cache)

\* The list does not get shorter; one thread goes where it has no block.
LEMMA StillFound ==
    ASSUME TypeInv, FoundInv, damage \subseteq damage', NEW t \in Threads,
           Len(cache') \in Nat, Len(cache) <= Len(cache'),
           \A u \in Threads : u # t => pc'[u] = pc[u] /\ reg'[u].index = reg[u].index,
           pc'[t] # "copy"
    PROVE  FoundInv'
<1> DEFINE n == Len(cache)
           m == Len(cache')
<1>1. n \in Nat /\ m \in Nat /\ n <= m
  BY TypeFacts, LenProperties
<1>2. \A u \in Threads : reg[u].index \in Nat
  BY TypeFacts DEF Regs
<1> HIDE DEF n, m
<1>3. ASSUME damage' = {}, NEW u \in Threads, pc'[u] = "copy" PROVE reg'[u].index <= m
  <2>1. damage = {} /\ u # t /\ reg'[u].index = reg[u].index /\ pc[u] = "copy"
    BY <1>3
  <2>2. reg[u].index <= n
    BY <2>1 DEF FoundInv, n
  <2> QED
    BY <1>1, <1>2, <2>1, <2>2
<1> QED
  BY <1>3 DEF FoundInv, m

\* As many blocks as before.
LEMMA SameLength ==
    ASSUME TypeInv, TypeInv', DOMAIN cache' = DOMAIN cache
    PROVE  Len(cache') = Len(cache) /\ Len(cache) \in Nat
<1> DEFINE n == Len(cache)
           m == Len(cache')
<1>1. n \in Nat /\ m \in Nat /\ DOMAIN cache = 1 .. n /\ DOMAIN cache' = 1 .. m
  BY LenProperties DEF TypeInv, TypeOK
<1> HIDE DEF n, m
<1>2. 1 .. n = 1 .. m
  BY <1>1
<1>3. n = m
  BY <1>1, <1>2
<1> QED
  BY <1>1, <1>3 DEF n, m

LEMMA QuietFound ==
    ASSUME TypeInv, FoundInv, damage \subseteq damage', NEW t \in Threads, UNCHANGED cache,
           \A u \in Threads : u # t => pc'[u] = pc[u] /\ reg'[u].index = reg[u].index,
           pc'[t] # "copy"
    PROVE  FoundInv'
<1>1. Len(cache) \in Nat
  BY TypeFacts, LenProperties
<1>2. Len(cache') \in Nat /\ Len(cache) <= Len(cache')
  BY <1>1
<1> QED
  BY <1>2, StillFound

LEMMA WriteLookupFound ==
    ASSUME TypeInv, TypeInv', FoundInv, NEW t \in Threads, WriteLookup(t)
    PROVE  FoundInv'
<1> DEFINE c == clusterAt(op[t].offset)
           k == IF cached(c) = {} THEN 0 ELSE CHOOSE i \in cached(c) : TRUE
           place == IF cached(c) = {} THEN "fetch" ELSE "copy"
<1>1. /\ pc[t] = "writeLookup" /\ goto(t, place) /\ damage \subseteq damage'
      /\ cache' = [i \in DOMAIN cache |-> IF i \in cached(c) THEN fresh(cache[i]) ELSE cache[i]]
      /\ reg' = IF op[t].kind = "read" /\ cached(c) # {} THEN reg
                ELSE [reg EXCEPT ![t].cluster = c, ![t].index = k]
  BY DEF WriteLookup, Lookup, at, because
<1>2. op[t].kind = "write"
  BY <1>1, TypeFacts DEF Kinds, fits
<1>3. Len(cache') = Len(cache) /\ Len(cache) \in Nat
  <2>1. DOMAIN cache' = DOMAIN cache
    BY <1>1
  <2> QED
    BY <2>1, SameLength
<1>4. k \in Nat /\ k <= Len(cache)
  <2> DEFINE n == Len(cache)
  <2>1. n \in Nat /\ DOMAIN cache = 1 .. n
    BY TypeFacts, LenProperties
  <2>2. cached(c) \subseteq DOMAIN cache
    BY DEF cached
  <2> HIDE DEF n, c
  <2>3. k = 0 \/ k \in 1 .. n
    BY <2>1, <2>2
  <2> HIDE DEF k
  <2>4. k \in Nat /\ k <= n
    BY <2>1, <2>3
  <2> QED
    BY <2>4 DEF n
<1> HIDE DEF c, k, place
<1>5. reg'[t].index = k /\ \A u \in Threads : u # t => reg'[u] = reg[u]
  <2>1. reg' = [reg EXCEPT ![t].cluster = c, ![t].index = k]
    BY <1>1, <1>2
  <2> QED
    BY <2>1, TypeFacts DEF Regs
<1>6. \A u \in Threads : u # t => pc'[u] = pc[u]
  BY <1>1, GotoFacts
<1>7. ASSUME damage' = {}, NEW u \in Threads, pc'[u] = "copy" PROVE reg'[u].index <= Len(cache')
  <2>1. CASE u = t
    BY <1>3, <1>4, <1>5, <2>1
  <2>2. CASE u # t
    BY <1>1, <1>3, <1>5, <1>6, <1>7, <2>2 DEF FoundInv
  <2> QED
    BY <2>1, <2>2
<1> QED
  BY <1>7 DEF FoundInv

LEMMA KeepFound ==
    ASSUME TypeInv, TypeInv', FoundInv, NEW t \in Threads, Keep(t), damage \subseteq damage'
    PROVE  FoundInv'
<1>1. goto(t, "putOut") /\ CACHE_write_block(t)
  BY DEF Keep
<1>2. pc'[t] = "putOut" /\ \A u \in Threads : u # t => pc'[u] = pc[u]
  BY <1>1, GotoFacts
<1>3. \A u \in Threads : u # t => reg'[u].index = reg[u].index
  <2>1. reg' = reg \/ \E q : reg' = [reg EXCEPT ![t].out = q]
    BY <1>1 DEF CACHE_write_block
  <2> QED
    BY <2>1, TypeFacts DEF Regs
<1>4. \/ DOMAIN cache' = DOMAIN cache
      \/ cache' = Append(cache, block(reg[t].cluster, reg[t].data, FALSE))
  BY <1>1 DEF CACHE_write_block
<1>5. Len(cache') \in Nat /\ Len(cache) <= Len(cache')
  <2>1. CASE DOMAIN cache' = DOMAIN cache
    <3>1. Len(cache') = Len(cache) /\ Len(cache) \in Nat
      BY <2>1, SameLength
    <3> QED
      BY <3>1
  <2>2. CASE cache' = Append(cache, block(reg[t].cluster, reg[t].data, FALSE))
    <3> DEFINE b == block(reg[t].cluster, reg[t].data, FALSE)
    <3>1. b \in Blocks /\ cache \in Seq(Blocks)
      BY BlockType, TypeFacts DEF Regs
    <3> HIDE DEF b
    <3>2. Len(Append(cache, b)) = Len(cache) + 1 /\ Len(cache) \in Nat
      BY <3>1, AppendProperties, LenProperties
    <3> QED
      BY <2>2, <3>2 DEF b
  <2> QED
    BY <1>4, <2>1, <2>2
<1> QED
  BY <1>2, <1>3, <1>5, StillFound

LEMMA FlushTakeFound ==
    ASSUME TypeInv, FoundInv, NEW t \in Threads, FlushTake(t), damage \subseteq damage'
    PROVE  FoundInv'
<1> DEFINE n == Len(cache)
           m == Len(cache')
<1>1. /\ pc[t] \in flushing /\ cache # <<>> /\ cache' = Tail(cache) /\ UNCHANGED pc
      /\ \A u \in Threads : u # t =>
            reg'[u] = [reg[u] EXCEPT !.index = IF @ > 0 THEN @ - 1 ELSE 0]
  BY DEF FlushTake
<1>2. m = n - 1 /\ n \in Nat /\ n # 0
  BY <1>1, TypeFacts, HeadTailProperties, LenProperties, EmptySeq
<1> HIDE DEF n, m
<1>3. ASSUME damage' = {}, NEW u \in Threads, pc'[u] = "copy" PROVE reg'[u].index <= m
  <2>1. u # t /\ damage = {} /\ pc[u] = "copy"
    BY <1>1, <1>3 DEF flushing
  <2>2. reg[u].index <= n /\ reg[u].index \in Nat
    BY <2>1, TypeFacts DEF FoundInv, Regs, n
  <2>3. reg'[u].index = IF reg[u].index > 0 THEN reg[u].index - 1 ELSE 0
    BY <1>1, <2>1, TypeFacts DEF Regs
  <2> QED
    BY <1>2, <2>2, <2>3
<1> QED
  BY <1>3 DEF FoundInv, m

LEMMA NextFound == TypeInv /\ TypeInv' /\ FoundInv /\ [Next]_vars => FoundInv'
<1> SUFFICES ASSUME TypeInv, TypeInv', FoundInv, [Next]_vars PROVE FoundInv'
  OBVIOUS
<1>0. damage \subseteq damage'
  BY Damages
<1>1. ASSUME NEW t \in Threads,
             Open(t) \/ Truncate(t) \/ WriteLock(t) \/ FlushEnd(t) \/ Release(t)
      PROVE  FoundInv'
  <2>1. UNCHANGED <<cache, reg>> /\ \E place : goto(t, place) /\ place # "copy"
    BY <1>1 DEF Open, Truncate, WriteLock, FlushEnd, Release
  <2> QED
    BY <1>0, <2>1, GotoFacts, QuietFound
<1>2. ASSUME NEW t \in Threads, GetEntry(t) PROVE FoundInv'
  <2>1. UNCHANGED cache /\ pc' = [pc EXCEPT ![t] = "addRecord"]
        /\ reg' = [reg EXCEPT ![t].entry = entry]
    BY <1>2 DEF GetEntry
  <2>2. pc'[t] # "copy"
        /\ \A u \in Threads : u # t => pc'[u] = pc[u] /\ reg'[u].index = reg[u].index
    BY <2>1, TypeFacts
  <2> QED
    BY <1>0, <2>1, <2>2, QuietFound
<1>3. ASSUME NEW t \in Threads, BeginTruncatePath(t) \/ Begin(t) PROVE FoundInv'
  <2>1. UNCHANGED <<cache, reg>> /\ \E place : pc' = [pc EXCEPT ![t] = place] /\ place # "copy"
    BY <1>3 DEF BeginTruncatePath, Begin
  <2>2. pc'[t] # "copy" /\ \A u \in Threads : u # t => pc'[u] = pc[u]
    BY <2>1, TypeFacts
  <2> QED
    BY <1>0, <2>1, <2>2, QuietFound
<1>4. ASSUME NEW t \in Threads, AddRecord(t) \/ PutOut(t) \/ Unlock(t) PROVE FoundInv'
  <2>1. /\ UNCHANGED cache /\ reg' = [reg EXCEPT ![t] = NoReg]
        /\ \E place : goto(t, place) /\ place # "copy"
    BY <1>4 DEF AddRecord, PutOut, Unlock, putOut
  <2>2. \A u \in Threads : u # t => reg'[u] = reg[u]
    BY <2>1, TypeFacts
  <2> QED
    BY <1>0, <2>1, <2>2, GotoFacts, QuietFound
<1>5. ASSUME NEW t \in Threads, Fetch(t) PROVE FoundInv'
  <2>1. UNCHANGED cache /\ goto(t, "keep") /\ \E d : reg' = [reg EXCEPT ![t].data = d]
    BY <1>5 DEF Fetch
  <2>2. \A u \in Threads : u # t => reg'[u] = reg[u]
    BY <2>1, TypeFacts
  <2> QED
    BY <1>0, <2>1, <2>2, GotoFacts, QuietFound
<1>6. ASSUME NEW t \in Threads, ReadLookup(t) PROVE FoundInv'
  <2>1. DOMAIN cache' = DOMAIN cache /\ \E place : goto(t, place) /\ place # "copy"
    BY <1>6 DEF ReadLookup, Lookup
  <2>2. \A u \in Threads : u # t => reg'[u] = reg[u]
    <3>1. CASE Lookup(t) /\ reg' # reg
      <4>1. PICK c, k : reg' = [reg EXCEPT ![t].cluster = c, ![t].index = k]
        BY <3>1 DEF Lookup
      <4> QED
        BY <4>1, TypeFacts
    <3> QED
      BY <1>6, <3>1 DEF ReadLookup
  <2>3. Len(cache') = Len(cache) /\ Len(cache) \in Nat
    BY <2>1, SameLength
  <2>4. Len(cache') \in Nat /\ Len(cache) <= Len(cache')
    BY <2>3
  <2> QED
    BY <1>0, <2>1, <2>2, <2>4, GotoFacts, StillFound
<1>7. ASSUME NEW t \in Threads, WriteCopy(t) PROVE FoundInv'
  <2>1. DOMAIN cache' = DOMAIN cache /\ goto(t, "unlock") /\ UNCHANGED reg
    BY <1>7 DEF WriteCopy
  <2>2. Len(cache') = Len(cache) /\ Len(cache) \in Nat
    BY <2>1, SameLength
  <2>3. Len(cache') \in Nat /\ Len(cache) <= Len(cache')
    BY <2>2
  <2> QED
    BY <1>0, <2>1, <2>3, GotoFacts, StillFound
<1>8. ASSUME NEW t \in Threads, FlushWrite(t) PROVE FoundInv'
  <2>1. UNCHANGED <<cache, pc>> /\ pc[t] \in flushing /\ reg' = [reg EXCEPT ![t] = NoReg]
    BY <1>8 DEF FlushWrite, putOut
  <2>2. pc'[t] # "copy" /\ \A u \in Threads : u # t => reg'[u] = reg[u]
    BY <2>1, TypeFacts DEF flushing
  <2> QED
    BY <1>0, <2>1, <2>2, QuietFound
<1>9. ASSUME NEW t \in Threads, Overlap(t) PROVE FoundInv'
  BY <1>9 DEF Overlap, FoundInv
<1>10. ASSUME NEW t \in Threads, Die(t) PROVE FoundInv'
  BY <1>10 DEF Die, FoundInv
<1>11. CASE Recreate \/ UNCHANGED vars
  BY <1>0, <1>11 DEF Recreate, vars, FoundInv
<1>12. CASE Tick
  <2>1. DOMAIN cache' = DOMAIN cache /\ UNCHANGED <<pc, reg, damage>>
    BY <1>12 DEF Tick
  <2> QED
    BY <2>1, SameLength DEF FoundInv
<1> QED
  BY <1>0, <1>1, <1>2, <1>3, <1>4, <1>5, <1>6, <1>7, <1>8, <1>9, <1>10, <1>11, <1>12,
     WriteLookupFound, KeepFound, FlushTakeFound DEF Next

-----------------------------------------------------------------------------
(* Where the contents of the file are.                                     *)

inCache(c, d) == \E i \in DOMAIN cache : cache[i].cluster_no = c /\ cache[i].data = d

\* v is what a cluster holds for the user: the block in the cache has it; else
\* the block that a thread takes to the device; else the device.
Kept(c, v) ==
    /\ \A d : inCache(c, d) => d = v
    /\ \A d : leaving(c, d) => d = v /\ \A e : ~ inCache(c, e)
    /\ (\A d : ~ inCache(c, d) /\ ~ leaving(c, d)) => disk[c] = v

\* A write that has looked its cluster up works on the one at its offset.
aimed(t) ==
    pc[t] \in {"fetch", "keep", "copy"} /\ op[t].kind = "write" =>
        op[t].offset < entry.size /\ reg[t].cluster = chain[op[t].offset + 1]

KeptInv ==
    /\ expected = [k \in 0 .. MaxSize - 1 |-> expected[k]]
    /\ damage = {} =>
          /\ \A t \in Threads : aimed(t)
          /\ \A k \in 0 .. entry.size - 1 : Kept(chain[k + 1], expected[k])

SurviveInv == ChainInv /\ HandsInv /\ FoundInv /\ KeptInv

\* The cache has nothing of a cluster that a search does not find.
LEMMA AbsentBlock ==
    ASSUME TypeInv, NEW c, cached(c) = {}
    PROVE  \A d : ~ inCache(c, d)
<1>1. DOMAIN cache = 1 .. Len(cache) /\ Len(cache) \in Nat
  BY TypeFacts, LenProperties
<1> QED
  BY <1>1, NoneCached DEF inCache

\* The same blocks, up to age and mark.
LEMMA SameBlocks ==
    ASSUME NEW S, DOMAIN cache = S, DOMAIN cache' = S,
           \A i \in S : cache'[i].cluster_no = cache[i].cluster_no /\ cache'[i].data = cache[i].data
    PROVE  \A c, d : inCache(c, d)' <=> inCache(c, d)
  BY DEF inCache

LEMMA SameOut ==
    ASSUME \A t \in Threads : reg'[t].out = reg[t].out
    PROVE  \A c, d : leaving(c, d)' <=> leaving(c, d)
  BY DEF leaving, out

\* The file, the blocks and the device stay; one thread moves.
LEMMA SameKept ==
    ASSUME KeptInv, UNCHANGED <<table, entry, disk, expected>>, damage' = {} => damage = {},
           \A c, d : inCache(c, d)' <=> inCache(c, d),
           \A c, d : leaving(c, d)' <=> leaving(c, d),
           damage' = {} => \A t \in Threads : aimed(t)'
    PROVE  KeptInv'
<1>1. chain' = chain
  BY ChainFrame
<1>2. ASSUME NEW c, NEW v, Kept(c, v) PROVE Kept(c, v)'
  BY <1>2 DEF Kept
<1>3. ASSUME damage' = {} PROVE \A k \in 0 .. entry'.size - 1 : Kept(chain[k + 1], expected[k])'
  BY <1>1, <1>2, <1>3 DEF KeptInv
<1> QED
  BY <1>3 DEF KeptInv

\* A thread that does not move stays aimed while the file is as it was.
LEMMA StillAimed ==
    ASSUME NEW t \in Threads, aimed(t), UNCHANGED <<table, entry>>,
           pc'[t] = pc[t], op'[t] = op[t], reg'[t].cluster = reg[t].cluster
    PROVE  aimed(t)'
<1>1. chain' = chain
  BY ChainFrame
<1> QED
  BY <1>1 DEF aimed

\* A thread that goes to a place where it has no cluster, or has no write.
LEMMA NotAiming ==
    ASSUME NEW t \in Threads,
           pc'[t] \notin {"fetch", "keep", "copy"} \/ op'[t].kind # "write"
    PROVE  aimed(t)'
  BY DEF aimed

\* The chain has each cluster once.
LEMMA ChainDistinct ==
    ASSUME TypeInv, ChainInv
    PROVE  /\ entry.size \in 0 .. MaxSize
           /\ \A i, j \in 1 .. entry.size : chain[i] = chain[j] => i = j
           /\ \A i \in 1 .. entry.size : chain[i] \in Data /\ chain[i] \in 0 .. EOC
<1>1. fileChain(chain, table, entry.first) /\ Len(chain) = entry.size
  BY DEF ChainInv
<1>2. Data \subseteq 0 .. EOC
  BY FatAssumption DEF Data, Clusters, EOC
<1>3. \A i \in 1 .. entry.size : chain[i] \in Data
  BY <1>1 DEF fileChain
<1> QED
  BY <1>1, <1>2, <1>3, FileTypes DEF fileChain, distinct

LEMMA InitKept == Init => KeptInv
<1> SUFFICES ASSUME Init PROVE KeptInv
  OBVIOUS
<1>1. /\ cache = <<>> /\ \A t \in Threads : reg[t].out = <<>> /\ pc[t] = "closed"
      /\ \A c \in 0 .. EOC : disk[c] = 0
  BY DEF Init, NoReg
<1>2. expected = [k \in 0 .. MaxSize - 1 |-> expected[k]]
      /\ \A k \in 0 .. MaxSize - 1 : expected[k] = 0
  BY DEF Init
<1>3. (\A c, d : ~ inCache(c, d)) /\ \A c, d : ~ leaving(c, d)
  BY <1>1 DEF inCache, leaving, out
<1>4. ASSUME NEW k \in 0 .. entry.size - 1 PROVE Kept(chain[k + 1], expected[k])
  <2>1. entry.size \in 0 .. MaxSize /\ MaxSize \in Nat
    BY InitType, FileTypes, CacheAssumption
  <2>2. k \in 0 .. MaxSize - 1 /\ k + 1 \in 1 .. entry.size
    BY <2>1
  <2>3. chain[k + 1] \in 0 .. EOC
    BY <2>2, InitType, InitChain, ChainDistinct
  <2> QED
    BY <1>1, <1>2, <1>3, <2>2, <2>3 DEF Kept
<1> QED
  BY <1>1, <1>2, <1>4 DEF KeptInv, aimed

\* The steps of a thread that leave the file, the contents of the blocks and the
\* device.
LEMMA QuietKept ==
    ASSUME TypeInv, SurviveInv, damage \subseteq damage', NEW t \in Threads,
           \/ Open(t) \/ GetEntry(t) \/ AddRecord(t) \/ BeginTruncatePath(t) \/ Begin(t)
           \/ Fetch(t) \/ Unlock(t) \/ FlushEnd(t) \/ Release(t) \/ Die(t)
    PROVE  KeptInv'
<1>1. UNCHANGED <<table, entry, disk, expected, cache>>
  BY DEF Open, GetEntry, AddRecord, BeginTruncatePath, Begin, Fetch, Unlock, FlushEnd, Release,
     Die, fileVars
<1>2. /\ \A u \in Threads : reg'[u].out = reg[u].out
      /\ \A u \in Threads : u # t => reg'[u].cluster = reg[u].cluster
  <2>1. CASE Unlock(t) \/ AddRecord(t)
    <3>1. reg' = [reg EXCEPT ![t] = NoReg] /\ reg[t].out = <<>>
      BY <2>1, NoOut DEF Unlock, AddRecord, at, flushing, SurviveInv
    <3> QED
      BY <3>1, TypeFacts, NothingOut
  <2>2. CASE Fetch(t)
    <3>1. PICK d : reg' = [reg EXCEPT ![t].data = d]
      BY <2>2 DEF Fetch
    <3> QED
      BY <3>1, TypeFacts DEF Regs
  <2>3. CASE GetEntry(t)
    <3>1. reg' = [reg EXCEPT ![t].entry = entry]
      BY <2>3 DEF GetEntry
    <3> QED
      BY <3>1, TypeFacts DEF Regs
  <2>4. CASE Open(t) \/ BeginTruncatePath(t) \/ Begin(t) \/ FlushEnd(t) \/ Release(t) \/ Die(t)
    BY <2>4 DEF Open, BeginTruncatePath, Begin, FlushEnd, Release, Die
  <2> QED
    BY <2>1, <2>2, <2>3, <2>4
<1>3. \A u \in Threads : u # t => pc'[u] = pc[u] /\ op'[u] = op[u]
  <2>1. CASE Open(t) \/ AddRecord(t) \/ Fetch(t) \/ Unlock(t) \/ FlushEnd(t) \/ Release(t)
    BY <2>1, TypeFacts DEF Open, AddRecord, Fetch, Unlock, FlushEnd, Release, goto
  <2>2. CASE GetEntry(t) \/ BeginTruncatePath(t) \/ Begin(t) \/ Die(t)
    BY <2>2, TypeFacts DEF GetEntry, BeginTruncatePath, Begin, Die
  <2> QED
    BY <2>1, <2>2
<1>4. ASSUME damage' = {} PROVE aimed(t)'
  <2>1. CASE Fetch(t)
    <3>1. /\ pc[t] = "fetch" /\ goto(t, "keep") /\ UNCHANGED <<table, entry>>
          /\ reg'[t].cluster = reg[t].cluster
      BY <2>1, TypeFacts DEF Fetch, at, fileVars, Regs
    <3>2. op'[t] = op[t] /\ aimed(t) /\ chain' = chain
      BY <1>4, <3>1, GotoFacts, ChainFrame DEF SurviveInv, KeptInv
    <3> QED
      BY <3>1, <3>2 DEF aimed
  <2>2. CASE Open(t) \/ AddRecord(t) \/ Unlock(t) \/ FlushEnd(t) \/ Release(t)
    <3>1. \E place : goto(t, place) /\ place \notin {"fetch", "keep", "copy"}
      BY <2>2 DEF Open, AddRecord, Unlock, FlushEnd, Release
    <3> QED
      BY <3>1, GotoFacts, NotAiming
  <2>3. CASE GetEntry(t) \/ BeginTruncatePath(t) \/ Begin(t)
    <3>1. pc'[t] \notin {"fetch", "keep", "copy"}
      BY <2>3, TypeFacts DEF GetEntry, BeginTruncatePath, Begin
    <3> QED
      BY <3>1, NotAiming
  <2>4. CASE Die(t)
    BY <1>4, <2>4, StillAimed DEF Die, fileVars, SurviveInv, KeptInv
  <2> QED
    BY <2>1, <2>2, <2>3, <2>4
<1>5. ASSUME damage' = {}, NEW u \in Threads PROVE aimed(u)'
  BY <1>1, <1>2, <1>3, <1>4, <1>5, StillAimed DEF SurviveInv, KeptInv
<1>6. \A c, d : inCache(c, d)' <=> inCache(c, d)
  BY <1>1 DEF inCache
<1>7. \A c, d : leaving(c, d)' <=> leaving(c, d)
  BY <1>2, SameOut
<1> QED
  BY <1>1, <1>5, <1>6, <1>7, SameKept DEF SurviveInv

LEMMA TickKept == ASSUME TypeInv, SurviveInv, Tick PROVE KeptInv'
<1>1. /\ cache' = [i \in DOMAIN cache |->
                     [cache[i] EXCEPT !.age = IF @ < MaxAge THEN @ + 1 ELSE @]]
      /\ UNCHANGED <<table, entry, disk, expected, damage, pc, op, reg>>
  BY DEF Tick, fileVars
<1>2. \A i \in DOMAIN cache : cache[i] \in Blocks
  BY TypeFacts, LenProperties, ElementOfSeq
<1> DEFINE S == DOMAIN cache
<1>3. DOMAIN cache' = S
  BY <1>1
<1>4. \A i \in S : cache'[i].cluster_no = cache[i].cluster_no /\ cache'[i].data = cache[i].data
  BY <1>1, <1>2 DEF Blocks
<1>5. \A c, d : inCache(c, d)' <=> inCache(c, d)
  BY <1>3, <1>4, SameBlocks
<1>6. \A c, d : leaving(c, d)' <=> leaving(c, d)
  BY <1>1, SameOut
<1>7. ASSUME damage' = {}, NEW u \in Threads PROVE aimed(u)'
  BY <1>1, <1>7, StillAimed DEF SurviveInv, KeptInv
<1> QED
  BY <1>1, <1>5, <1>6, <1>7, SameKept DEF SurviveInv

\* A search makes a block young and aims the thread.
LEMMA LookupKept ==
    ASSUME TypeInv, SurviveInv, NEW t \in Threads, ReadLookup(t) \/ WriteLookup(t)
    PROVE  KeptInv'
<1>1. UNCHANGED <<table, entry, disk, expected>> /\ \E place : goto(t, place)
  BY DEF ReadLookup, WriteLookup, fileVars
<1>2. \A i \in DOMAIN cache : cache[i] \in Blocks
  BY TypeFacts, LenProperties, ElementOfSeq
<1>3. CASE UNCHANGED <<cache, reg, damage>> /\ goto(t, "open")
  <2>1. pc'[t] = "open" /\ \A u \in Threads : u # t => pc'[u] = pc[u] /\ op'[u] = op[u]
    BY <1>3, GotoFacts
  <2>2. ASSUME damage' = {}, NEW u \in Threads PROVE aimed(u)'
    BY <1>1, <1>3, <2>1, <2>2, StillAimed, NotAiming DEF SurviveInv, KeptInv
  <2>3. \A c, d : inCache(c, d)' <=> inCache(c, d)
    BY <1>3 DEF inCache
  <2>4. \A c, d : leaving(c, d)' <=> leaving(c, d)
    BY <1>3, SameOut
  <2> QED
    BY <1>1, <1>3, <2>2, <2>3, <2>4, SameKept DEF SurviveInv
<1>4. CASE Lookup(t)
  <2> DEFINE c0 == clusterAt(op[t].offset)
  <2>1. /\ cache' = [i \in DOMAIN cache |->
                       IF i \in cached(c0) THEN fresh(cache[i]) ELSE cache[i]]
        /\ \/ op[t].kind = "read" /\ reg' = reg
           \/ \E k : reg' = [reg EXCEPT ![t].cluster = c0, ![t].index = k]
        /\ damage' = damage \cup (IF strays(op[t].offset) THEN {"strayed"} ELSE {})
    BY <1>4 DEF Lookup, because
  <2>2. /\ op[t].kind = "write" => reg'[t].cluster = c0
        /\ \A u \in Threads : reg'[u].out = reg[u].out
        /\ \A u \in Threads : u # t => reg'[u].cluster = reg[u].cluster
    <3> HIDE DEF c0
    <3>1. CASE op[t].kind = "read" /\ reg' = reg
      BY <3>1
    <3>2. CASE \E k : reg' = [reg EXCEPT ![t].cluster = c0, ![t].index = k]
      BY <3>2, TypeFacts DEF Regs
    <3> QED
      BY <2>1, <3>1, <3>2
  <2>3. damage' = {} => /\ damage = {} /\ op[t].offset + 1 \in DOMAIN chain
                        /\ c0 = chain[op[t].offset + 1]
    BY <2>1 DEF strays
  <2> HIDE DEF c0
  <2> DEFINE S == DOMAIN cache
  <2>4. DOMAIN cache' = S
    BY <2>1
  <2>5. \A i \in S : cache'[i].cluster_no = cache[i].cluster_no /\ cache'[i].data = cache[i].data
    BY <1>2, <2>1 DEF Blocks, fresh
  <2>6. \A c, d : inCache(c, d)' <=> inCache(c, d)
    BY <2>4, <2>5, SameBlocks
  <2>7. \A c, d : leaving(c, d)' <=> leaving(c, d)
    BY <2>2, SameOut
  <2>8. ASSUME damage' = {} PROVE aimed(t)'
    <3>1. op[t].offset < entry.size
      <4> DEFINE n == Len(chain)
                 k == op[t].offset
      <4>1. fileChain(chain, table, entry.first) /\ n = entry.size
        BY DEF SurviveInv, ChainInv
      <4>2. DOMAIN chain = 1 .. n /\ n \in Nat
        BY <4>1, LenProperties DEF fileChain
      <4>3. k \in Nat /\ k + 1 \in 1 .. n
        BY <2>3, <2>8, <4>2, TypeFacts, CacheAssumption DEF Calls
      <4> HIDE DEF n, k
      <4>4. k < n
        BY <4>2, <4>3
      <4> QED
        BY <4>1, <4>4 DEF k
    <3>2. chain' = chain /\ (op'[t] = op[t] \/ op'[t].kind = "none")
      BY <1>1, ChainFrame, GotoFacts DEF NoCall, Call
    <3> QED
      BY <1>1, <2>2, <2>3, <2>8, <3>1, <3>2 DEF aimed
  <2>9. ASSUME damage' = {}, NEW u \in Threads PROVE aimed(u)'
    <3>1. CASE u # t
      BY <1>1, <2>2, <2>3, <2>9, <3>1, GotoFacts, StillAimed DEF SurviveInv, KeptInv
    <3> QED
      BY <2>8, <2>9, <3>1
  <2> QED
    BY <1>1, <2>3, <2>6, <2>7, <2>9, SameKept DEF SurviveInv
<1> QED
  BY <1>3, <1>4 DEF ReadLookup, WriteLookup

\* A truncate clears what it takes for the file; the clusters that stay keep
\* what they had.
LEMMA TruncateKept ==
    ASSUME TypeInv, SurviveInv, NEW t \in Threads, op[t].kind \in {"write", "truncate"},
           NEW size \in 0 .. MaxSize, fat32_truncate(size), UNCHANGED <<cache, reg>>,
           NEW place, goto(t, place), place \notin {"fetch", "keep", "copy"}
    PROVE  KeptInv'
<1> DEFINE new == added(resized(size).tab)
           z == entry.size
<1>1. /\ entry'.size = size
      /\ \A i \in 1 .. size : i <= z => chain'[i] = chain[i]
      /\ \A i \in 1 .. size : i > z => chain'[i] \in new
      /\ \A i \in 1 .. z : chain[i] \notin new
  BY TruncatedFile DEF SurviveInv
<1>2. /\ disk' = [c \in DOMAIN disk |-> IF c \in new THEN 0 ELSE disk[c]]
      /\ expected' = [k \in DOMAIN expected |-> IF k >= size \/ k >= z THEN 0 ELSE expected[k]]
      /\ damage' = damage \cup
            (IF \E c \in new :
                  \/ cached(c) # {}
                  \/ \E u \in Threads : \E i \in DOMAIN reg[u].out :
                        reg[u].out[i].cluster_no = c
             THEN {"oldBlock"} ELSE {})
  BY DEF fat32_truncate, because
<1>3. DOMAIN disk = 0 .. EOC /\ DOMAIN expected = 0 .. MaxSize - 1 /\ new \subseteq 0 .. EOC
      /\ MaxSize \in Nat /\ z \in 0 .. MaxSize
  <2>1. new \subseteq Clusters /\ Clusters \subseteq 0 .. EOC
    BY FatAssumption DEF added, Clusters, EOC
  <2> QED
    BY <2>1, TypeFacts, FileTypes, CacheAssumption DEF SurviveInv, KeptInv
<1> HIDE DEF new
<1>4. (\A c, d : inCache(c, d)' <=> inCache(c, d)) /\ \A c, d : leaving(c, d)' <=> leaving(c, d)
  BY SameOut DEF inCache
<1>5. expected' = [k \in 0 .. MaxSize - 1 |-> expected'[k]]
  BY <1>2, <1>3
<1>6. ASSUME damage' = {} PROVE damage = {} /\ \A c \in new : \A d : ~ inCache(c, d) /\ ~ leaving(c, d)
  <2>1. damage = {} /\ ~ \E c \in new :
                  \/ cached(c) # {}
                  \/ \E u \in Threads : \E i \in DOMAIN reg[u].out :
                        reg[u].out[i].cluster_no = c
    BY <1>2, <1>6
  <2> QED
    BY <2>1, AbsentBlock DEF leaving, out
<1>7. ASSUME damage' = {}, NEW k \in 0 .. entry'.size - 1
      PROVE  Kept(chain[k + 1], expected[k])'
  <2>1. k \in 0 .. MaxSize - 1 /\ k + 1 \in 1 .. size /\ k < size
    BY <1>1, <1>3
  <2>2. CASE k < z
    <3>1. k \in 0 .. z - 1 /\ k + 1 \in 1 .. z /\ ~ (k >= size \/ k >= z)
      BY <1>3, <2>1, <2>2
    <3>2. chain'[k + 1] = chain[k + 1] /\ chain[k + 1] \notin new /\ expected'[k] = expected[k]
      BY <1>1, <1>2, <1>3, <2>1, <3>1
    <3>3. chain[k + 1] \in 0 .. EOC
      BY <3>1, ChainDistinct DEF SurviveInv
    <3>4. disk'[chain[k + 1]] = disk[chain[k + 1]]
      BY <1>2, <1>3, <3>2, <3>3
    <3>5. Kept(chain[k + 1], expected[k])
      BY <1>6, <1>7, <3>1 DEF SurviveInv, KeptInv
    <3> QED
      BY <1>4, <3>2, <3>4, <3>5 DEF Kept
  <2>3. CASE ~ (k < z)
    <3>1. k + 1 > z /\ k >= z
      BY <1>3, <2>1, <2>3
    <3>2. chain'[k + 1] \in new /\ expected'[k] = 0
      BY <1>1, <1>2, <1>3, <2>1, <3>1
    <3>3. disk'[chain'[k + 1]] = 0
      BY <1>2, <1>3, <3>2
    <3> QED
      BY <1>4, <1>6, <1>7, <3>2, <3>3 DEF Kept
  <2> QED
    BY <2>2, <2>3
<1>8. ASSUME NEW u \in Threads PROVE aimed(u)'
  <2>1. CASE u = t
    BY <2>1, GotoFacts, NotAiming
  <2>2. CASE u # t
    <3>1. op'[u] = op[u] /\ op[u].kind # "write"
      BY <2>2, GotoFacts DEF SurviveInv, HandsInv, Alone
    <3> QED
      BY <3>1, NotAiming
  <2> QED
    BY <2>1, <2>2
<1> QED
  BY <1>5, <1>7, <1>8 DEF KeptInv

\* One cluster of the file gets a content, in the cache; for the others nothing
\* changes.
LEMMA WriteCopyKept ==
    ASSUME TypeInv, CacheInv, SurviveInv, NEW t \in Threads, WriteCopy(t)
    PROVE  KeptInv'
<1> DEFINE k == reg[t].index
           v == op[t].value
           o == op[t].offset
           c0 == reg[t].cluster
<1>a. expected' = [expected EXCEPT ![o] = v]
  BY DEF WriteCopy, written
<1>5. expected' = [j \in 0 .. MaxSize - 1 |-> expected'[j]]
  BY <1>a DEF SurviveInv, KeptInv
<1> SUFFICES ASSUME damage' = {}
             PROVE  /\ \A u \in Threads : aimed(u)'
                    /\ \A j \in 0 .. entry'.size - 1 : Kept(chain[j + 1], expected[j])'
  BY <1>5 DEF KeptInv
<1>b. k # 0
  BY DEF WriteCopy
<1>1. /\ pc[t] = "copy" /\ goto(t, "unlock")
      /\ cache' = [cache EXCEPT ![k].data = v, ![k].modified = TRUE]
      /\ damage' = damage \cup (IF cache[k].cluster_no # c0 THEN {"otherBlock"} ELSE {})
      /\ expected' = [expected EXCEPT ![o] = v]
      /\ UNCHANGED <<table, entry, disk, reg>>
  BY <1>b DEF WriteCopy, at, because, written, fileVars
<1>c. damage = {}
  BY <1>1
<1>2. cache \in Seq(Blocks) /\ DOMAIN cache = 1 .. Len(cache) /\ Len(cache) \in Nat
      /\ \A i \in DOMAIN cache : cache[i] \in Blocks
  BY TypeFacts, LenProperties, ElementOfSeq
<1>3. k \in DOMAIN cache
  <2> DEFINE n == Len(cache)
  <2>1. k \in Nat /\ k # 0 /\ k <= n /\ n \in Nat
    BY <1>b, <1>c, <1>1, <1>2, TypeFacts DEF SurviveInv, FoundInv, Regs
  <2> HIDE DEF n, k
  <2>2. k \in 1 .. n
    BY <2>1
  <2> QED
    BY <1>2, <2>2 DEF n
<1>4. op[t].kind = "write"
  BY <1>1, TypeFacts DEF Kinds, fits
<1>6. \A c, d : leaving(c, d)' <=> leaving(c, d)
  BY <1>1, SameOut
<1>7. \A i, j \in DOMAIN cache : cache[i].cluster_no = cache[j].cluster_no => i = j
  BY <1>c, ShapeFacts
<1>8. chain' = chain /\ \A u \in Threads : u # t => pc'[u] = pc[u] /\ op'[u] = op[u]
  BY <1>1, ChainFrame, GotoFacts
<1>9. pc'[t] = "unlock"
  BY <1>1, GotoFacts
<1> HIDE DEF k, v, o, c0
<1>10. DOMAIN cache' = DOMAIN cache
       /\ \A i \in DOMAIN cache :
             /\ cache'[i].cluster_no = cache[i].cluster_no
             /\ cache'[i].data = IF i = k THEN v ELSE cache[i].data
  BY <1>1, <1>2, <1>3 DEF Blocks
<1>11. ASSUME damage' = {}
       PROVE  /\ damage = {} /\ cache[k].cluster_no = c0
              /\ o < entry.size /\ c0 = chain[o + 1]
  <2>1. damage = {} /\ cache[k].cluster_no = c0
    BY <1>1, <1>11
  <2>2. aimed(t)
    BY <2>1 DEF SurviveInv, KeptInv
  <2> QED
    BY <1>1, <1>4, <2>1, <2>2 DEF aimed, o, c0
<1>12. ASSUME damage' = {}, NEW c, NEW d
       PROVE  inCache(c, d)' <=> IF c = c0 THEN d = v ELSE inCache(c, d)
  BY <1>3, <1>7, <1>10, <1>11, <1>12 DEF inCache
<1>13. \A d : damage' = {} => ~ leaving(c0, d)
  <2> SUFFICES ASSUME NEW d, damage' = {} PROVE ~ leaving(c0, d)
    OBVIOUS
  <2>1. inCache(c0, cache[k].data)
    BY <1>3, <1>11 DEF inCache
  <2>2. o \in 0 .. entry.size - 1
    BY <1>11, ChainDistinct, TypeFacts, CacheAssumption DEF SurviveInv, Calls, o
  <2>3. Kept(c0, expected[o])
    BY <1>11, <2>2 DEF SurviveInv, KeptInv
  <2> QED
    BY <2>1, <2>3 DEF Kept
<1>14. ASSUME damage' = {}, NEW j \in 0 .. entry'.size - 1
       PROVE  Kept(chain[j + 1], expected[j])'
  <2>1. /\ j \in 0 .. entry.size - 1 /\ j \in 0 .. MaxSize - 1 /\ j + 1 \in 1 .. entry.size
        /\ o \in 0 .. entry.size - 1 /\ o \in 0 .. MaxSize - 1 /\ o + 1 \in 1 .. entry.size
    <3> DEFINE z == entry.size
    <3>1. z \in 0 .. MaxSize /\ MaxSize \in Nat /\ entry'.size = z /\ o \in 0 .. MaxSize /\ o < z
      BY <1>1, <1>11, <1>14, ChainDistinct, TypeFacts, CacheAssumption DEF SurviveInv, Calls, o
    <3> HIDE DEF z
    <3>2. j \in 0 .. z - 1
      BY <1>14, <3>1
    <3>3. /\ j \in 0 .. MaxSize - 1 /\ j + 1 \in 1 .. z
          /\ o \in 0 .. z - 1 /\ o \in 0 .. MaxSize - 1 /\ o + 1 \in 1 .. z
      BY <3>1, <3>2
    <3> QED
      BY <3>2, <3>3 DEF z
  <2>2. CASE j = o
    <3>1. expected'[j] = v /\ chain'[j + 1] = c0
      BY <1>1, <1>8, <1>11, <1>14, <2>1, <2>2 DEF SurviveInv, KeptInv
    <3> QED
      BY <1>6, <1>12, <1>13, <1>14, <3>1 DEF Kept
  <2>3. CASE j # o
    <3>1. expected'[j] = expected[j] /\ chain'[j + 1] = chain[j + 1]
      BY <1>1, <1>8, <2>1, <2>3 DEF SurviveInv, KeptInv
    <3>2. j + 1 # o + 1
      BY <2>1, <2>3
    <3>3. chain[j + 1] # c0
      BY <1>11, <1>14, <2>1, <3>2, ChainDistinct DEF SurviveInv
    <3>4. Kept(chain[j + 1], expected[j])
      BY <1>11, <1>14, <2>1 DEF SurviveInv, KeptInv
    <3> QED
      BY <1>1, <1>6, <1>12, <1>14, <3>1, <3>3, <3>4 DEF Kept
  <2> QED
    BY <2>2, <2>3
<1>15. ASSUME damage' = {}, NEW u \in Threads PROVE aimed(u)'
  <2>1. CASE u = t
    BY <1>9, <2>1, NotAiming
  <2>2. CASE u # t
    BY <1>1, <1>8, <1>11, <1>15, <2>2, StillAimed DEF SurviveInv, KeptInv
  <2> QED
    BY <2>1, <2>2
<1> QED
  BY <1>14, <1>15

\* A cluster comes into the cache, or is written without one; the block that
\* makes room goes into the hands of the thread, or was on the device already.
LEMMA KeepKept ==
    ASSUME TypeInv, CacheInv, SurviveInv, NEW t \in Threads, Keep(t)
    PROVE  KeptInv'
<1> DEFINE c0 == reg[t].cluster
           v == reg[t].data
           o == op[t].offset
           writes == op[t].kind = "write"
           has == cached(c0)
           victim == CHOOSE i \in CACHE_getLRU : TRUE
           b == cache[victim]
           replaced == has = {} /\ Len(cache) = max_blocks
<1>1. /\ pc[t] = "keep" /\ goto(t, "putOut") /\ ~noVictim(t) /\ CACHE_write_block(t)
      /\ disk' = IF max_blocks = 0 /\ writes THEN [disk EXCEPT ![c0] = v] ELSE disk
      /\ expected' = IF writes THEN [expected EXCEPT ![o] = op[t].value] ELSE expected
      /\ UNCHANGED <<max_blocks, table, entry>>
  BY DEF Keep, at, written
<1>2. chain' = chain /\ pc'[t] = "putOut"
      /\ \A u \in Threads : u # t => pc'[u] = pc[u] /\ op'[u] = op[u]
  BY <1>1, ChainFrame, GotoFacts
<1>3. expected' = [j \in 0 .. MaxSize - 1 |-> expected'[j]]
  BY <1>1 DEF SurviveInv, KeptInv
<1>5. damage \subseteq damage'
  BY <1>1 DEF CACHE_write_block
<1> SUFFICES ASSUME damage' = {}
             PROVE  /\ \A u \in Threads : aimed(u)'
                    /\ \A j \in 0 .. entry'.size - 1 : Kept(chain[j + 1], expected[j])'
  BY <1>3 DEF KeptInv
<1>a. /\ Len(cache) <= max_blocks
      /\ \A i, j \in DOMAIN cache : cache[i].cluster_no = cache[j].cluster_no => i = j
      /\ \A c, i : i \in cached(c) <=> i \in DOMAIN cache /\ cache[i].cluster_no = c
  BY <1>5, ShapeFacts
<1>4. op[t].kind \in {"read", "write"} /\ (writes => v = op[t].value)
      /\ reg[t].out = <<>> /\ c0 \in 0 .. EOC /\ disk \in [0 .. EOC -> Values \cup {0}]
  BY <1>1, NoOut, TypeFacts DEF SurviveInv, HandsInv, hands, Kinds, fits, flushing, Regs
<1>6. ASSUME damage = {}, writes
      PROVE  o \in 0 .. entry.size - 1 /\ c0 = chain[o + 1] /\ o \in 0 .. MaxSize - 1
  <2>1. aimed(t)
    BY <1>6 DEF SurviveInv, KeptInv
  <2>2. o < entry.size /\ c0 = chain[o + 1]
    BY <1>1, <1>6, <2>1 DEF aimed
  <2>3. entry.size \in 0 .. MaxSize /\ o \in 0 .. MaxSize /\ MaxSize \in Nat
    BY ChainDistinct, TypeFacts, CacheAssumption DEF SurviveInv, Calls
  <2> HIDE DEF o
  <2> QED
    BY <2>2, <2>3
<1>7. ASSUME NEW j \in 0 .. entry.size - 1, damage = {}
      PROVE  /\ Kept(chain[j + 1], expected[j])
             /\ chain[j + 1] \in 0 .. EOC
             /\ writes /\ chain[j + 1] = c0 => expected'[j] = v
             /\ ~ (writes /\ chain[j + 1] = c0) => expected'[j] = expected[j]
  <2>1. entry.size \in 0 .. MaxSize /\ MaxSize \in Nat
    BY ChainDistinct, CacheAssumption DEF SurviveInv
  <2>2. j + 1 \in 1 .. entry.size /\ j \in 0 .. MaxSize - 1
    BY <2>1
  <2>3. CASE writes
    <3>1. o \in 0 .. entry.size - 1 /\ c0 = chain[o + 1] /\ o \in 0 .. MaxSize - 1
      BY <1>6, <1>7, <2>3
    <3>2. o + 1 \in 1 .. entry.size /\ (o + 1 = j + 1 => o = j)
      BY <2>1, <3>1
    <3>3. chain[j + 1] = c0 => o = j
      BY <2>2, <3>1, <3>2, ChainDistinct DEF SurviveInv
    <3>4. expected'[j] = IF j = o THEN op[t].value ELSE expected[j]
      BY <1>1, <2>2, <2>3, <3>1 DEF SurviveInv, KeptInv
    <3> QED
      BY <1>4, <1>7, <2>2, <2>3, <3>1, <3>3, <3>4, ChainDistinct DEF SurviveInv, KeptInv
  <2>4. CASE ~ writes
    BY <1>1, <1>7, <2>2, <2>4, ChainDistinct DEF SurviveInv, KeptInv
  <2> QED
    BY <2>3, <2>4
<1>8. ASSUME damage' = {}, NEW u \in Threads, \A w \in Threads : reg'[w].cluster = reg[w].cluster
      PROVE  aimed(u)'
  <2>1. CASE u = t
    BY <1>2, <2>1, NotAiming
  <2>2. CASE u # t
    BY <1>1, <1>2, <1>5, <1>8, <2>2, StillAimed DEF SurviveInv, KeptInv
  <2> QED
    BY <2>1, <2>2
<1>9. CASE max_blocks = 0
  <2>1. UNCHANGED <<cache, reg, damage>>
    BY <1>1, <1>9 DEF CACHE_write_block
  <2>2. cache = <<>> /\ \A u \in Threads : reg[u].out = <<>>
    <3>1. cache = <<>>
      BY <1>9, TypeFacts, EmptySeq DEF CacheInv
    <3> QED
      BY <1>9, <3>1 DEF SurviveInv, HandsInv, hands, out
  <2>3. \A c, d : ~ inCache(c, d) /\ ~ leaving(c, d)
    BY <2>2 DEF inCache, leaving, out
  <2>4. \A c, d : ~ inCache(c, d)' /\ ~ leaving(c, d)'
    BY <2>1, <2>2 DEF inCache, leaving, out
  <2>5. \A c \in 0 .. EOC : disk'[c] = IF c = c0 /\ writes THEN v ELSE disk[c]
    BY <1>1, <1>4, <1>9
  <2>6. ASSUME damage' = {}, NEW j \in 0 .. entry'.size - 1
        PROVE  Kept(chain[j + 1], expected[j])'
    <3>1. j \in 0 .. entry.size - 1 /\ damage = {}
      BY <1>1, <2>1, <2>6
    <3> HIDE DEF c0, v, writes
    <3>2. disk[chain[j + 1]] = expected[j]
      BY <1>7, <2>3, <3>1 DEF Kept
    <3>3. disk'[chain[j + 1]] = expected'[j]
      BY <1>7, <2>5, <3>1, <3>2
    <3> QED
      BY <1>2, <2>4, <3>3 DEF Kept
  <2>7. \A w \in Threads : reg'[w].cluster = reg[w].cluster
    BY <2>1
  <2> QED
    BY <1>8, <2>6, <2>7
<1>10. CASE max_blocks # 0
  <2> DEFINE q == IF replaced /\ b.modified THEN <<b>> ELSE <<>>
             full == block(c0, v, TRUE)
             bare == block(c0, v, FALSE)
  <2>1. /\ cache' = IF has # {} THEN [i \in DOMAIN cache |-> IF i \in has THEN full ELSE cache[i]]
                    ELSE IF Len(cache) # max_blocks THEN Append(cache, bare)
                    ELSE [cache EXCEPT ![victim] = bare]
        /\ reg' = [reg EXCEPT ![t].out = q]
        /\ damage' = damage \cup
              {cause \in {"overtaken", "crossing", "unmarked"} :
                  CASE cause = "overtaken" -> overtaken(t)
                    [] cause = "crossing"  -> crossing(t)
                    [] cause = "unmarked"  -> replaced /\ dropped(b)}
    BY <1>1, <1>10 DEF CACHE_write_block
  <2>2. disk' = disk
    BY <1>1, <1>10
  <2>3. /\ cache \in Seq(Blocks) /\ DOMAIN cache = 1 .. Len(cache) /\ Len(cache) \in Nat
        /\ \A i, j \in DOMAIN cache : cache[i].cluster_no = cache[j].cluster_no => i = j
        /\ \A i \in DOMAIN cache : i \in has <=> cache[i].cluster_no = c0
    BY <1>a, TypeFacts, LenProperties
  <2>4. full.cluster_no = c0 /\ full.data = v /\ bare.cluster_no = c0 /\ bare.data = v
    BY DEF block
  <2>5. replaced => victim \in DOMAIN cache
    BY <1>1, <1>10, VictimIsBlock
  <2>6. \A c, d : inCache(c, d)' <=>
            IF c = c0 THEN d = v
            ELSE inCache(c, d) /\ ~ (replaced /\ c = b.cluster_no)
    <3>1. CASE has # {}
      <4>1. cache' = [i \in DOMAIN cache |-> IF i \in has THEN full ELSE cache[i]] /\ ~ replaced
        BY <2>1, <3>1
      <4>2. \A i \in DOMAIN cache : i \in has <=> cache[i].cluster_no = c0
        BY <2>3
      <4>3. has \subseteq DOMAIN cache
        BY DEF cached
      <4> HIDE DEF has, full, c0, v, b, replaced
      <4> QED
        BY <2>4, <3>1, <4>1, <4>2, <4>3 DEF inCache
    <3>2. CASE has = {} /\ Len(cache) # max_blocks
      <4> DEFINE n == Len(cache)
      <4>0. \A i \in DOMAIN cache : cache[i].cluster_no # c0
        BY <2>3, <3>2
      <4>1. cache' = Append(cache, bare) /\ bare \in Blocks
        BY <1>4, <2>1, <3>2, BlockType, TypeFacts DEF Regs
      <4>2. ~ replaced
        BY <3>2
      <4>3. /\ DOMAIN cache' = 1 .. n + 1 /\ cache'[n + 1] = bare
            /\ \A i \in 1 .. n : cache'[i] = cache[i]
        <5> DEFINE s == Append(cache, bare)
        <5> HIDE DEF bare
        <5>1. /\ s \in Seq(Blocks) /\ Len(s) = n + 1 /\ s[n + 1] = bare
              /\ \A i \in 1 .. n : s[i] = cache[i]
          BY <2>3, <4>1, AppendProperties
        <5> HIDE DEF s
        <5>2. DOMAIN s = 1 .. Len(s)
          BY <5>1, LenProperties
        <5> QED
          BY <4>1, <5>1, <5>2 DEF s
      <4>4. DOMAIN cache = 1 .. n /\ n \in Nat
        BY <2>3
      <4> HIDE DEF n, has, bare, c0, v, b, replaced
      <4>5. DOMAIN cache' = DOMAIN cache \cup {n + 1} /\ n + 1 \notin DOMAIN cache
        BY <4>3, <4>4
      <4> QED
        BY <2>4, <4>0, <4>2, <4>3, <4>4, <4>5 DEF inCache
    <3>3. CASE has = {} /\ Len(cache) = max_blocks
      <4>0. \A i \in DOMAIN cache : cache[i].cluster_no # c0
        BY <2>3, <3>3
      <4>1. cache' = [cache EXCEPT ![victim] = bare]
        BY <2>1, <3>3
      <4>2. replaced
        BY <3>3
      <4> HIDE DEF has, bare, c0, v, victim, replaced
      <4>3. DOMAIN cache' = DOMAIN cache /\ cache'[victim] = bare
            /\ \A i \in DOMAIN cache : i # victim => cache'[i] = cache[i]
        BY <2>5, <4>1, <4>2
      <4> QED
        BY <2>3, <2>4, <2>5, <4>0, <4>2, <4>3 DEF inCache
    <3> QED
      BY <3>1, <3>2, <3>3
  <2>7. \A c, d : leaving(c, d)' <=>
            leaving(c, d) \/ (replaced /\ b.modified /\ c = b.cluster_no /\ d = b.data)
    <3> HIDE DEF b, replaced
    <3>1. \A u \in Threads : reg'[u].out = IF u = t THEN q ELSE reg[u].out
      <4> HIDE DEF q
      <4> QED
        BY <2>1, TypeFacts DEF Regs
    <3>2. CASE replaced /\ b.modified
      <4>1. q = <<b>> /\ DOMAIN q = {1} /\ q[1] = b
        BY <3>2
      <4> HIDE DEF q
      <4> QED
        BY <1>4, <3>1, <3>2, <4>1 DEF leaving, out
    <3>3. CASE ~ (replaced /\ b.modified)
      <4>1. q = <<>>
        BY <3>3
      <4> HIDE DEF q
      <4> QED
        BY <1>4, <3>1, <3>3, <4>1 DEF leaving, out
    <3> QED
      BY <3>2, <3>3
  <2>8. ASSUME damage' = {}
        PROVE  /\ damage = {}
               /\ ~ writes => v = disk[c0] /\ \A d : inCache(c0, d) => d = v
               /\ \A d : ~ leaving(c0, d)
               /\ replaced => b.modified \/ b.data = disk[b.cluster_no]
    <3>1. damage = {} /\ ~ overtaken(t) /\ ~ crossing(t) /\ ~ (replaced /\ dropped(b))
      <4> HIDE DEF replaced, b
      <4> QED
        BY <2>1, <2>8
    <3>2. ~ writes => v = disk[c0] /\ \A d : inCache(c0, d) => d = v
      BY <1>4, <2>3, <3>1 DEF overtaken, inCache
    <3>3. \A d : ~ leaving(c0, d)
      BY <3>1 DEF crossing, leaving, out
    <3> HIDE DEF b, replaced
    <3> QED
      BY <3>1, <3>2, <3>3 DEF dropped
  <2>9. replaced => b.cluster_no # c0 /\ inCache(b.cluster_no, b.data)
                    /\ \A d : inCache(b.cluster_no, d) => d = b.data
    <3>1. replaced => \A i \in DOMAIN cache : cache[i].cluster_no # c0
      BY <2>3
    <3> HIDE DEF victim, replaced, c0
    <3> QED
      BY <2>3, <2>5, <3>1 DEF inCache
  <2> HIDE DEF b, replaced, c0, v, writes, q
  <2>10. ASSUME damage' = {}, NEW j \in 0 .. entry'.size - 1
         PROVE  Kept(chain[j + 1], expected[j])'
    <3>0. PICK c : c = chain[j + 1]
      OBVIOUS
    <3>1. /\ j \in 0 .. entry.size - 1 /\ damage = {} /\ Kept(c, expected[j])
          /\ chain'[j + 1] = c
      BY <1>1, <1>2, <1>7, <2>8, <2>10, <3>0
    <3>2. (writes /\ c = c0 => expected'[j] = v)
          /\ (~ (writes /\ c = c0) => expected'[j] = expected[j])
      BY <1>7, <3>0, <3>1
    <3>3. CASE c = c0
      <4>1. expected'[j] = v
        <5>1. CASE writes
          BY <3>2, <3>3, <5>1
        <5>2. CASE ~ writes
          <6>1. expected'[j] = expected[j] /\ v = disk[c] /\ Kept(c, expected[j])
                /\ (\A d : inCache(c, d) => d = v) /\ \A d : ~ leaving(c, d)
            BY <2>8, <2>10, <3>1, <3>2, <3>3, <5>2
          <6> QED
            BY <6>1 DEF Kept
        <5> QED
          BY <5>1, <5>2
      <4>2. \A d : ~ leaving(c, d)'
        BY <2>7, <2>8, <2>9, <2>10, <3>3
      <4>3. \A d : inCache(c, d)' <=> d = v
        BY <2>6, <3>3
      <4> QED
        BY <3>1, <4>1, <4>2, <4>3 DEF Kept
    <3>4. CASE c # c0 /\ replaced /\ c = b.cluster_no
      <4>0. PICK x, y : x = expected[j] /\ y = b.data
        OBVIOUS
      <4>1. expected'[j] = x /\ inCache(c, y) /\ Kept(c, x)
        BY <2>9, <3>1, <3>2, <3>4, <4>0
      <4>2. y = x /\ \A d : ~ leaving(c, d)
        BY <4>1 DEF Kept
      <4>3. \A d : ~ inCache(c, d)'
        BY <2>6, <3>4
      <4>4. b.modified \/ disk[c] = y
        BY <2>8, <2>10, <3>4, <4>0
      <4>5. \A d : leaving(c, d)' <=> b.modified /\ d = y
        BY <2>7, <3>4, <4>0, <4>2
      <4> QED
        BY <2>2, <3>1, <4>1, <4>2, <4>3, <4>4, <4>5 DEF Kept
    <3>5. CASE c # c0 /\ ~ (replaced /\ c = b.cluster_no)
      <4>1. expected'[j] = expected[j] /\ \A d : inCache(c, d)' <=> inCache(c, d)
        BY <2>6, <3>2, <3>5
      <4>2. \A d : leaving(c, d)' <=> leaving(c, d)
        BY <2>7, <3>5
      <4> QED
        BY <2>2, <3>1, <4>1, <4>2 DEF Kept
    <3> QED
      BY <3>3, <3>4, <3>5
  <2>11. \A w \in Threads : reg'[w].cluster = reg[w].cluster
    BY <2>1, TypeFacts DEF Regs
  <2> QED
    BY <1>8, <2>10, <2>11
<1> QED
  BY <1>9, <1>10

\* What a thread has in its hands reaches the device.
LEMMA PutOutKept ==
    ASSUME TypeInv, SurviveInv, NEW t \in Threads, putOut(t),
           UNCHANGED <<table, entry, expected, cache, damage>>,
           pc'[t] \notin {"fetch", "keep", "copy"},
           \A u \in Threads : u # t => pc'[u] = pc[u] /\ op'[u] = op[u]
    PROVE  KeptInv'
<1>1. /\ disk' = [c \in DOMAIN disk |->
                    IF \E i \in DOMAIN out(t) : out(t)[i].cluster_no = c
                    THEN out(t)[1].data ELSE disk[c]]
      /\ reg' = [reg EXCEPT ![t] = NoReg]
  BY DEF putOut
<1>2. DOMAIN disk = 0 .. EOC /\ chain' = chain
  BY TypeFacts, ChainFrame
<1>3. reg'[t].out = <<>> /\ \A u \in Threads : u # t => reg'[u] = reg[u]
  BY <1>1, TypeFacts, NothingOut
<1>4. \A c, d : inCache(c, d)' <=> inCache(c, d)
  BY DEF inCache
<1>5. ASSUME damage' = {}, NEW u \in Threads PROVE aimed(u)'
  BY <1>3, <1>5, StillAimed, NotAiming DEF SurviveInv, KeptInv
<1>6. CASE out(t) = <<>>
  <2>1. \A u \in Threads : reg'[u].out = reg[u].out
    BY <1>3, <1>6 DEF out
  <2>2. disk' = disk
    <3>1. disk' = [c \in DOMAIN disk |-> disk[c]]
      BY <1>1, <1>6
    <3> QED
      BY <3>1, TypeFacts
  <2> QED
    BY <1>4, <1>5, <2>1, <2>2, SameOut, SameKept DEF SurviveInv
<1>7. CASE out(t) # <<>>
  <2>1. PICK b \in Blocks : out(t) = <<b>>
    BY <1>7 DEF SurviveInv, HandsInv, hands
  <2>2. PICK x, y : x = b.cluster_no /\ y = b.data
    OBVIOUS
  <2>3. DOMAIN out(t) = {1} /\ out(t)[1] = b
    BY <2>1
  <2>4. \A c \in 0 .. EOC : disk'[c] = IF c = x THEN y ELSE disk[c]
    BY <1>1, <1>2, <2>2, <2>3
  <2>5. \A c, d : leaving(c, d) <=> leaving(c, d)' \/ (c = x /\ d = y)
    BY <1>3, <2>2, <2>3 DEF leaving, out
  <2>6. ASSUME damage' = {}, NEW j \in 0 .. entry'.size - 1
        PROVE  Kept(chain[j + 1], expected[j])'
    <3>0. PICK c, v : c = chain[j + 1] /\ v = expected[j]
      OBVIOUS
    <3>1. Kept(c, v) /\ chain'[j + 1] = c /\ expected'[j] = v
      BY <1>2, <2>6, <3>0 DEF SurviveInv, KeptInv
    <3>2. c \in 0 .. EOC
      <4>1. entry.size \in 0 .. MaxSize
        BY ChainDistinct DEF SurviveInv
      <4>2. j + 1 \in 1 .. entry.size
        BY <2>6, <4>1, CacheAssumption
      <4> QED
        BY <3>0, <4>2, ChainDistinct DEF SurviveInv
    <3>3. CASE c = x
      <4>1. leaving(c, y) /\ y = v /\ disk'[c] = v
        BY <2>4, <2>5, <3>1, <3>2, <3>3 DEF Kept
      <4> QED
        BY <1>4, <2>5, <3>1, <4>1 DEF Kept
    <3>4. CASE c # x
      BY <1>4, <2>4, <2>5, <3>1, <3>2, <3>4 DEF Kept
    <3> QED
      BY <3>3, <3>4
  <2> QED
    BY <1>5, <2>6 DEF SurviveInv, KeptInv
<1> QED
  BY <1>6, <1>7

\* The first block leaves the cache, into the hands of the thread if it has the
\* mark; without it the device had its content.
LEMMA FlushTakeKept ==
    ASSUME TypeInv, CacheInv, SurviveInv, NEW t \in Threads, FlushTake(t)
    PROVE  KeptInv'
<1> DEFINE b == Head(cache)
           q == IF b.modified THEN <<b>> ELSE <<>>
<1>1. /\ pc[t] \in flushing /\ reg[t].out = <<>> /\ cache # <<>> /\ cache' = Tail(cache)
      /\ reg' = [u \in Threads |->
                    IF u = t THEN [reg[t] EXCEPT !.out = q]
                    ELSE [reg[u] EXCEPT !.index = IF @ > 0 THEN @ - 1 ELSE 0]]
      /\ damage' = damage \cup (IF dropped(b) THEN {"unmarked"} ELSE {})
      /\ UNCHANGED <<table, entry, disk, pc, op, expected>>
  BY DEF FlushTake, because, fileVars, out
<1> SUFFICES ASSUME damage' = {}
             PROVE  /\ \A u \in Threads : aimed(u)'
                    /\ \A j \in 0 .. entry'.size - 1 : Kept(chain[j + 1], expected[j])'
  BY <1>1 DEF SurviveInv, KeptInv
<1>2. cache \in Seq(Blocks)
  BY TypeFacts
<1>3. /\ Tail(cache) \in Seq(Blocks) /\ b = cache[1] /\ Len(Tail(cache)) = Len(cache) - 1
      /\ \A i \in 1 .. Len(Tail(cache)) : Tail(cache)[i] = cache[i + 1]
  BY <1>1, <1>2, HeadTailProperties
<1> HIDE DEF b
<1> DEFINE n == Len(cache)
<1>4. n \in Nat /\ n # 0 /\ DOMAIN cache = 1 .. n /\ DOMAIN cache' = 1 .. n - 1
      /\ \A i \in 1 .. n - 1 : cache'[i] = cache[i + 1]
  BY <1>1, <1>2, <1>3, LenProperties, EmptySeq
<1> HIDE DEF n
<1>5. \A i \in 1 .. n : i = 1 \/ (i - 1 \in 1 .. n - 1 /\ (i - 1) + 1 = i)
  BY <1>4
<1>6. \A i \in 1 .. n - 1 : i + 1 \in 1 .. n /\ i + 1 # 1
  BY <1>4
<1>7. 1 \in 1 .. n /\ \A i, j \in 1 .. n : cache[i].cluster_no = cache[j].cluster_no => i = j
  <2>1. \A i, j \in DOMAIN cache : cache[i].cluster_no = cache[j].cluster_no => i = j
    BY <1>1, ShapeFacts
  <2> QED
    BY <1>4, <2>1
<1>8. \A c, d : inCache(c, d)' <=> c # b.cluster_no /\ inCache(c, d)
  <2> SUFFICES ASSUME NEW c, NEW d
               PROVE  inCache(c, d)' <=> c # b.cluster_no /\ inCache(c, d)
    OBVIOUS
  <2>1. ASSUME NEW i \in 1 .. n - 1, cache'[i].cluster_no = c, cache'[i].data = d
        PROVE  c # b.cluster_no /\ inCache(c, d)
    <3>1. cache'[i] = cache[i + 1] /\ i + 1 \in 1 .. n /\ i + 1 # 1
      BY <1>4, <1>6
    <3> QED
      BY <1>3, <1>4, <1>7, <2>1, <3>1 DEF inCache
  <2>2. ASSUME NEW i \in 1 .. n, cache[i].cluster_no = c, cache[i].data = d, c # b.cluster_no
        PROVE  \E j \in 1 .. n - 1 : cache'[j].cluster_no = c /\ cache'[j].data = d
    <3>1. i # 1
      BY <1>3, <2>2
    <3>2. i - 1 \in 1 .. n - 1 /\ cache'[i - 1] = cache[i]
      BY <1>4, <1>5, <3>1
    <3> QED
      BY <2>2, <3>2
  <2> QED
    BY <1>4, <2>1, <2>2 DEF inCache
<1>9. inCache(b.cluster_no, b.data) /\ \A d : inCache(b.cluster_no, d) => d = b.data
  BY <1>3, <1>4, <1>7 DEF inCache
<1>10. \A c, d : leaving(c, d)' <=>
            leaving(c, d) \/ (b.modified /\ c = b.cluster_no /\ d = b.data)
  <2>1. \A u \in Threads : reg'[u].out = IF u = t THEN q ELSE reg[u].out
    <3> HIDE DEF q
    <3> QED
      BY <1>1, TypeFacts DEF Regs
  <2>2. CASE b.modified
    <3>1. q = <<b>> /\ DOMAIN q = {1} /\ q[1] = b
      BY <2>2
    <3> HIDE DEF q
    <3> QED
      BY <1>1, <2>1, <2>2, <3>1 DEF leaving, out
  <2>3. CASE ~ b.modified
    <3>1. q = <<>>
      BY <2>3
    <3> HIDE DEF q
    <3> QED
      BY <1>1, <2>1, <2>3, <3>1 DEF leaving, out
  <2> QED
    BY <2>2, <2>3
<1>11. damage' = {} => damage = {} /\ (b.modified \/ b.data = disk[b.cluster_no])
  BY <1>1 DEF dropped
<1>12. chain' = chain
  BY <1>1, ChainFrame
<1>13. ASSUME damage' = {}, NEW j \in 0 .. entry'.size - 1
       PROVE  Kept(chain[j + 1], expected[j])'
  <2>0. PICK c, v : c = chain[j + 1] /\ v = expected[j]
    OBVIOUS
  <2>1. Kept(c, v) /\ chain'[j + 1] = c /\ expected'[j] = v
    BY <1>1, <1>11, <1>12, <1>13, <2>0 DEF SurviveInv, KeptInv
  <2>2. CASE c = b.cluster_no
    <3>0. PICK y : y = b.data
      OBVIOUS
    <3>1. y = v /\ \A d : ~ leaving(c, d)
      BY <1>9, <2>1, <2>2, <3>0 DEF Kept
    <3>2. \A d : ~ inCache(c, d)'
      BY <1>8, <2>2
    <3>3. \A d : leaving(c, d)' <=> b.modified /\ d = y
      BY <1>10, <2>2, <3>0, <3>1
    <3>4. b.modified \/ disk'[c] = y
      BY <1>1, <1>11, <1>13, <2>2, <3>0
    <3> QED
      BY <2>1, <3>1, <3>2, <3>3, <3>4 DEF Kept
  <2>3. CASE c # b.cluster_no
    <3>1. (\A d : inCache(c, d)' <=> inCache(c, d)) /\ \A d : leaving(c, d)' <=> leaving(c, d)
      BY <1>8, <1>10, <2>3
    <3> QED
      BY <1>1, <2>1, <3>1 DEF Kept
  <2> QED
    BY <2>2, <2>3
<1>14. \A u \in Threads : reg'[u].cluster = reg[u].cluster
  BY <1>1, TypeFacts DEF Regs
<1>15. ASSUME damage' = {}, NEW u \in Threads PROVE aimed(u)'
  BY <1>1, <1>11, <1>14, <1>15, StillAimed DEF SurviveInv, KeptInv
<1> QED
  BY <1>13, <1>15

\* Overlapping calls are a mishap of their own.
LEMMA OverlapKept == ASSUME TypeInv, SurviveInv, NEW t \in Threads, Overlap(t) PROVE KeptInv'
<1>1. damage' # {} /\ expected' = IF op[t].kind = "write" THEN written(t) ELSE expected
  BY DEF Overlap
<1>2. expected' = [k \in 0 .. MaxSize - 1 |-> expected'[k]]
  BY <1>1 DEF written, SurviveInv, KeptInv
<1> QED
  BY <1>1, <1>2 DEF KeptInv

LEMMA NextKept == TypeInv /\ CacheInv /\ SurviveInv /\ [Next]_vars => KeptInv'
<1> SUFFICES ASSUME TypeInv, CacheInv, SurviveInv, [Next]_vars PROVE KeptInv'
  OBVIOUS
<1>0. damage \subseteq damage'
  BY Damages
<1>1. ASSUME NEW t \in Threads, Truncate(t) PROVE KeptInv'
  <2>1. /\ pc[t] \in {"truncate", "truncatePath", "truncateAside"}
        /\ fat32_truncate(op[t].offset) /\ UNCHANGED <<cache, reg>>
        /\ \E place \in {"open", "closed"} : goto(t, place)
    BY <1>1 DEF Truncate
  <2>2. op[t].kind = "truncate" /\ op[t].offset \in 0 .. MaxSize
    BY <2>1, TypeFacts DEF Kinds, fits, Calls
  <2> QED
    BY <2>1, <2>2, TruncateKept
<1>2. ASSUME NEW t \in Threads, WriteLock(t) PROVE KeptInv'
  <2>1. pc[t] = "write" /\ goto(t, "writeLookup") /\ UNCHANGED <<cache, reg>>
    BY <1>2 DEF WriteLock, at
  <2>2. op[t].kind = "write" /\ op[t].offset + 1 \in 0 .. MaxSize
    BY <2>1, WriteSize
  <2>3. CASE fat32_truncate(op[t].offset + 1)
    BY <2>1, <2>2, <2>3, TruncateKept
  <2>4. CASE UNCHANGED <<fileVars, record, expected, damage>>
    <3>1. pc'[t] = "writeLookup" /\ \A u \in Threads : u # t => pc'[u] = pc[u] /\ op'[u] = op[u]
      BY <2>1, GotoFacts
    <3>2. ASSUME damage' = {}, NEW u \in Threads PROVE aimed(u)'
      BY <2>1, <2>4, <3>1, <3>2, StillAimed, NotAiming DEF SurviveInv, KeptInv, fileVars
    <3>3. \A c, d : inCache(c, d)' <=> inCache(c, d)
      BY <2>1 DEF inCache
    <3>4. \A c, d : leaving(c, d)' <=> leaving(c, d)
      BY <2>1, SameOut
    <3> QED
      BY <2>4, <3>2, <3>3, <3>4, SameKept DEF SurviveInv, fileVars
  <2> QED
    BY <1>2, <2>3, <2>4 DEF WriteLock
<1>3. ASSUME NEW t \in Threads, PutOut(t) PROVE KeptInv'
  <2>1. /\ putOut(t) /\ \E place : goto(t, place) /\ place \in {"open", "unlock"}
        /\ UNCHANGED <<table, entry, expected, cache, damage>>
    BY <1>3 DEF PutOut
  <2> QED
    BY <2>1, GotoFacts, PutOutKept
<1>4. ASSUME NEW t \in Threads, FlushWrite(t) PROVE KeptInv'
  <2>1. /\ putOut(t) /\ pc[t] \in flushing
        /\ UNCHANGED <<table, entry, expected, cache, damage, pc, op>>
    BY <1>4 DEF FlushWrite
  <2> QED
    BY <2>1, PutOutKept DEF flushing
<1>5. CASE Recreate
  <2>1. entry'.size = 0 /\ expected' = [k \in DOMAIN expected |-> 0] /\ UNCHANGED pc
        /\ \A t \in Threads : pc[t] = "closed"
    BY <1>5 DEF Recreate
  <2>2. \A t \in Threads : aimed(t)'
    BY <2>1, NotAiming
  <2>3. expected' = [k \in 0 .. MaxSize - 1 |-> expected'[k]]
    BY <2>1 DEF SurviveInv, KeptInv
  <2>4. entry'.size - 1 = -1 /\ 0 .. -1 = {}
    BY <2>1
  <2> QED
    BY <2>2, <2>3, <2>4 DEF KeptInv
<1>6. CASE UNCHANGED vars
  <2>1. \A c, d : inCache(c, d)' <=> inCache(c, d)
    BY <1>6 DEF vars, inCache
  <2>2. \A c, d : leaving(c, d)' <=> leaving(c, d)
    BY <1>6, SameOut DEF vars
  <2>3. ASSUME damage' = {}, NEW u \in Threads PROVE aimed(u)'
    BY <1>6, <2>3, StillAimed DEF vars, fileVars, SurviveInv, KeptInv
  <2> QED
    BY <1>6, <2>1, <2>2, <2>3, SameKept DEF vars, fileVars, SurviveInv
<1> QED
  BY <1>0, <1>1, <1>2, <1>3, <1>4, <1>5, <1>6, QuietKept, LookupKept, WriteCopyKept, KeepKept,
     FlushTakeKept, OverlapKept, TickKept DEF Next

LEMMA KeptSurvives == ASSUME TypeInv, SurviveInv PROVE WritesSurvive
<1> SUFFICES ASSUME damage = {}, NEW k \in 0 .. entry.size - 1
             PROVE  LET c == chain[k + 1]
                    IN  \/ \E i \in cached(c) : cache[i].data = expected[k]
                        \/ cached(c) = {} /\ (disk[c] = expected[k] \/ leaving(c, expected[k]))
  BY DEF WritesSurvive
<1> DEFINE c == chain[k + 1]
           v == expected[k]
<1>1. Kept(c, v)
  BY DEF SurviveInv, KeptInv
<1> HIDE DEF c, v
<1>2. CASE cached(c) # {}
  <2>1. PICK i \in cached(c) : TRUE
    BY <1>2
  <2>2. cache[i].data = v
    BY <1>1, <2>1 DEF Kept, inCache, cached
  <2> QED
    BY <2>1, <2>2 DEF c, v
<1>3. CASE cached(c) = {}
  <2>1. \A d : ~ inCache(c, d)
    BY <1>3, AbsentBlock
  <2>2. disk[c] = v \/ leaving(c, v)
    BY <1>1, <2>1 DEF Kept
  <2> QED
    BY <1>3, <2>2 DEF c, v
<1> QED
  BY <1>2, <1>3

\* What users write is never lost between the cache, the threads that carry
\* blocks and the device (file_cache.c:57-112, pfs.c read, write and flush),
\* whatever the number of threads, the size of the file and of the cache and the
\* order of their steps, but for the mishaps the model names: a block of a
\* cluster that a truncate gave away, a read that brings in old content, a block
\* without its mark, a search led astray by an old first cluster, a block
\* replaced or freed under a writer, a record that outlived its file, two records
\* or two opens at once, and calls that overlap on the list of blocks.
THEOREM WritesAreKept == Spec => []WritesSurvive
<1>1. Init => SurviveInv
  BY InitChain, InitHands, InitKept DEF SurviveInv, FoundInv, Init
<1>2. TypeInv /\ CacheInv /\ SurviveInv /\ [Next]_vars => SurviveInv'
  BY NextType, NextChain, NextHands, NextFound, NextKept DEF SurviveInv
<1>3. TypeInv /\ SurviveInv => WritesSurvive
  BY KeptSurvives
<1> QED
  BY InitType, NextType, InitCache, NextCache, <1>1, <1>2, <1>3, PTL DEF Spec
=============================================================================
