---------------------------- MODULE PRAID_proofs ----------------------------
(***************************************************************************)
(* For any number of disks, PFS connections and requests, six inductive    *)
(* invariants, each over the ones before it:                               *)
(*   ListInv    the list of the disks, and PPD_COUNT that covers it;       *)
(*   TypeInv    types, and the requests that nodes, threads and disks name;*)
(*   AnswerInv  a request answered has no node, and one answer if no other *)
(*              thread was in request_take with it (AtMostOneAnswer);      *)
(*   CopyInv    a disk in service got every write that was sent;           *)
(*   CountInv   write_count is what of the disks is still awaited;         *)
(*   MirrorInv  a write that was answered is on the disks that serve.      *)
(* The lemmas under "Which actions change which part of the state" let the *)
(* step of an invariant go over the actions that can disturb it alone.     *)
(***************************************************************************)
EXTENDS PRAID, TLAPS, WellFoundedInduction, FiniteSetTheorems, SequenceTheorems

-----------------------------------------------------------------------------
(* Numbers and sequences.                                                   *)

\* A nonempty set of numbers has a least one: of the sets of its elements up to
\* one of them, take one that contains no other.
LEMMA MinIsLeast ==
    ASSUME NEW S \in SUBSET Nat, S # {}
    PROVE  Min(S) \in S /\ \A y \in S : Min(S) <= y
<1> DEFINE upTo(m) == {y \in S : y <= m}
           sets == {upTo(m) : m \in S}
<1>1. sets \subseteq FiniteSubsetsOf(Nat) /\ sets # {}
  <2>1. ASSUME NEW m \in S PROVE IsFiniteSet(upTo(m)) /\ upTo(m) \in SUBSET Nat
    BY FS_BoundedSetOfNaturals
  <2> QED
    BY <2>1 DEF FiniteSubsetsOf
<1>2. \E T \in sets : \A U \in sets : ~ (<<U, T>> \in StrictSubsetOrdering(Nat))
  <2> HIDE DEF sets
  <2> QED
    BY <1>1, FS_StrictSubsetOrderingWellFounded, WFMin, Zenon
<1>3. PICK m \in S : \A k \in S : ~ (<<upTo(k), upTo(m)>> \in StrictSubsetOrdering(Nat))
  BY <1>2
<1>4. ASSUME NEW k \in S, ~ m <= k PROVE FALSE
  <2>0. m \in Nat /\ k \in Nat /\ k < m /\ \A y \in S : y \in Nat
    BY <1>4
  <2>1. upTo(k) \subseteq upTo(m) /\ m \in upTo(m) /\ m \notin upTo(k)
    <3>1. \A y \in S : y <= k => y <= m
      BY <2>0
    <3>2. m <= m /\ ~ (m <= k)
      BY <2>0
    <3> QED
      BY <3>1, <3>2, Zenon
  <2>2. upTo(k) \in SUBSET Nat /\ upTo(m) \in SUBSET Nat /\ upTo(k) # upTo(m)
    BY <2>1
  <2>3. <<upTo(k), upTo(m)>> \in StrictSubsetOrdering(Nat)
    <3> HIDE DEF upTo
    <3> QED
      BY <2>1, <2>2 DEF StrictSubsetOrdering
  <2> QED
    BY <2>3, <1>3
<1>5. \E x \in S : \A y \in S : x <= y
  BY <1>4
<1> QED
  BY <1>5 DEF Min

\* A nonempty set of numbers with a bound has a greatest one.
LEMMA MaxIsGreatest ==
    ASSUME NEW S \in SUBSET Nat, S # {}, NEW b \in Nat, \A y \in S : y <= b
    PROVE  Max(S) \in S /\ \A y \in S : y <= Max(S)
<1> DEFINE below == {b - y : y \in S}
<1>0. \A y \in S : y \in Nat /\ b - y \in Nat
  OBVIOUS
<1>1. below \in SUBSET Nat /\ below # {}
  BY <1>0
<1>2. Min(below) \in below /\ \A d \in below : Min(below) <= d
  <2> HIDE DEF below
  <2> QED
    BY <1>1, MinIsLeast
<1>3. PICK x \in S : Min(below) = b - x
  BY <1>2
<1>4. \A y \in S : b - y \in below
  OBVIOUS
<1>5. \A y \in S : b - x <= b - y
  BY <1>2, <1>3, <1>4
<1>6. \A y \in S : x >= y
  BY <1>5
<1> QED
  BY <1>6 DEF Max

\* What RemoveAt leaves.
LEMMA RemoveAtProperties ==
    ASSUME NEW T, NEW s \in Seq(T), NEW i \in 1 .. Len(s)
    PROVE  /\ RemoveAt(s, i) \in Seq(T)
           /\ Len(RemoveAt(s, i)) = Len(s) - 1
           /\ \A j \in 1 .. Len(s) - 1 :
                 RemoveAt(s, i)[j] = IF j < i THEN s[j] ELSE s[j + 1]
<1> DEFINE a == SubSeq(s, 1, i - 1)
           b == SubSeq(s, i + 1, Len(s))
<1>0. i \in Nat /\ Len(s) \in Nat /\ i <= Len(s) /\ i >= 1
  OBVIOUS
<1>1. a \in Seq(T) /\ Len(a) = i - 1 /\ \A j \in 1 .. i - 1 : a[j] = s[j]
  BY <1>0, SubSeqProperties
<1>2. b \in Seq(T) /\ Len(b) = Len(s) - i
        /\ \A j \in 1 .. Len(s) - i : b[j] = s[i + j]
  BY <1>0, SubSeqProperties
<1>3. RemoveAt(s, i) = a \o b
  BY Zenon DEF RemoveAt
<1> HIDE DEF a, b
<1>4. /\ a \o b \in Seq(T) /\ Len(a \o b) = Len(s) - 1
      /\ \A j \in 1 .. Len(s) - 1 :
            (a \o b)[j] = IF j <= i - 1 THEN a[j] ELSE b[j - (i - 1)]
  <2>1. /\ a \o b \in Seq(T)
        /\ Len(a \o b) = Len(a) + Len(b)
        /\ \A j \in 1 .. Len(a) + Len(b) :
              (a \o b)[j] = IF j <= Len(a) THEN a[j] ELSE b[j - Len(a)]
    BY <1>1, <1>2, ConcatProperties
  <2>2. Len(a) + Len(b) = Len(s) - 1
    BY <1>0, <1>1, <1>2
  <2> QED
    BY <2>1, <2>2, <1>1
<1>5. ASSUME NEW j \in 1 .. Len(s) - 1
      PROVE  (a \o b)[j] = IF j < i THEN s[j] ELSE s[j + 1]
  <2>1. CASE j < i
    BY <2>1, <1>0, <1>1, <1>4
  <2>2. CASE ~ (j < i)
    <3>1. j - (i - 1) \in 1 .. Len(s) - i /\ i + (j - (i - 1)) = j + 1
      BY <2>2, <1>0
    <3> QED
      BY <2>2, <3>1, <1>0, <1>2, <1>4
  <2> QED
    BY <2>1, <2>2
<1> QED
  BY <1>3, <1>4, <1>5
-----------------------------------------------------------------------------
(* The list of the disks and its count.                                     *)

works == {"start", "recv", "test", "take"}

LEMMA InitInv == Init => ListInv
<1> SUFFICES ASSUME Init PROVE ListInv
  OBVIOUS
<1>1. PPD_QUEUE = <<>> /\ PPD_COUNT = 0 /\ loaded = 0 /\ mainPC = "select"
        /\ threadPC = [c \in Conns |-> "none"]
  BY DEF Init
<1>2. IsInjective(PPD_QUEUE) /\ DistinctDisks
  BY <1>1 DEF IsInjective, DistinctDisks
<1> QED
  BY <1>1, <1>2 DEF ListInv, CountCovers, Range

\* A step that leaves the list, the count and its load alone, starts no thread
\* and does not move the main thread in or out of the counting.
LEMMA Frame ==
    ASSUME ListInv,
           UNCHANGED <<PPD_QUEUE, strays, PPD_COUNT, loaded>>,
           DOMAIN threadPC' = Conns,
           \A c \in Conns : threadPC'[c] \in works => threadPC[c] \in works,
           \A c \in Conns : threadPC'[c] = "none" => threadPC[c] = "none",
           \/ /\ UNCHANGED <<mainPC, selected>>
              /\ \A c \in Conns : threadPC[c] = "none" => threadPC'[c] = "none"
           \/ mainPC \notin {"count", "store"} /\ mainPC' \notin {"count", "store"}
    PROVE  ListInv'
<1>1. Range(PPD_QUEUE) \subseteq Conns
  BY DEF ListInv, Range
<1>2. DistinctDisks' /\ CountCovers'
  BY DEF ListInv, DistinctDisks, CountCovers
<1>3. \A c \in Conns : threadPC'[c] \in works => c \in Range(PPD_QUEUE)
  BY DEF ListInv, works
<1>4. mainPC' \in {"count", "store"} =>
          selected' \in Range(PPD_QUEUE) /\ threadPC'[selected'] = "none"
  BY <1>1 DEF ListInv
<1>5. mainPC' = "store" => loaded >= PPD_COUNT
  BY DEF ListInv
<1>6. \A c \in Range(PPD_QUEUE) :
         threadPC'[c] = "none" => mainPC' \in {"count", "store"} /\ c = selected'
  BY <1>1 DEF ListInv
<1> QED
  BY <1>2, <1>3, <1>4, <1>5, <1>6 DEF ListInv, Range, works

\* A step of the main thread outside the counting that touches no thread.
LEMMA MainFrame ==
    ASSUME ListInv,
           UNCHANGED <<PPD_QUEUE, strays, PPD_COUNT, loaded, threadPC>>,
           mainPC \notin {"count", "store"}, mainPC' \notin {"count", "store"}
    PROVE  ListInv'
<1>1. DOMAIN threadPC' = Conns
  BY DEF ListInv
<1> QED
  BY <1>1, Frame

\* A step in which at most one thread goes on.
LEMMA ThreadFrame ==
    ASSUME ListInv, NEW c \in Conns, NEW from, NEW to,
           UNCHANGED <<PPD_QUEUE, strays, PPD_COUNT, loaded, mainPC, selected>>,
           \/ UNCHANGED threadPC
           \/ /\ goes(c, from, to)
              /\ from # "none" /\ to # "none" /\ (to \in works => from \in works)
    PROVE  ListInv'
<1>1. DOMAIN threadPC' = Conns
  BY DEF ListInv, goes
<1>2. \A d \in Conns : threadPC'[d] \in works => threadPC[d] \in works
  BY DEF ListInv, goes
<1>3. \A d \in Conns : threadPC[d] = "none" <=> threadPC'[d] = "none"
  BY DEF ListInv, goes
<1> QED
  BY <1>1, <1>2, <1>3, Frame

-----------------------------------------------------------------------------
(* The four actions that change the list or the count.                      *)

\* A new disk comes last; the handshake has made sure that its id is new, but
\* where its walk began at a freed node.
LEMMA AcceptPPDInv ==
    ASSUME ListInv, NEW c \in Conns, AcceptPPD(c) PROVE ListInv'
<1> USE DEF AcceptPPD, mayConnect, connects, threadVars
<1>1. PPD_QUEUE' \in Seq(Conns) /\ Len(PPD_QUEUE') = Len(PPD_QUEUE) + 1
  BY DEF ListInv
<1>2. \A i \in 1 .. Len(PPD_QUEUE) : PPD_QUEUE'[i] = PPD_QUEUE[i]
  BY DEF ListInv
<1>3. PPD_QUEUE'[Len(PPD_QUEUE) + 1] = c
  BY DEF ListInv
<1>4. \A i \in 1 .. Len(PPD_QUEUE) :
         /\ PPD_QUEUE[i] # c
         /\ c \in strays' \/ DiskOf[PPD_QUEUE[i]] # DiskOf[c]
  <2>1. c \in strays' \/ ~ known(c)
    OBVIOUS
  <2>2. \A i \in 1 .. Len(PPD_QUEUE) : PPD_QUEUE[i] \in Range(PPD_QUEUE)
    BY DEF Range, ListInv
  <2>3. c \notin Range(PPD_QUEUE)
    BY DEF ListInv
  <2> QED
    BY <2>1, <2>2, <2>3 DEF known
<1>5. Range(PPD_QUEUE') = Range(PPD_QUEUE) \cup {c}
  BY <1>1, <1>2, <1>3 DEF Range, ListInv
<1>6. DistinctDisks' /\ IsInjective(PPD_QUEUE')
  <2>0. strays \subseteq strays'
    OBVIOUS
  <2> SUFFICES ASSUME NEW i \in DOMAIN PPD_QUEUE', NEW j \in DOMAIN PPD_QUEUE', i # j
               PROVE  /\ PPD_QUEUE'[i] # PPD_QUEUE'[j]
                      /\ i < j /\ DiskOf[PPD_QUEUE'[i]] = DiskOf[PPD_QUEUE'[j]]
                            => PPD_QUEUE'[j] \in strays'
    BY DEF DistinctDisks, IsInjective
  <2>1. i \in 1 .. Len(PPD_QUEUE) + 1 /\ j \in 1 .. Len(PPD_QUEUE) + 1
    BY <1>1
  <2>2. Len(PPD_QUEUE) \in Nat
    BY DEF ListInv
  <2>3. CASE i \in 1 .. Len(PPD_QUEUE) /\ j \in 1 .. Len(PPD_QUEUE)
    <3>1. PPD_QUEUE'[i] = PPD_QUEUE[i] /\ PPD_QUEUE'[j] = PPD_QUEUE[j]
      BY <1>2, <2>3
    <3> QED
      BY <2>0, <2>3, <3>1 DEF ListInv, DistinctDisks, IsInjective
  <2>4. CASE i = Len(PPD_QUEUE) + 1
    <3>1. j \in 1 .. Len(PPD_QUEUE) /\ ~ (i < j) /\ PPD_QUEUE'[i] = c
            /\ PPD_QUEUE'[j] = PPD_QUEUE[j]
      BY <1>2, <1>3, <2>1, <2>2, <2>4
    <3> QED
      BY <1>4, <3>1
  <2>5. CASE j = Len(PPD_QUEUE) + 1 /\ i # Len(PPD_QUEUE) + 1
    <3>1. i \in 1 .. Len(PPD_QUEUE) /\ PPD_QUEUE'[j] = c /\ PPD_QUEUE'[i] = PPD_QUEUE[i]
      BY <1>2, <1>3, <2>1, <2>2, <2>5
    <3> QED
      BY <1>4, <3>1
  <2> QED
    BY <2>1, <2>2, <2>3, <2>4, <2>5
<1>7. CountCovers'
  BY <1>1 DEF ListInv, CountCovers
<1> QED
  BY <1>1, <1>5, <1>6, <1>7 DEF ListInv

LEMMA LoadCountInv == ASSUME ListInv, LoadCount PROVE ListInv'
<1> USE DEF LoadCount, ppdVars, threadVars, takeVars
<1>1. DistinctDisks' /\ CountCovers'
  BY DEF ListInv, DistinctDisks, CountCovers
<1> QED
  BY <1>1 DEF ListInv

\* The count was not above the loaded value, so what is stored covers the list.
LEMMA StoreCountInv == ASSUME ListInv, StoreCount PROVE ListInv'
<1> USE DEF StoreCount
<1>1. DistinctDisks' /\ CountCovers'
  BY DEF ListInv, DistinctDisks, CountCovers
<1>2. \A c \in Conns : threadPC'[c] \in works => threadPC[c] \in works \/ c = selected
  BY DEF ListInv, works
<1>3. \A c \in Range(PPD_QUEUE) : threadPC'[c] # "none"
  BY DEF ListInv, Range
<1> QED
  BY <1>1, <1>2, <1>3 DEF ListInv, works

\* A disk whose thread works has its node, and it is the one that removePPD
\* takes out.
LEMMA NodeOfDisk ==
    ASSUME ListInv, NEW c \in Conns, NoticeDeath(c)
    PROVE  /\ \E k \in 1 .. Len(PPD_QUEUE) :
                 /\ PPD_QUEUE[k] = c
                 /\ \A j \in 1 .. Len(PPD_QUEUE) - 1 :
                       PPD_QUEUE'[j] = IF j < k THEN PPD_QUEUE[j] ELSE PPD_QUEUE[j + 1]
           /\ PPD_QUEUE' \in Seq(Conns) /\ Len(PPD_QUEUE') = Len(PPD_QUEUE) - 1
           /\ DOMAIN PPD_QUEUE' = 1 .. Len(PPD_QUEUE) - 1
           /\ Range(PPD_QUEUE') = Range(PPD_QUEUE) \ {c}
<1> USE DEF NoticeDeath, mainVars, goes
<1> DEFINE nodes == {i \in DOMAIN PPD_QUEUE : DiskOf[PPD_QUEUE[i]] = DiskOf[c]}
           n == Len(PPD_QUEUE)
           k == Min(nodes)
<1>0. PPD_QUEUE \in Seq(Conns) /\ DOMAIN PPD_QUEUE = 1 .. n /\ n \in Nat
  BY DEF ListInv
<1>2. PICK at \in 1 .. n : PPD_QUEUE[at] = c
  BY DEF ListInv, Range
<1>3. nodes \in SUBSET Nat /\ nodes \subseteq 1 .. n /\ nodes # {}
  BY <1>0, <1>2
<1>4. k \in 1 .. n /\ PPD_QUEUE' = RemoveAt(PPD_QUEUE, k)
  <2>1. k \in nodes
    <3> HIDE DEF nodes
    <3> QED
      BY <1>3, MinIsLeast
  <2> QED
    BY <1>3, <2>1 DEF removePPD
<1>1. k \in 1 .. n /\ PPD_QUEUE[k] = c
  <2> HIDE DEF k, nodes
  <2>1. /\ Len(PPD_QUEUE') = n - 1 /\ DOMAIN PPD_QUEUE' = 1 .. n - 1
        /\ \A j \in 1 .. n - 1 :
              PPD_QUEUE'[j] = IF j < k THEN PPD_QUEUE[j] ELSE PPD_QUEUE[j + 1]
    <3>1. /\ RemoveAt(PPD_QUEUE, k) \in Seq(Conns)
          /\ Len(RemoveAt(PPD_QUEUE, k)) = n - 1
          /\ \A j \in 1 .. n - 1 : RemoveAt(PPD_QUEUE, k)[j]
                                    = IF j < k THEN PPD_QUEUE[j] ELSE PPD_QUEUE[j + 1]
      <4>1. PPD_QUEUE \in Seq(Conns) /\ k \in 1 .. Len(PPD_QUEUE)
        BY <1>0, <1>4
      <4> HIDE DEF n
      <4> QED
        BY <4>1, RemoveAtProperties DEF n
    <3> QED
      BY <1>4, <3>1
  <2>2. \A j \in 1 .. n - 1 : PPD_QUEUE'[j] # c
    <3>1. c \notin Range(PPD_QUEUE')
      OBVIOUS
    <3> QED
      BY <2>1, <3>1 DEF Range
  <2>3. ASSUME at < k PROVE FALSE
    <3>1. at \in 1 .. n - 1 /\ PPD_QUEUE'[at] = PPD_QUEUE[at]
      BY <1>0, <1>4, <2>1, <2>3
    <3> QED
      BY <1>2, <2>2, <3>1
  <2>4. ASSUME at > k PROVE FALSE
    <3>1. at - 1 \in 1 .. n - 1 /\ (at - 1) + 1 = at /\ ~ (at - 1 < k)
      BY <1>0, <1>4, <2>4
    <3>2. PPD_QUEUE'[at - 1] = PPD_QUEUE[at]
      BY <2>1, <3>1
    <3> QED
      BY <1>2, <2>2, <3>1, <3>2
  <2>5. at = k
    BY <1>0, <1>4, <2>3, <2>4
  <2> QED
    BY <1>2, <1>4, <2>5
<1> HIDE DEF k
<1>5. n \in Nat /\ n >= 1
  BY <1>1 DEF ListInv
<1>6. PPD_QUEUE' \in Seq(Conns) /\ Len(PPD_QUEUE') = n - 1
        /\ DOMAIN PPD_QUEUE' = 1 .. n - 1
        /\ \A j \in 1 .. n - 1 :
              PPD_QUEUE'[j] = IF j < k THEN PPD_QUEUE[j] ELSE PPD_QUEUE[j + 1]
  <2>1. PPD_QUEUE \in Seq(Conns) /\ k \in 1 .. Len(PPD_QUEUE)
    BY <1>1 DEF ListInv
  <2>2. /\ RemoveAt(PPD_QUEUE, k) \in Seq(Conns)
        /\ Len(RemoveAt(PPD_QUEUE, k)) = n - 1
        /\ \A j \in 1 .. n - 1 : RemoveAt(PPD_QUEUE, k)[j]
                                  = IF j < k THEN PPD_QUEUE[j] ELSE PPD_QUEUE[j + 1]
    BY <2>1, RemoveAtProperties
  <2>3. DOMAIN RemoveAt(PPD_QUEUE, k) = 1 .. n - 1
    BY <2>2
  <2> QED
    BY <2>2, <2>3, <1>4, Zenon
<1>7. \A d \in Range(PPD_QUEUE) : d # c => d \in Range(PPD_QUEUE')
  <2> SUFFICES ASSUME NEW i \in 1 .. n, PPD_QUEUE[i] # c
               PROVE  PPD_QUEUE[i] \in Range(PPD_QUEUE')
    BY DEF Range, ListInv
  <2>1. CASE i < k
    <3>1. i \in 1 .. n - 1 /\ PPD_QUEUE'[i] = PPD_QUEUE[i]
      BY <2>1, <1>1, <1>5, <1>6
    <3> QED
      BY <3>1, <1>6 DEF Range
  <2>2. CASE i > k
    <3>1. i - 1 \in 1 .. n - 1 /\ (i - 1) + 1 = i /\ ~ (i - 1 < k)
      BY <2>2, <1>1, <1>5
    <3>2. PPD_QUEUE'[i - 1] = PPD_QUEUE[i]
      BY <3>1, <1>6
    <3> QED
      BY <3>1, <3>2, <1>6 DEF Range
  <2> QED
    BY <2>1, <2>2, <1>1
<1>8. ASSUME NEW j \in 1 .. n - 1 PROVE PPD_QUEUE'[j] \in Range(PPD_QUEUE) /\ PPD_QUEUE'[j] # c
  <2>1. j \in 1 .. n /\ j + 1 \in 1 .. n /\ DOMAIN PPD_QUEUE = 1 .. n
    BY <1>5 DEF ListInv
  <2>2. \A i \in 1 .. n : PPD_QUEUE[i] = c => i = k
    BY <1>1 DEF ListInv, IsInjective
  <2>3. \A i \in 1 .. n : i # k => PPD_QUEUE[i] \in Range(PPD_QUEUE) /\ PPD_QUEUE[i] # c
    BY <2>1, <2>2 DEF Range
  <2>4. CASE j < k
    <3>1. PPD_QUEUE'[j] = PPD_QUEUE[j] /\ j # k
      BY <1>1, <1>5, <1>6, <2>4
    <3> QED
      BY <2>1, <2>3, <3>1
  <2>5. CASE ~ (j < k)
    <3>1. PPD_QUEUE'[j] = PPD_QUEUE[j + 1] /\ j + 1 # k
      BY <1>5, <1>6, <2>5
    <3> QED
      BY <2>1, <2>3, <3>1
  <2> QED
    BY <2>4, <2>5
<1>9. Range(PPD_QUEUE') = Range(PPD_QUEUE) \ {c}
  <2>1. Range(PPD_QUEUE') = {PPD_QUEUE'[j] : j \in 1 .. n - 1}
    BY <1>6, Zenon DEF Range
  <2>2. \A d \in Range(PPD_QUEUE') : d \in Range(PPD_QUEUE) /\ d # c
    BY <1>8, <2>1
  <2> QED
    BY <1>7, <2>2
<1> HIDE DEF n
<1> QED
  BY <1>1, <1>6, <1>9 DEF n

\* The list is one shorter and so is the count.
LEMMA NoticeDeathInv ==
    ASSUME ListInv, NEW c \in Conns, NoticeDeath(c) PROVE ListInv'
<1> USE DEF NoticeDeath, mainVars, goes
<1> DEFINE n == Len(PPD_QUEUE)
<1>1. PICK k \in 1 .. n :
         /\ PPD_QUEUE[k] = c
         /\ \A j \in 1 .. n - 1 :
               PPD_QUEUE'[j] = IF j < k THEN PPD_QUEUE[j] ELSE PPD_QUEUE[j + 1]
  BY NodeOfDisk
<1>5. n \in Nat /\ n >= 1
  BY <1>1 DEF ListInv
<1>6. PPD_QUEUE' \in Seq(Conns) /\ Len(PPD_QUEUE') = n - 1
        /\ DOMAIN PPD_QUEUE' = 1 .. n - 1
        /\ \A j \in 1 .. n - 1 :
              PPD_QUEUE'[j] = IF j < k THEN PPD_QUEUE[j] ELSE PPD_QUEUE[j + 1]
  BY <1>1, NodeOfDisk
<1>7. DistinctDisks' /\ IsInjective(PPD_QUEUE')
  <2>1. /\ \A i, j \in 1 .. n : i < j /\ DiskOf[PPD_QUEUE[i]] = DiskOf[PPD_QUEUE[j]]
                                => PPD_QUEUE[j] \in strays
        /\ \A i, j \in 1 .. n : PPD_QUEUE[i] = PPD_QUEUE[j] => i = j
    BY DEF ListInv, DistinctDisks, IsInjective
  <2> SUFFICES ASSUME NEW i \in 1 .. n - 1, NEW j \in 1 .. n - 1
               PROVE  /\ i < j /\ DiskOf[PPD_QUEUE'[i]] = DiskOf[PPD_QUEUE'[j]]
                            => PPD_QUEUE'[j] \in strays
                      /\ PPD_QUEUE'[i] = PPD_QUEUE'[j] => i = j
    BY <1>6 DEF DistinctDisks, IsInjective
  <2> DEFINE a == IF i < k THEN i ELSE i + 1
             b == IF j < k THEN j ELSE j + 1
  <2>2. PPD_QUEUE'[i] = PPD_QUEUE[a] /\ PPD_QUEUE'[j] = PPD_QUEUE[b]
    BY <1>6
  <2>3. a \in 1 .. n /\ b \in 1 .. n /\ (i < j => a < b) /\ (a = b => i = j)
    BY <1>5
  <2> HIDE DEF a, b
  <2>4. i < j /\ DiskOf[PPD_QUEUE'[i]] = DiskOf[PPD_QUEUE'[j]] => PPD_QUEUE'[j] \in strays
    <3>1. i < j /\ DiskOf[PPD_QUEUE[a]] = DiskOf[PPD_QUEUE[b]] => PPD_QUEUE[b] \in strays
      BY <2>1, <2>3
    <3> QED
      BY <2>2, <3>1
  <2>5. PPD_QUEUE'[i] = PPD_QUEUE'[j] => i = j
    <3>1. PPD_QUEUE[a] = PPD_QUEUE[b] => i = j
      BY <2>1, <2>3
    <3> QED
      BY <2>2, <3>1
  <2> QED
    BY <2>4, <2>5
<1>8. \A d \in Range(PPD_QUEUE) : d # c => d \in Range(PPD_QUEUE')
  BY NodeOfDisk
<1>9. mainPC \in {"count", "store"} => n >= 2
  BY <1>1 DEF ListInv, Range
<1>10. PPD_COUNT >= 1
  BY <1>5, <1>9 DEF ListInv, CountCovers
<1>11. PPD_COUNT' \in Nat /\ CountCovers'
  BY <1>5, <1>6, <1>10 DEF ListInv, CountCovers
<1>12. \A d \in Conns : threadPC'[d] \in works => threadPC[d] \in works /\ d # c
  BY DEF ListInv, works
<1>13. mainPC' \in {"count", "store"} =>
          selected' \in Range(PPD_QUEUE') /\ threadPC'[selected'] = "none"
  BY <1>8 DEF ListInv
<1>14. \A d \in Range(PPD_QUEUE') :
          threadPC'[d] = "none" => mainPC \in {"count", "store"} /\ d = selected
  <2>1. Range(PPD_QUEUE') \subseteq Range(PPD_QUEUE)
    BY NodeOfDisk
  <2> QED
    BY <2>1 DEF ListInv
<1> QED
  BY <1>6, <1>7, <1>8, <1>10, <1>11, <1>12, <1>13, <1>14 DEF ListInv, works

-----------------------------------------------------------------------------
(* The other actions.                                                       *)

LEMMA MainInv ==
    ASSUME ListInv,
           \/ \E p \in Pfs : AcceptPFS(p) \/ PFSLeaves(p) \/ ReceiveReadWithoutDisks(p)
           \/ \E p \in Pfs, s \in Sectors : ReceiveWrite(p, s) \/ ReceiveRead(p, s)
           \/ Broadcast \/ QueueRead \/ SendRead \/ ReadBegin \/ FollowFreed
    PROVE  ListInv'
<1> USE MainFrame DEF mainVars, ppdVars, threadVars, takeVars, vars
<1>1. ASSUME NEW p \in Pfs, AcceptPFS(p) \/ PFSLeaves(p) PROVE ListInv'
  BY <1>1 DEF AcceptPFS, PFSLeaves
<1>2. ASSUME NEW p \in Pfs, ReceiveReadWithoutDisks(p) PROVE ListInv'
  BY <1>2 DEF ReceiveReadWithoutDisks, Crash
<1>3. ASSUME NEW p \in Pfs, NEW s \in Sectors, ReceiveWrite(p, s) PROVE ListInv'
  BY <1>3 DEF ReceiveWrite, Receive
<1>4. ASSUME NEW p \in Pfs, NEW s \in Sectors, ReceiveRead(p, s) PROVE ListInv'
  BY <1>4 DEF ReceiveRead, Receive
<1>5. CASE Broadcast
  BY <1>5 DEF Broadcast
<1>6. CASE QueueRead
  BY <1>6 DEF QueueRead
<1>7. CASE SendRead
  BY <1>7 DEF SendRead
<1>8. CASE ReadBegin
  BY <1>8 DEF ReadBegin
<1>9. CASE FollowFreed
  BY <1>9 DEF FollowFreed, Crash
<1> QED
  BY <1>1, <1>2, <1>3, <1>4, <1>5, <1>6, <1>7, <1>8, <1>9

\* A refused connection has no node, and no disk is being counted.
LEMMA RefusePPDInv == ASSUME ListInv, NEW c \in Conns, RefusePPD(c) PROVE ListInv'
<1> USE DEF RefusePPD, mayConnect, mainVars, ppdVars
<1>1. DOMAIN threadPC' = Conns
  BY DEF ListInv
<1>2. \A d \in Conns : threadPC'[d] \in works => threadPC[d] \in works
  BY DEF ListInv, works
<1>3. \A d \in Conns : threadPC'[d] = "none" => threadPC[d] = "none"
  BY DEF ListInv
<1> QED
  BY <1>1, <1>2, <1>3, Frame

LEMMA ThreadInv ==
    ASSUME ListInv, NEW c \in Conns, ThreadNext(c) PROVE ListInv'
<1> USE DEF mainVars, ppdVars, threadVars, takeVars, works
<1>1. CASE StartThread(c)
  BY <1>1, ThreadFrame DEF StartThread
<1>2. CASE ReceiveWriteAnswer(c)
  BY <1>2, ThreadFrame DEF ReceiveWriteAnswer
<1>3. CASE TestCount(c)
  BY <1>3, ThreadFrame DEF TestCount
<1>4. CASE TakeWrite(c) \/ TakeAgain(c)
  BY <1>4, ThreadFrame DEF TakeWrite, TakeAgain, endsTake
<1>5. CASE ReceiveReadAnswer(c)
  BY <1>5, ThreadFrame DEF ReceiveReadAnswer
<1>6. CASE FollowNull(c) \/ FreesAnother(c)
  BY <1>6, ThreadFrame DEF FollowNull, FreesAnother, Crash
<1>7. CASE NoticeDeath(c)
  BY <1>7, NoticeDeathInv
<1>8. CASE CheckCount(c)
  BY <1>8, ThreadFrame DEF CheckCount
<1>9. CASE Replan(c)
  BY <1>9, ThreadFrame DEF Replan
<1>10. CASE ReplanWrite(c)
  BY <1>10, ThreadFrame DEF ReplanWrite
<1>11. CASE ReplanRead(c)
  BY <1>11, ThreadFrame DEF ReplanRead
<1>12. CASE ReplanFollowsNull(c)
  BY <1>12, ThreadFrame DEF ReplanFollowsNull, Crash
<1>13. CASE EndReplan(c)
  BY <1>13, ThreadFrame DEF EndReplan
<1>14. CASE Standby(c)
  BY <1>14, ThreadFrame DEF Standby
<1> QED
  BY <1>1, <1>2, <1>3, <1>4, <1>5, <1>6, <1>7, <1>8, <1>9, <1>10, <1>11, <1>12,
     <1>13, <1>14 DEF ThreadNext

LEMMA DiskInv ==
    ASSUME ListInv, NEW c \in Conns, DiskWorks(c) \/ Die(c) PROVE ListInv'
<1> USE DEF mainVars, ppdVars, threadVars, takeVars
<1>1. CASE DiskWorks(c)
  <2>1. PICK i \in DOMAIN pending[c] : Perform(c, i)
    BY <1>1 DEF DiskWorks
  <2> QED
    BY <2>1, ThreadFrame DEF Perform
<1>2. CASE Die(c)
  BY <1>2, ThreadFrame DEF Die, works
<1> QED
  BY <1>1, <1>2

LEMMA StepInv == ListInv /\ [Next]_vars => ListInv'
<1> SUFFICES ASSUME ListInv, [Next]_vars PROVE ListInv'
  OBVIOUS
<1>1. CASE UNCHANGED vars
  <2>1. DOMAIN threadPC' = Conns
    BY <1>1 DEF ListInv, vars, threadVars, takeVars
  <2> QED
    BY <1>1, <2>1, Frame DEF vars, mainVars, ppdVars, threadVars, takeVars
<1>2. CASE Next
  <2>1. CASE MainNext
    BY <2>1, MainInv, RefusePPDInv, AcceptPPDInv, LoadCountInv, StoreCountInv
       DEF MainNext, MainGoesOn
  <2>2. ASSUME NEW c \in Conns, ThreadNext(c) \/ DiskWorks(c) \/ Die(c)
        PROVE  ListInv'
    BY <2>2, ThreadInv, DiskInv
  <2> QED
    BY <1>2, <2>1, <2>2 DEF Next
<1> QED
  BY <1>1, <1>2

-----------------------------------------------------------------------------
(* The theorems.                                                            *)

\* ListInv holds in every behaviour (ppd_queue.c:18-34, 134-163).
THEOREM Invariance == Spec => []ListInv
<1> QED
  BY InitInv, StepInv, PTL DEF Spec

\* However many disks come, repeat an id and are lost, a disk has the id of one
\* before it only if its handshake walked from a freed node (praid.c:224-258,
\* ppd_queue.c:95-112).
THEOREM DisksAreDistinct == Spec => []DistinctDisks
<1>1. ListInv => DistinctDisks
  BY DEF ListInv
<1> QED
  BY <1>1, Invariance, PTL

\* PPD_COUNT covers the list in spite of the increment outside the mutex
\* (ppd_queue.c:32), and it never falls below zero.
THEOREM CountIsEnough == Spec => [](CountCovers /\ PPD_COUNT \in Nat)
<1>1. ListInv => CountCovers /\ PPD_COUNT \in Nat
  BY DEF ListInv
<1> QED
  BY <1>1, Invariance, PTL

-----------------------------------------------------------------------------
(* Which actions change which part of the state.                            *)

LEMMA MainStep ==
    ASSUME [Next]_vars
    PROVE  \/ UNCHANGED mainVars
           \/ Broadcast \/ QueueRead \/ SendRead \/ LoadCount \/ StoreCount
           \/ \E p \in Pfs, s \in Sectors : \/ ReceiveWrite(p, s)
                                            \/ ReceiveRead(p, s)
           \/ ReadBegin
           \/ \E c \in Conns : RefusePPD(c) \/ AcceptPPD(c)
<1>1. ASSUME NEW p \in Pfs, AcceptPFS(p) \/ PFSLeaves(p) \/ ReceiveReadWithoutDisks(p)
      PROVE  UNCHANGED mainVars
  BY <1>1 DEF AcceptPFS, PFSLeaves, ReceiveReadWithoutDisks, Crash
<1>2. ASSUME NEW c \in Conns,
             StartThread(c) \/ ReceiveWriteAnswer(c) \/ TestCount(c)
             \/ TakeWrite(c) \/ TakeAgain(c) \/ ReceiveReadAnswer(c)
      PROVE  UNCHANGED mainVars
  BY <1>2 DEF StartThread, ReceiveWriteAnswer, TestCount, TakeWrite, TakeAgain, endsTake,
     ReceiveReadAnswer
<1>3. ASSUME NEW c \in Conns,
             FollowNull(c) \/ FreesAnother(c) \/ NoticeDeath(c) \/ CheckCount(c) \/ Replan(c)
             \/ ReplanWrite(c) \/ ReplanRead(c)
      PROVE  UNCHANGED mainVars
  BY <1>3 DEF FollowNull, FreesAnother, NoticeDeath, CheckCount, Replan, ReplanWrite,
     ReplanRead, Crash
<1>4. ASSUME NEW c \in Conns,
             ReplanFollowsNull(c) \/ EndReplan(c) \/ Standby(c) \/ DiskWorks(c)
             \/ Die(c)
      PROVE  UNCHANGED mainVars
  BY <1>4 DEF ReplanFollowsNull, EndReplan, Standby, DiskWorks, Die, Perform,
     Crash
<1>5. CASE FollowFreed
  BY <1>5 DEF FollowFreed, Crash
<1> QED
  BY <1>5, <1>1, <1>2, <1>3, <1>4 DEF Next, MainNext, MainGoesOn, ThreadNext, vars

LEMMA ListStep ==
    ASSUME [Next]_vars
    PROVE  \/ UNCHANGED ppdVars
           \/ Broadcast \/ StoreCount
           \/ \E p \in Pfs, s \in Sectors : ReceiveRead(p, s)
           \/ \E c \in Conns : \/ AcceptPPD(c) \/ StartThread(c)
                               \/ NoticeDeath(c) \/ ReplanRead(c)
<1>1. ASSUME NEW p \in Pfs, AcceptPFS(p) \/ PFSLeaves(p) \/ ReceiveReadWithoutDisks(p)
      PROVE  UNCHANGED ppdVars
  BY <1>1 DEF AcceptPFS, PFSLeaves, ReceiveReadWithoutDisks, Crash
<1>2. ASSUME NEW p \in Pfs, NEW s \in Sectors, ReceiveWrite(p, s)
      PROVE  UNCHANGED ppdVars
  BY <1>2 DEF ReceiveWrite, Receive, ppdVars
<1>3. CASE QueueRead \/ SendRead \/ LoadCount \/ ReadBegin \/ FollowFreed
  BY <1>3 DEF QueueRead, SendRead, LoadCount, ReadBegin, FollowFreed, Crash
<1>4. ASSUME NEW c \in Conns,
             RefusePPD(c) \/ ReceiveWriteAnswer(c) \/ TestCount(c)
             \/ TakeWrite(c) \/ TakeAgain(c) \/ ReceiveReadAnswer(c)
             \/ FollowNull(c) \/ FreesAnother(c)
      PROVE  UNCHANGED ppdVars
  BY <1>4 DEF RefusePPD, ReceiveWriteAnswer, TestCount, TakeWrite,
     TakeAgain, endsTake, ReceiveReadAnswer, FollowNull, FreesAnother, Crash
<1>5. ASSUME NEW c \in Conns,
             CheckCount(c) \/ Replan(c) \/ ReplanWrite(c)
             \/ ReplanFollowsNull(c) \/ EndReplan(c) \/ Standby(c)
      PROVE  UNCHANGED ppdVars
  BY <1>5 DEF CheckCount, Replan, ReplanWrite, ReplanFollowsNull, EndReplan,
     Standby, Crash
<1>6. ASSUME NEW c \in Conns,
             DiskWorks(c) \/ Die(c)
      PROVE  UNCHANGED ppdVars
  BY <1>6 DEF DiskWorks, Die, Perform
<1> QED
  BY <1>1, <1>2, <1>3, <1>4, <1>5, <1>6 DEF Next, MainNext, MainGoesOn, ThreadNext, vars

LEMMA QueueStep ==
    ASSUME [Next]_vars
    PROVE  \/ UNCHANGED REQUEST_QUEUE
           \/ QueueRead
           \/ \E p \in Pfs, s \in Sectors : ReceiveWrite(p, s)
           \/ \E c \in Conns : \/ ReceiveWriteAnswer(c) \/ TakeWrite(c)
                               \/ TakeAgain(c)
                               \/ ReceiveReadAnswer(c) \/ ReplanWrite(c)
                               \/ Standby(c)
<1>1. ASSUME NEW p \in Pfs, AcceptPFS(p) \/ PFSLeaves(p) \/ ReceiveReadWithoutDisks(p)
      PROVE  UNCHANGED REQUEST_QUEUE
  BY <1>1 DEF AcceptPFS, PFSLeaves, ReceiveReadWithoutDisks, Crash
<1>2. ASSUME NEW p \in Pfs, NEW s \in Sectors, ReceiveRead(p, s)
      PROVE  UNCHANGED REQUEST_QUEUE
  BY <1>2 DEF ReceiveRead, Receive
<1>3. CASE Broadcast \/ SendRead \/ LoadCount \/ StoreCount \/ ReadBegin \/ FollowFreed
  BY <1>3 DEF Broadcast, SendRead, LoadCount, StoreCount, ReadBegin, FollowFreed, Crash
<1>4. ASSUME NEW c \in Conns,
             RefusePPD(c) \/ AcceptPPD(c) \/ StartThread(c) \/ TestCount(c)
             \/ FollowNull(c) \/ FreesAnother(c) \/ NoticeDeath(c)
      PROVE  UNCHANGED REQUEST_QUEUE
  BY <1>4 DEF RefusePPD, AcceptPPD, StartThread, TestCount, FollowNull,
     FreesAnother,
     NoticeDeath, Crash
<1>5. ASSUME NEW c \in Conns,
             CheckCount(c) \/ Replan(c) \/ ReplanRead(c) \/ ReplanFollowsNull(c)
             \/ EndReplan(c) \/ DiskWorks(c)
      PROVE  UNCHANGED REQUEST_QUEUE
  BY <1>5 DEF CheckCount, Replan, ReplanRead, ReplanFollowsNull, EndReplan,
     DiskWorks, Perform, Crash
<1>6. ASSUME NEW c \in Conns,
             Die(c)
      PROVE  UNCHANGED REQUEST_QUEUE
  BY <1>6 DEF Die
<1> QED
  BY <1>1, <1>2, <1>3, <1>4, <1>5, <1>6 DEF Next, MainNext, MainGoesOn, ThreadNext, vars

LEMMA ThreadStep ==
    ASSUME [Next]_vars
    PROVE  \/ UNCHANGED threadVars
           \/ StoreCount
           \/ \E c \in Conns : \/ RefusePPD(c) \/ StartThread(c)
                               \/ ReceiveWriteAnswer(c) \/ TestCount(c)
                               \/ TakeWrite(c) \/ TakeAgain(c) \/ NoticeDeath(c)
                               \/ CheckCount(c) \/ Replan(c) \/ ReplanWrite(c)
                               \/ ReplanRead(c) \/ EndReplan(c) \/ Standby(c)
<1>1. ASSUME NEW p \in Pfs, AcceptPFS(p) \/ PFSLeaves(p) \/ ReceiveReadWithoutDisks(p)
      PROVE  UNCHANGED threadVars
  BY <1>1 DEF AcceptPFS, PFSLeaves, ReceiveReadWithoutDisks, Crash
<1>2. ASSUME NEW p \in Pfs, NEW s \in Sectors, ReceiveWrite(p, s) \/ ReceiveRead(p, s)
      PROVE  UNCHANGED threadVars
  BY <1>2 DEF ReceiveWrite, ReceiveRead, Receive
<1>3. CASE Broadcast \/ QueueRead \/ SendRead \/ LoadCount \/ ReadBegin \/ FollowFreed
  BY <1>3 DEF Broadcast, QueueRead, SendRead, LoadCount, ReadBegin, FollowFreed, Crash
<1>4. ASSUME NEW c \in Conns,
             AcceptPPD(c) \/ ReceiveReadAnswer(c) \/ FollowNull(c)
             \/ FreesAnother(c) \/ ReplanFollowsNull(c) \/ DiskWorks(c) \/ Die(c)
      PROVE  UNCHANGED threadVars
  BY <1>4 DEF AcceptPPD, ReceiveReadAnswer, FollowNull, FreesAnother,
     ReplanFollowsNull,      DiskWorks, Die, Perform, Crash
<1> QED
  BY <1>1, <1>2, <1>3, <1>4 DEF Next, MainNext, MainGoesOn, ThreadNext, vars

LEMMA PfsStep ==
    ASSUME [Next]_vars
    PROVE  \/ UNCHANGED pfsVars
           \/ \E p \in Pfs : AcceptPFS(p) \/ PFSLeaves(p)
           \/ \E p \in Pfs, s \in Sectors : \/ ReceiveWrite(p, s)
                                            \/ ReceiveRead(p, s)
           \/ \E c \in Conns : Standby(c)
<1>1. ASSUME NEW p \in Pfs, ReceiveReadWithoutDisks(p)
      PROVE  UNCHANGED pfsVars
  BY <1>1 DEF ReceiveReadWithoutDisks, Crash
<1>2. CASE Broadcast \/ QueueRead \/ SendRead \/ LoadCount \/ StoreCount \/ ReadBegin \/ FollowFreed
  BY <1>2 DEF Broadcast, QueueRead, SendRead, LoadCount, StoreCount, ReadBegin, FollowFreed, Crash
<1>3. ASSUME NEW c \in Conns,
             RefusePPD(c) \/ AcceptPPD(c) \/ StartThread(c)
             \/ ReceiveWriteAnswer(c) \/ TestCount(c) \/ TakeWrite(c)
             \/ TakeAgain(c)
      PROVE  UNCHANGED pfsVars
  BY <1>3 DEF RefusePPD, AcceptPPD, StartThread, ReceiveWriteAnswer, TestCount,
     TakeWrite, TakeAgain, endsTake
<1>4. ASSUME NEW c \in Conns,
             ReceiveReadAnswer(c) \/ FollowNull(c) \/ FreesAnother(c) \/ NoticeDeath(c)
             \/ CheckCount(c) \/ Replan(c) \/ ReplanWrite(c)
      PROVE  UNCHANGED pfsVars
  BY <1>4 DEF ReceiveReadAnswer, FollowNull, FreesAnother, NoticeDeath, CheckCount, Replan,
     ReplanWrite, Crash
<1>5. ASSUME NEW c \in Conns,
             ReplanRead(c) \/ ReplanFollowsNull(c) \/ EndReplan(c)
             \/ DiskWorks(c) \/ Die(c)
      PROVE  UNCHANGED pfsVars
  BY <1>5 DEF ReplanRead, ReplanFollowsNull, EndReplan, DiskWorks, Die, Perform,
     Crash
<1> QED
  BY <1>1, <1>2, <1>3, <1>4, <1>5 DEF Next, MainNext, MainGoesOn, ThreadNext, vars

LEMMA AnswerStep ==
    ASSUME [Next]_vars
    PROVE  \/ UNCHANGED answers
           \/ \E c \in Conns : TakeWrite(c) \/ TakeAgain(c) \/ ReceiveReadAnswer(c)
<1>1. ASSUME NEW p \in Pfs, AcceptPFS(p) \/ PFSLeaves(p) \/ ReceiveReadWithoutDisks(p)
      PROVE  UNCHANGED answers
  BY <1>1 DEF AcceptPFS, PFSLeaves, ReceiveReadWithoutDisks, Crash
<1>2. ASSUME NEW p \in Pfs, NEW s \in Sectors, ReceiveWrite(p, s) \/ ReceiveRead(p, s)
      PROVE  UNCHANGED answers
  BY <1>2 DEF ReceiveWrite, ReceiveRead, Receive
<1>3. CASE Broadcast \/ QueueRead \/ SendRead \/ LoadCount \/ StoreCount \/ ReadBegin \/ FollowFreed
  BY <1>3 DEF Broadcast, QueueRead, SendRead, LoadCount, StoreCount, ReadBegin, FollowFreed, Crash
<1>4. ASSUME NEW c \in Conns,
             RefusePPD(c) \/ AcceptPPD(c) \/ StartThread(c)
             \/ ReceiveWriteAnswer(c) \/ TestCount(c) \/ FollowNull(c)
      PROVE  UNCHANGED answers
  BY <1>4 DEF RefusePPD, AcceptPPD, StartThread, ReceiveWriteAnswer, TestCount,
     FollowNull, Crash
<1>5. ASSUME NEW c \in Conns,
             FreesAnother(c) \/ NoticeDeath(c) \/ CheckCount(c) \/ Replan(c) \/ ReplanWrite(c)
             \/ ReplanRead(c) \/ ReplanFollowsNull(c)
      PROVE  UNCHANGED answers
  BY <1>5 DEF FreesAnother, NoticeDeath, CheckCount, Replan, ReplanWrite, ReplanRead,
     ReplanFollowsNull, Crash
<1>6. ASSUME NEW c \in Conns,
             EndReplan(c) \/ Standby(c) \/ DiskWorks(c) \/ Die(c)
      PROVE  UNCHANGED answers
  BY <1>6 DEF EndReplan, Standby, DiskWorks, Die, Perform
<1> QED
  BY <1>1, <1>2, <1>3, <1>4, <1>5, <1>6 DEF Next, MainNext, MainGoesOn, ThreadNext, vars

LEMMA DiskStep ==
    ASSUME [Next]_vars
    PROVE  \/ UNCHANGED diskVars
           \/ Broadcast \/ SendRead
           \/ \E c \in Conns : \/ ReceiveWriteAnswer(c) \/ ReceiveReadAnswer(c)
                               \/ ReplanRead(c) \/ DiskWorks(c) \/ Die(c)
<1>1. ASSUME NEW p \in Pfs, AcceptPFS(p) \/ PFSLeaves(p) \/ ReceiveReadWithoutDisks(p)
      PROVE  UNCHANGED diskVars
  BY <1>1 DEF AcceptPFS, PFSLeaves, ReceiveReadWithoutDisks, Crash
<1>2. ASSUME NEW p \in Pfs, NEW s \in Sectors, ReceiveWrite(p, s) \/ ReceiveRead(p, s)
      PROVE  UNCHANGED diskVars
  BY <1>2 DEF ReceiveWrite, ReceiveRead, Receive
<1>3. CASE QueueRead \/ LoadCount \/ StoreCount \/ ReadBegin \/ FollowFreed
  BY <1>3 DEF QueueRead, LoadCount, StoreCount, ReadBegin, FollowFreed, Crash
<1>4. ASSUME NEW c \in Conns,
             RefusePPD(c) \/ AcceptPPD(c) \/ StartThread(c) \/ TestCount(c)
             \/ TakeWrite(c) \/ TakeAgain(c) \/ FollowNull(c)
      PROVE  UNCHANGED diskVars
  BY <1>4 DEF RefusePPD, AcceptPPD, StartThread, TestCount, TakeWrite,
     TakeAgain, endsTake, FollowNull,
     Crash
<1>5. ASSUME NEW c \in Conns,
             FreesAnother(c) \/ NoticeDeath(c) \/ CheckCount(c) \/ Replan(c) \/ ReplanWrite(c)
             \/ ReplanFollowsNull(c) \/ EndReplan(c)
      PROVE  UNCHANGED diskVars
  BY <1>5 DEF FreesAnother, NoticeDeath, CheckCount, Replan, ReplanWrite, ReplanFollowsNull,
     EndReplan, Crash
<1>6. ASSUME NEW c \in Conns,
             Standby(c)
      PROVE  UNCHANGED diskVars
  BY <1>6 DEF Standby
<1> QED
  BY <1>1, <1>2, <1>3, <1>4, <1>5, <1>6 DEF Next, MainNext, MainGoesOn, ThreadNext, vars

LEMMA CrashStep ==
    ASSUME [Next]_vars
    PROVE  \/ UNCHANGED crashed
           \/ Broadcast \/ SendRead \/ FollowFreed
           \/ \E p \in Pfs : ReceiveReadWithoutDisks(p)
           \/ \E c \in Conns : \/ TakeWrite(c) \/ TakeAgain(c)
                               \/ ReceiveReadAnswer(c) \/ FollowNull(c)
                               \/ FreesAnother(c) \/ ReplanRead(c)
                               \/ ReplanFollowsNull(c)
<1>1. ASSUME NEW p \in Pfs, AcceptPFS(p) \/ PFSLeaves(p)
      PROVE  UNCHANGED crashed
  BY <1>1 DEF AcceptPFS, PFSLeaves
<1>2. ASSUME NEW p \in Pfs, NEW s \in Sectors, ReceiveWrite(p, s) \/ ReceiveRead(p, s)
      PROVE  UNCHANGED crashed
  BY <1>2 DEF ReceiveWrite, ReceiveRead, Receive
<1>3. CASE QueueRead \/ LoadCount \/ StoreCount \/ ReadBegin
  BY <1>3 DEF QueueRead, LoadCount, StoreCount, ReadBegin
<1>4. ASSUME NEW c \in Conns,
             RefusePPD(c) \/ AcceptPPD(c) \/ StartThread(c)
             \/ ReceiveWriteAnswer(c) \/ TestCount(c) \/ NoticeDeath(c)
      PROVE  UNCHANGED crashed
  BY <1>4 DEF RefusePPD, AcceptPPD, StartThread, ReceiveWriteAnswer, TestCount,
     NoticeDeath
<1>5. ASSUME NEW c \in Conns,
             CheckCount(c) \/ Replan(c) \/ ReplanWrite(c) \/ EndReplan(c)
             \/ Standby(c) \/ DiskWorks(c)
      PROVE  UNCHANGED crashed
  BY <1>5 DEF CheckCount, Replan, ReplanWrite, EndReplan, Standby, DiskWorks,
     Perform
<1>6. ASSUME NEW c \in Conns,
             Die(c)
      PROVE  UNCHANGED crashed
  BY <1>6 DEF Die
<1> QED
  BY <1>1, <1>2, <1>3, <1>4, <1>5, <1>6 DEF Next, MainNext, MainGoesOn, ThreadNext, vars

-----------------------------------------------------------------------------
(* Types.                                                                   *)

\* The disks that were counted; the count and its load are not above their
\* number.
started == {c \in Conns : threadPC[c] \notin {"none", "refused"}}
Counted == PPD_COUNT <= Cardinality(started) /\ loaded <= Cardinality(started)

\* Every id that is about is that of a request received.
KnownQueue == \A i \in DOMAIN REQUEST_QUEUE : REQUEST_QUEUE[i].id <= Len(asked)
KnownMsg ==
    mainPC \in {"broadcast", "queueRead", "sendRead"} =>
        msg = Len(asked) /\ msg \in Ids
KnownHeld ==
    \A c \in Conns : threadPC[c] \in {"test", "take"} => held[c] \in 1 .. Len(asked)
KnownDisk ==
    \A c \in Conns :
        /\ \A i \in DOMAIN pending[c] : pending[c][i] <= Len(asked)
        /\ \A i \in DOMAIN outbox[c] : outbox[c][i].id <= Len(asked)
KnownFound == \A c \in Conns : found[c] \subseteq 1 .. Len(asked)

\* One thread replans at a time, the one that has the mutex.
OneReplans ==
    \A c \in Conns : threadPC[c] = "walk" =>
        replanning \in Replannings /\ \A d \in Conns : threadPC[d] = "walk" => d = c

TypeInv ==
    /\ ListInv /\ TypeOK /\ Counted
    /\ KnownQueue /\ KnownMsg /\ KnownHeld /\ KnownDisk /\ KnownFound
    /\ OneReplans

LEMMA InitTypes == Init => TypeInv
<1> SUFFICES ASSUME Init PROVE TypeInv
  OBVIOUS
<1> USE PRAIDAssumption DEF Init
<1>1. Cardinality(Conns) \in Nat /\ Cardinality({}) = 0
  BY FS_CardinalityType, FS_EmptySet
<1>2. MainTypes /\ ListTypes
  BY <1>1 DEF MainTypes, ListTypes, IsInjective
<1>3. ThreadTypes
  BY DEF ThreadTypes
<1>4. PfsTypes
  BY DEF PfsTypes
<1>5. DiskTypes
  BY DEF DiskTypes
<1>6. TypeOK
  <2>1. REQUEST_QUEUE \in Seq(Requests) /\ answers \in [Ids -> Seq(0 .. MaxRequests)]
    OBVIOUS
  <2>2. crashed \in BOOLEAN
    BY Zenon
  <2> QED
    BY <2>1, <2>2, <1>2, <1>3, <1>4, <1>5, Zenon DEF TypeOK
<1>7. started = {}
  BY DEF started
<1>8. Counted
  BY <1>1, <1>7 DEF Counted
<1>9. KnownQueue /\ KnownMsg /\ KnownHeld /\ KnownDisk /\ KnownFound /\ OneReplans
  BY DEF KnownQueue, KnownMsg, KnownHeld, KnownDisk, KnownFound, OneReplans
<1> QED
  BY <1>6, <1>8, <1>9, InitInv DEF TypeInv

\* The types, each from the group it belongs to.
LEMMA Types ==
    ASSUME TypeOK
    PROVE  /\ mainPC \in {"select", "broadcast", "queueRead", "sendRead", "handshake",
                         "count", "store"}
           /\ msg \in Ids \cup {None} /\ selected \in Conns \cup {None}
           /\ first \in Conns \cup {None}
           /\ PPD_QUEUE \in Seq(Conns) /\ requested \subseteq Conns /\ strays \subseteq Conns
           /\ status \in [Conns -> {READY, WAIT_SYNCH, None}]
           /\ Cardinality(Conns) \in Nat
           /\ PPD_COUNT \in 0 .. Cardinality(Conns) /\ loaded \in 0 .. Cardinality(Conns)
           /\ REQUEST_QUEUE \in Seq(Requests)
           /\ DOMAIN REQUEST_QUEUE = 1 .. Len(REQUEST_QUEUE)
           /\ \A i \in 1 .. Len(REQUEST_QUEUE) :
                 REQUEST_QUEUE[i] \in Requests /\ REQUEST_QUEUE[i].id \in Ids
           /\ DOMAIN threadPC = Conns /\ held \in [Conns -> Ids \cup {None}]
           /\ found \in [Conns -> SUBSET Ids] /\ retaken \subseteq Ids
           /\ asked \in Seq([type : {READ, WRITE}, sector : Sectors, pfs : Pfs])
           /\ Len(asked) \in Nat /\ Len(asked) <= MaxRequests
           /\ answers \in [Ids -> Seq(0 .. MaxRequests)]
           /\ alive \subseteq Conns /\ pending \in [Conns -> Seq(Ids)]
           /\ outbox \in [Conns -> Seq([id : Ids, value : 0 .. MaxRequests])]
           /\ content \in [Conns -> [Sectors -> 0 .. MaxRequests]]
<1>1. Cardinality(Conns) \in Nat
  BY FS_CardinalityType, PRAIDAssumption
<1>2. /\ mainPC \in {"select", "broadcast", "queueRead", "sendRead", "handshake",
                         "count", "store"}
      /\ msg \in Ids \cup {None} /\ selected \in Conns \cup {None}
      /\ first \in Conns \cup {None}
      /\ loaded \in 0 .. Cardinality(Conns)
  BY DEF TypeOK, MainTypes
<1>3. /\ PPD_QUEUE \in Seq(Conns) /\ requested \subseteq Conns /\ strays \subseteq Conns
      /\ status \in [Conns -> {READY, WAIT_SYNCH, None}]
      /\ PPD_COUNT \in 0 .. Cardinality(Conns)
  BY DEF TypeOK, ListTypes
<1>4. /\ REQUEST_QUEUE \in Seq(Requests)
      /\ DOMAIN REQUEST_QUEUE = 1 .. Len(REQUEST_QUEUE)
      /\ \A i \in 1 .. Len(REQUEST_QUEUE) :
            REQUEST_QUEUE[i] \in Requests /\ REQUEST_QUEUE[i].id \in Ids
  <2>1. REQUEST_QUEUE \in Seq(Requests)
    BY DEF TypeOK
  <2>2. \A r \in Requests : r.id \in Ids
    BY DEF Requests
  <2> QED
    BY <2>1, <2>2
<1>5. /\ DOMAIN threadPC = Conns /\ held \in [Conns -> Ids \cup {None}]
      /\ found \in [Conns -> SUBSET Ids] /\ retaken \subseteq Ids
  BY DEF TypeOK, ThreadTypes
<1>6. /\ asked \in Seq([type : {READ, WRITE}, sector : Sectors, pfs : Pfs])
      /\ Len(asked) \in Nat /\ Len(asked) <= MaxRequests
  BY DEF TypeOK, PfsTypes
<1>7. answers \in [Ids -> Seq(0 .. MaxRequests)]
  BY DEF TypeOK
<1>8. /\ alive \subseteq Conns /\ pending \in [Conns -> Seq(Ids)]
      /\ outbox \in [Conns -> Seq([id : Ids, value : 0 .. MaxRequests])]
      /\ content \in [Conns -> [Sectors -> 0 .. MaxRequests]]
  BY DEF TypeOK, DiskTypes
<1> QED
  BY <1>1, <1>2, <1>3, <1>4, <1>5, <1>6, <1>7, <1>8

LEMMA LessRequestedType ==
    ASSUME TypeOK, PPD_QUEUE # <<>>
    PROVE  lessRequested \in Range(PPD_QUEUE) /\ lessRequested \in Conns
<1>1. PPD_QUEUE \in Seq(Conns)
  BY Types
<1>2. fresh \in SUBSET Nat /\ fresh \subseteq DOMAIN PPD_QUEUE
  BY <1>1 DEF fresh
<1>3. fresh # {} => Min(fresh) \in DOMAIN PPD_QUEUE
  BY <1>2, MinIsLeast
<1>4. 1 \in DOMAIN PPD_QUEUE
  BY <1>1
<1>5. lessRequested \in Range(PPD_QUEUE)
  BY <1>3, <1>4 DEF lessRequested, Range
<1> QED
  BY <1>1, <1>5 DEF Range

\* A request that is searched for is found, at its first node.
LEMMA SearchFinds ==
    ASSUME TypeOK, NEW id, search(id) # {}
    PROVE  /\ Min(search(id)) \in 1 .. Len(REQUEST_QUEUE)
           /\ REQUEST_QUEUE[Min(search(id))].id = id
           /\ \A i \in search(id) : Min(search(id)) <= i
<1>1. search(id) \in SUBSET Nat /\ search(id) \subseteq 1 .. Len(REQUEST_QUEUE)
  BY Types DEF search
<1>2. Min(search(id)) \in search(id) /\ \A i \in search(id) : Min(search(id)) <= i
  BY <1>1, MinIsLeast
<1> QED
  BY <1>1, <1>2 DEF search

\* What request_take leaves: all nodes but one of that id, in order.
LEMMA Taken ==
    ASSUME TypeOK, NEW id, search(id) # {}
    PROVE  /\ take(id) \in Seq(Requests)
           /\ Len(take(id)) = Len(REQUEST_QUEUE) - 1
           /\ \E k \in 1 .. Len(REQUEST_QUEUE) :
                 /\ REQUEST_QUEUE[k].id = id
                 /\ \A j \in 1 .. Len(REQUEST_QUEUE) - 1 :
                       take(id)[j] = IF j < k THEN REQUEST_QUEUE[j]
                                              ELSE REQUEST_QUEUE[j + 1]
<1> DEFINE k == Min(search(id))
<1>1. k \in 1 .. Len(REQUEST_QUEUE) /\ REQUEST_QUEUE[k].id = id
  BY SearchFinds
<1>2. REQUEST_QUEUE \in Seq(Requests)
  BY Types
<1> HIDE DEF k
<1>3. /\ RemoveAt(REQUEST_QUEUE, k) \in Seq(Requests)
      /\ Len(RemoveAt(REQUEST_QUEUE, k)) = Len(REQUEST_QUEUE) - 1
      /\ \A j \in 1 .. Len(REQUEST_QUEUE) - 1 :
            RemoveAt(REQUEST_QUEUE, k)[j]
               = IF j < k THEN REQUEST_QUEUE[j] ELSE REQUEST_QUEUE[j + 1]
  BY <1>1, <1>2, RemoveAtProperties
<1>4. take(id) = RemoveAt(REQUEST_QUEUE, k)
  BY DEF take, k
<1> QED
  BY <1>1, <1>3, <1>4, Zenon

\* A list without the node of an id, if it has one.
without(rest, id) ==
    /\ rest \in Seq(Requests)
    /\ \E k \in 1 .. Len(REQUEST_QUEUE) + 1 :
          /\ IF k <= Len(REQUEST_QUEUE) THEN REQUEST_QUEUE[k].id = id ELSE id \notin queued
          /\ Len(rest) = IF k <= Len(REQUEST_QUEUE) THEN Len(REQUEST_QUEUE) - 1
                                                   ELSE Len(REQUEST_QUEUE)
          /\ \A j \in 1 .. Len(rest) :
                rest[j] = IF j < k THEN REQUEST_QUEUE[j] ELSE REQUEST_QUEUE[j + 1]

\* A step that takes the node of an id out, if it is there, and may lose the
\* last ones.
removesNode(id) ==
    \E k \in 1 .. Len(REQUEST_QUEUE) + 1, n \in 0 .. Len(REQUEST_QUEUE) :
        /\ IF k <= Len(REQUEST_QUEUE) THEN REQUEST_QUEUE[k].id = id ELSE id \notin queued
        /\ k <= Len(REQUEST_QUEUE) => n < Len(REQUEST_QUEUE)
        /\ DOMAIN REQUEST_QUEUE' = 1 .. n
        /\ \A j \in 1 .. n :
              REQUEST_QUEUE'[j] = IF j < k THEN REQUEST_QUEUE[j] ELSE REQUEST_QUEUE[j + 1]

LEMMA TakenIsWithout ==
    ASSUME TypeOK, NEW id
    PROVE  /\ search(id) # {} => without(take(id), id)
           /\ search(id) = {} => without(REQUEST_QUEUE, id) /\ id \notin queued
<1>1. REQUEST_QUEUE \in Seq(Requests) /\ DOMAIN REQUEST_QUEUE = 1 .. Len(REQUEST_QUEUE)
        /\ Len(REQUEST_QUEUE) \in Nat
  BY Types
<1>2. ASSUME search(id) # {} PROVE without(take(id), id)
  <2>1. take(id) \in Seq(Requests) /\ Len(take(id)) = Len(REQUEST_QUEUE) - 1
    BY <1>2, Taken
  <2>2. PICK k \in 1 .. Len(REQUEST_QUEUE) :
           /\ REQUEST_QUEUE[k].id = id
           /\ \A j \in 1 .. Len(REQUEST_QUEUE) - 1 :
                 take(id)[j] = IF j < k THEN REQUEST_QUEUE[j] ELSE REQUEST_QUEUE[j + 1]
    BY <1>2, Taken
  <2>3. k \in 1 .. Len(REQUEST_QUEUE) + 1 /\ k <= Len(REQUEST_QUEUE)
    BY <1>1
  <2> QED
    BY <2>1, <2>2, <2>3 DEF without
<1>3. ASSUME search(id) = {} PROVE without(REQUEST_QUEUE, id) /\ id \notin queued
  <2>1. id \notin queued
    BY <1>3 DEF search, queued
  <2> DEFINE k == Len(REQUEST_QUEUE) + 1
  <2>2. k \in 1 .. Len(REQUEST_QUEUE) + 1 /\ ~ (k <= Len(REQUEST_QUEUE))
          /\ \A j \in 1 .. Len(REQUEST_QUEUE) : j < k
    BY <1>1
  <2> HIDE DEF k
  <2>3. /\ IF k <= Len(REQUEST_QUEUE) THEN REQUEST_QUEUE[k].id = id ELSE id \notin queued
        /\ Len(REQUEST_QUEUE) = IF k <= Len(REQUEST_QUEUE) THEN Len(REQUEST_QUEUE) - 1
                                                          ELSE Len(REQUEST_QUEUE)
        /\ \A j \in 1 .. Len(REQUEST_QUEUE) :
              REQUEST_QUEUE[j] = IF j < k THEN REQUEST_QUEUE[j] ELSE REQUEST_QUEUE[j + 1]
    BY <2>1, <2>2
  <2>4. without(REQUEST_QUEUE, id)
    BY <1>1, <2>2, <2>3, Zenon DEF without
  <2> QED
    BY <2>1, <2>4
<1> QED
  BY <1>2, <1>3

\* A list shortened to its first nodes.
LEMMA Shortened ==
    ASSUME TypeOK, NEW id, NEW rest, without(rest, id), NEW n \in 0 .. Len(rest),
           \/ REQUEST_QUEUE' = SubSeq(rest, 1, n)
           \/ REQUEST_QUEUE' = rest /\ n = Len(rest)
    PROVE  removesNode(id) /\ REQUEST_QUEUE' \in Seq(Requests)
<1>1. rest \in Seq(Requests) /\ Len(REQUEST_QUEUE) \in Nat /\ Len(rest) \in Nat /\ n \in Nat
  <2>1. rest \in Seq(Requests) /\ REQUEST_QUEUE \in Seq(Requests)
    BY Types, Zenon DEF without
  <2>2. Len(REQUEST_QUEUE) \in Nat /\ Len(rest) \in Nat
    BY <2>1, LenProperties
  <2> QED
    BY <2>1, <2>2
<1>2. /\ REQUEST_QUEUE' \in Seq(Requests) /\ DOMAIN REQUEST_QUEUE' = 1 .. n
      /\ \A j \in 1 .. n : REQUEST_QUEUE'[j] = rest[j]
  <2>1. CASE REQUEST_QUEUE' = rest /\ n = Len(rest)
    BY <1>1, <2>1
  <2>2. CASE REQUEST_QUEUE' = SubSeq(rest, 1, n)
    BY <1>1, <2>2
  <2> QED
    BY <2>1, <2>2
<1>3. PICK k \in 1 .. Len(REQUEST_QUEUE) + 1 :
         /\ IF k <= Len(REQUEST_QUEUE) THEN REQUEST_QUEUE[k].id = id ELSE id \notin queued
         /\ Len(rest) = IF k <= Len(REQUEST_QUEUE) THEN Len(REQUEST_QUEUE) - 1
                                                  ELSE Len(REQUEST_QUEUE)
         /\ \A j \in 1 .. Len(rest) :
               rest[j] = IF j < k THEN REQUEST_QUEUE[j] ELSE REQUEST_QUEUE[j + 1]
  BY DEF without
<1>4. n \in 0 .. Len(REQUEST_QUEUE) /\ (k <= Len(REQUEST_QUEUE) => n < Len(REQUEST_QUEUE))
        /\ \A j \in 1 .. n : j \in 1 .. Len(rest)
  BY <1>1, <1>3
<1>5. \A j \in 1 .. n :
         REQUEST_QUEUE'[j] = IF j < k THEN REQUEST_QUEUE[j] ELSE REQUEST_QUEUE[j + 1]
  BY <1>2, <1>3, <1>4
<1> QED
  BY <1>2, <1>3, <1>4, <1>5 DEF removesNode

LEMMA Unlinked ==
    ASSUME TypeOK, NEW c \in Conns, NEW rest, without(rest, held[c]), unlinks(c, rest)
    PROVE  removesNode(held[c]) /\ REQUEST_QUEUE' \in Seq(Requests)
<1>1. rest \in Seq(Requests) /\ Len(rest) \in Nat /\ Len(rest) \in 0 .. Len(rest)
  BY DEF without
<1>2. \/ REQUEST_QUEUE' = rest
      \/ \E n \in 0 .. Len(rest) : REQUEST_QUEUE' = SubSeq(rest, 1, n)
  BY DEF unlinks
<1> QED
  BY <1>1, <1>2, Shortened

\* The three steps that take a request out of the list.
LEMMA Removes ==
    ASSUME TypeOK, NEW c \in Conns
    PROVE  /\ TakeWrite(c) \/ TakeAgain(c)
                 => removesNode(held[c]) /\ REQUEST_QUEUE' \in Seq(Requests)
           /\ ReceiveReadAnswer(c)
                 => removesNode(received(c).id) /\ REQUEST_QUEUE' \in Seq(Requests)
<1>1. ASSUME TakeWrite(c)
      PROVE  removesNode(held[c]) /\ REQUEST_QUEUE' \in Seq(Requests)
  BY <1>1, TakenIsWithout, Unlinked DEF TakeWrite
<1>2. ASSUME TakeAgain(c)
      PROVE  removesNode(held[c]) /\ REQUEST_QUEUE' \in Seq(Requests)
  BY <1>2, TakenIsWithout, Unlinked DEF TakeAgain
<1>3. ASSUME ReceiveReadAnswer(c)
      PROVE  removesNode(received(c).id) /\ REQUEST_QUEUE' \in Seq(Requests)
  <2>1. /\ search(received(c).id) # {}
        /\ REQUEST_QUEUE' = take(received(c).id)
    BY <1>3 DEF ReceiveReadAnswer
  <2>2. without(REQUEST_QUEUE', received(c).id)
    BY <2>1, TakenIsWithout
  <2>3. Len(REQUEST_QUEUE') \in 0 .. Len(REQUEST_QUEUE')
    BY <2>2 DEF without
  <2> QED
    BY <2>2, <2>3, Shortened
<1> QED
  BY <1>1, <1>2, <1>3

\* Messages are sent one at a time, to the disks that are there.
LEMMA SentProperties ==
    ASSUME NEW q \in [Conns -> Seq(Ids)], NEW targets, NEW id \in Ids
    PROVE  /\ sent(q, targets, id) \in [Conns -> Seq(Ids)]
           /\ \A c \in Conns :
                 sent(q, targets, id)[c] = IF c \in targets \cap alive
                                           THEN Append(q[c], id) ELSE q[c]
  BY DEF sent

\* The answer a thread receives is the first on its way.
LEMMA ReceivedProperties ==
    ASSUME TypeOK, KnownDisk, NEW c \in Conns, outbox[c] # <<>>
    PROVE  /\ received(c) = outbox[c][1] /\ 1 \in DOMAIN outbox[c]
           /\ received(c).id \in Ids /\ received(c).value \in 0 .. MaxRequests
           /\ received(c).id <= Len(asked)
           /\ Tail(outbox[c]) \in Seq([id : Ids, value : 0 .. MaxRequests])
           /\ Len(Tail(outbox[c])) = Len(outbox[c]) - 1
           /\ \A i \in 1 .. Len(outbox[c]) - 1 : Tail(outbox[c])[i] = outbox[c][i + 1]
<1> DEFINE q == outbox[c]
<1>1. q \in Seq([id : Ids, value : 0 .. MaxRequests]) /\ q # <<>>
  BY Types
<1>2. \A i \in DOMAIN q : q[i].id <= Len(asked)
  BY DEF KnownDisk
<1>3. received(c) = Head(q)
  BY DEF received
<1> HIDE DEF q
<1>4. Head(q) = q[1] /\ 1 \in DOMAIN q /\ q[1] \in [id : Ids, value : 0 .. MaxRequests]
  <2> DEFINE Answer == [id : Ids, value : 0 .. MaxRequests]
  <2>1. q \in Seq(Answer) /\ q # <<>>
    BY <1>1
  <2> HIDE DEF Answer
  <2>2. Head(q) = q[1] /\ 1 \in DOMAIN q /\ q[1] \in Answer
    BY <2>1
  <2> QED
    BY <2>2 DEF Answer
<1>5. /\ Tail(q) \in Seq([id : Ids, value : 0 .. MaxRequests])
      /\ Len(Tail(q)) = Len(q) - 1
      /\ \A i \in 1 .. Len(q) - 1 : Tail(q)[i] = q[i + 1]
  BY <1>1, HeadTailProperties
<1>6. /\ received(c) = q[1] /\ 1 \in DOMAIN q
      /\ received(c).id \in Ids /\ received(c).value \in 0 .. MaxRequests
      /\ received(c).id <= Len(asked)
  <2>1. \A a \in [id : Ids, value : 0 .. MaxRequests] :
           a.id \in Ids /\ a.value \in 0 .. MaxRequests
    OBVIOUS
  <2> QED
    BY <2>1, <1>2, <1>3, <1>4
<1> QED
  BY <1>5, <1>6 DEF q

\* Requests are only added.
LEMMA AskedGrows ==
    ASSUME TypeOK, [Next]_vars
    PROVE  /\ asked' \in Seq([type : {READ, WRITE}, sector : Sectors, pfs : Pfs])
           /\ Len(asked)' \in Nat /\ Len(asked) <= Len(asked)'
           /\ Len(asked)' <= MaxRequests
           /\ \A i \in 1 .. Len(asked) : asked'[i] = asked[i]
<1>1. CASE UNCHANGED asked
  BY <1>1, Types
<1>2. ASSUME NEW p \in Pfs, NEW s \in Sectors, NEW type \in {READ, WRITE},
             Receive(p, type, s)
      PROVE  /\ asked' \in Seq([type : {READ, WRITE}, sector : Sectors, pfs : Pfs])
             /\ Len(asked)' = Len(asked) + 1
             /\ Len(asked)' <= MaxRequests
             /\ \A i \in 1 .. Len(asked) : asked'[i] = asked[i]
  BY <1>2, Types, PRAIDAssumption DEF Receive
<1>3. ASSUME NEW p \in Pfs, NEW s \in Sectors, ReceiveWrite(p, s) \/ ReceiveRead(p, s)
      PROVE  Receive(p, WRITE, s) \/ Receive(p, READ, s)
  BY <1>3 DEF ReceiveWrite, ReceiveRead
<1>4. ASSUME ~ UNCHANGED asked
      PROVE  \E p \in Pfs, s \in Sectors : ReceiveWrite(p, s) \/ ReceiveRead(p, s)
  BY <1>4, PfsStep DEF pfsVars, AcceptPFS, PFSLeaves, Standby
<1>5. ASSUME NEW p \in Pfs, NEW s \in Sectors, ReceiveWrite(p, s) \/ ReceiveRead(p, s)
      PROVE  /\ asked' \in Seq([type : {READ, WRITE}, sector : Sectors, pfs : Pfs])
             /\ Len(asked)' = Len(asked) + 1
             /\ Len(asked)' <= MaxRequests
             /\ \A i \in 1 .. Len(asked) : asked'[i] = asked[i]
  BY <1>2, <1>3, <1>5
<1>6. CASE \E p \in Pfs, s \in Sectors : ReceiveWrite(p, s) \/ ReceiveRead(p, s)
  <2>1. PICK p \in Pfs, s \in Sectors : ReceiveWrite(p, s) \/ ReceiveRead(p, s)
    BY <1>6
  <2>2. Len(asked) \in Nat
    BY Types
  <2>3. /\ asked' \in Seq([type : {READ, WRITE}, sector : Sectors, pfs : Pfs])
        /\ Len(asked)' = Len(asked) + 1
        /\ Len(asked)' <= MaxRequests
        /\ \A i \in 1 .. Len(asked) : asked'[i] = asked[i]
    BY <1>5, <2>1
  <2> QED
    BY <2>2, <2>3
<1> QED
  BY <1>1, <1>4, <1>6

LEMMA MainTyped == ASSUME TypeInv, [Next]_vars PROVE MainTypes'
<1> USE Types, PRAIDAssumption DEF TypeInv, MainTypes, Ids
<1>1. CASE UNCHANGED mainVars
  BY <1>1 DEF mainVars
<1>2. ASSUME NEW p \in Pfs, NEW s \in Sectors, ReceiveWrite(p, s) PROVE MainTypes'
  BY <1>2 DEF ReceiveWrite, Receive
<1>3. ASSUME NEW p \in Pfs, NEW s \in Sectors, ReceiveRead(p, s) PROVE MainTypes'
  <2>1. selected' \in Conns /\ mainPC' = "queueRead"
    BY <1>3, LessRequestedType DEF ReceiveRead
  <2>2. msg' \in 1 .. MaxRequests /\ loaded' = loaded /\ first' = first
    BY <1>3 DEF ReceiveRead, Receive
  <2> QED
    BY <2>1, <2>2
<1>4. CASE Broadcast \/ QueueRead \/ SendRead
  BY <1>4 DEF Broadcast, QueueRead, SendRead
<1>5. CASE LoadCount
  BY <1>5 DEF LoadCount, ppdVars
<1>6. CASE StoreCount
  BY <1>6 DEF StoreCount
<1>7. ASSUME NEW c \in Conns, AcceptPPD(c) PROVE MainTypes'
  BY <1>7 DEF AcceptPPD
<1>8. ASSUME NEW c \in Conns, RefusePPD(c) PROVE MainTypes'
  BY <1>8 DEF RefusePPD
<1>9. CASE ReadBegin
  <2>1. first' \in Conns \cup {None}
    BY <1>9 DEF ReadBegin
  <2> QED
    BY <1>9, <2>1 DEF ReadBegin
<1> QED
  BY <1>8, <1>9, <1>1, <1>2, <1>3, <1>4, <1>5, <1>6, <1>7, MainStep

\* A disk is counted before its thread is started.
LEMMA StartedGrows ==
    ASSUME TypeInv, [Next]_vars
    PROVE  /\ IsFiniteSet(started) /\ Cardinality(started) \in Nat
           /\ Cardinality(started)' \in Nat
           /\ Cardinality(started)' <= Cardinality(Conns)
           /\ Cardinality(started) <= Cardinality(started)'
           /\ StoreCount => Cardinality(started)' = Cardinality(started) + 1
<1>1. IsFiniteSet(started) /\ IsFiniteSet(started')
        /\ Cardinality(started') <= Cardinality(Conns)
  BY FS_Subset, PRAIDAssumption DEF started
<1>2. Cardinality(started) \in Nat /\ Cardinality(started') \in Nat
  BY <1>1, FS_CardinalityType
<1>3. ASSUME StoreCount
      PROVE  started' = started \cup {selected} /\ selected \notin started
  BY <1>3 DEF TypeInv, ListInv, StoreCount, started, Range
<1>4. started \subseteq started'
  <2> USE DEF started, goes
  <2>1. CASE UNCHANGED threadVars
    BY <2>1 DEF threadVars, takeVars
  <2>2. ASSUME NEW c \in Conns, RefusePPD(c) PROVE started \subseteq started'
    BY <2>2 DEF RefusePPD, mayConnect, connects, TypeInv, ListInv
  <2>3. ASSUME NEW c \in Conns,
               \/ StartThread(c) \/ ReceiveWriteAnswer(c) \/ TestCount(c) \/ TakeWrite(c)
               \/ TakeAgain(c)
               \/ NoticeDeath(c) \/ CheckCount(c) \/ Replan(c) \/ EndReplan(c) \/ Standby(c)
        PROVE  started \subseteq started'
    BY <2>3 DEF StartThread, ReceiveWriteAnswer, TestCount, TakeWrite, TakeAgain, endsTake, NoticeDeath,
       CheckCount, Replan, EndReplan, Standby, TypeInv, ListInv
  <2>4. ASSUME NEW c \in Conns, ReplanWrite(c) \/ ReplanRead(c)
        PROVE  started \subseteq started'
    BY <2>4 DEF ReplanWrite, ReplanRead
  <2> QED
    BY <2>1, <2>2, <2>3, <2>4, <1>3, ThreadStep
<1>5. Cardinality(started) <= Cardinality(started')
  BY <1>1, <1>4, FS_Subset
<1>6. ASSUME StoreCount
      PROVE  Cardinality(started') = Cardinality(started) + 1
  BY <1>6, <1>1, <1>3, FS_AddElement
<1> QED
  BY <1>1, <1>2, <1>5, <1>6

LEMMA ListTyped == ASSUME TypeInv, [Next]_vars PROVE ListTypes'
<1> USE Types DEF TypeInv
<1>1. PPD_QUEUE' \in Seq(Conns) /\ IsInjective(PPD_QUEUE)'
  <2>1. ListInv'
    BY StepInv
  <2> QED
    BY <2>1 DEF ListInv
<1>2. ASSUME NEW p \in Pfs, NEW s \in Sectors, ReceiveRead(p, s) PROVE ListTypes'
  BY <1>1, <1>2, LessRequestedType DEF ReceiveRead, Receive, ListTypes, flagsAfter
<1>3. CASE UNCHANGED ppdVars
  BY <1>3 DEF ppdVars, ListTypes, TypeOK
<1>4. CASE Broadcast
  <2>1. requested' \subseteq Conns
    BY <1>4 DEF Broadcast, Range
  <2> QED
    BY <1>1, <1>4, <2>1 DEF Broadcast, ListTypes
<1>5. CASE StoreCount
  <2>1. PPD_COUNT' \in 0 .. Cardinality(Conns)
    BY <1>5, StartedGrows DEF StoreCount, Counted
  <2> QED
    BY <1>1, <1>5, <2>1 DEF StoreCount, ListTypes
<1>6. ASSUME NEW c \in Conns, AcceptPPD(c) PROVE ListTypes'
  BY <1>1, <1>6 DEF AcceptPPD, ListTypes
<1>7. ASSUME NEW c \in Conns, StartThread(c) PROVE ListTypes'
  BY <1>1, <1>7 DEF StartThread, ListTypes
<1>8. ASSUME NEW c \in Conns, NoticeDeath(c) PROVE ListTypes'
  <2>1. PPD_COUNT' \in Nat
    BY StepInv DEF ListInv
  <2>2. PPD_COUNT' \in 0 .. Cardinality(Conns)
    BY <1>8, <2>1 DEF NoticeDeath
  <2> QED
    BY <1>1, <1>8, <2>2 DEF NoticeDeath, ListTypes
<1>9. ASSUME NEW c \in Conns, ReplanRead(c) PROVE ListTypes'
  BY <1>1, <1>9, LessRequestedType DEF ReplanRead, ListTypes, flagsAfter
<1> QED
  BY <1>2, <1>3, <1>4, <1>5, <1>6, <1>7, <1>8, <1>9, ListStep

LEMMA CountedStep == ASSUME TypeInv, [Next]_vars PROVE Counted'
<1>1. PPD_COUNT \in Nat /\ loaded \in Nat /\ PPD_COUNT' \in Nat
        /\ PPD_COUNT <= Cardinality(started) /\ loaded <= Cardinality(started)
  BY StepInv DEF TypeInv, ListInv, Counted
<1>2. CASE StoreCount
  BY <1>1, <1>2, StartedGrows DEF StoreCount, Counted
<1>3. ASSUME NEW c \in Conns, NoticeDeath(c) PROVE PPD_COUNT' <= PPD_COUNT
  BY <1>1, <1>3 DEF NoticeDeath
<1>4. \/ StoreCount \/ UNCHANGED PPD_COUNT
      \/ \E c \in Conns : NoticeDeath(c)
  BY ListStep DEF ppdVars, Broadcast, ReceiveRead, Receive, AcceptPPD, StartThread,
     ReplanRead
<1>5. StoreCount \/ loaded' \in {loaded, PPD_COUNT}
  BY MainStep DEF mainVars, Broadcast, QueueRead, SendRead, LoadCount,
     ReceiveWrite, ReceiveRead, Receive, AcceptPPD, RefusePPD, ReadBegin
<1>6. ASSUME ~ StoreCount PROVE PPD_COUNT' <= PPD_COUNT /\ loaded' \in {loaded, PPD_COUNT}
  BY <1>1, <1>3, <1>4, <1>5, <1>6
<1> QED
  BY <1>1, <1>2, <1>6, StartedGrows DEF Counted

\* Nodes are typed and know their request.
LEMMA QueueTyped ==
    ASSUME TypeInv, [Next]_vars PROVE REQUEST_QUEUE' \in Seq(Requests) /\ KnownQueue'
<1> SUFFICES REQUEST_QUEUE' \in Seq(Requests)
                 /\ \A i \in DOMAIN REQUEST_QUEUE' : REQUEST_QUEUE'[i].id <= Len(asked)'
  BY DEF KnownQueue
<1>0. /\ REQUEST_QUEUE \in Seq(Requests)
      /\ \A i \in 1 .. Len(REQUEST_QUEUE) : /\ REQUEST_QUEUE[i] \in Requests
                                            /\ REQUEST_QUEUE[i].id \in Ids
                                            /\ REQUEST_QUEUE[i].id <= Len(asked)
      /\ Len(asked) \in Nat /\ Len(asked)' \in Nat /\ Len(asked) <= Len(asked)'
  BY Types, AskedGrows DEF TypeInv, KnownQueue
<1>1. \A id \in Ids : id <= Len(asked) => id <= Len(asked)'
  BY <1>0, PRAIDAssumption DEF Ids
<1>2. CASE UNCHANGED REQUEST_QUEUE
  BY <1>0, <1>1, <1>2
<1>3. ASSUME NEW id \in Ids, id <= Len(asked)', NEW fd \in Conns \cup {Garbage, None},
             REQUEST_QUEUE' = addNew(id, fd)
      PROVE  REQUEST_QUEUE' \in Seq(Requests)
               /\ \A i \in DOMAIN REQUEST_QUEUE' : REQUEST_QUEUE'[i].id <= Len(asked)'
  <2> DEFINE r == [id |-> id, ppd_fd |-> fd, write_count |-> PPD_COUNT]
  <2>1. PPD_COUNT \in 0 .. CountMod - 1
    BY Types, PRAIDAssumption DEF TypeInv
  <2>2. r \in Requests /\ r.id = id
    BY <2>1 DEF Requests
  <2>3. REQUEST_QUEUE' = Append(REQUEST_QUEUE, r)
    BY <1>3 DEF addNew
  <2> HIDE DEF r
  <2> QED
    BY <1>0, <1>1, <1>3, <2>2, <2>3
<1>4. ASSUME NEW id, removesNode(id), REQUEST_QUEUE' \in Seq(Requests)
      PROVE  REQUEST_QUEUE' \in Seq(Requests)
               /\ \A i \in DOMAIN REQUEST_QUEUE' : REQUEST_QUEUE'[i].id <= Len(asked)'
  <2>1. PICK k \in 1 .. Len(REQUEST_QUEUE) + 1, n \in 0 .. Len(REQUEST_QUEUE) :
           /\ k <= Len(REQUEST_QUEUE) => n < Len(REQUEST_QUEUE)
           /\ DOMAIN REQUEST_QUEUE' = 1 .. n
           /\ \A j \in 1 .. n :
                 REQUEST_QUEUE'[j] = IF j < k THEN REQUEST_QUEUE[j] ELSE REQUEST_QUEUE[j + 1]
    BY <1>4 DEF removesNode
  <2>2. ASSUME NEW j \in 1 .. n
        PROVE  REQUEST_QUEUE'[j].id \in Ids /\ REQUEST_QUEUE'[j].id <= Len(asked)
    <3>1. IF j < k THEN j \in 1 .. Len(REQUEST_QUEUE) ELSE j + 1 \in 1 .. Len(REQUEST_QUEUE)
      BY <1>0, <2>1
    <3> QED
      BY <1>0, <2>1, <3>1
  <2> QED
    BY <1>1, <1>4, <2>1, <2>2
<1>5. ASSUME NEW I,
             REQUEST_QUEUE' = [i \in DOMAIN REQUEST_QUEUE |->
                IF i \in I THEN discounted(REQUEST_QUEUE[i]) ELSE REQUEST_QUEUE[i]]
      PROVE  REQUEST_QUEUE' \in Seq(Requests)
               /\ \A i \in DOMAIN REQUEST_QUEUE' : REQUEST_QUEUE'[i].id <= Len(asked)'
  <2>1. \A r \in Requests : discounted(r) \in Requests /\ discounted(r).id = r.id
    BY PRAIDAssumption, FS_CardinalityType DEF Requests, discounted
  <2>2. DOMAIN REQUEST_QUEUE' = 1 .. Len(REQUEST_QUEUE) /\ Len(REQUEST_QUEUE) \in Nat
    BY <1>0, <1>5
  <2>3. ASSUME NEW i \in 1 .. Len(REQUEST_QUEUE)
        PROVE  REQUEST_QUEUE'[i] \in Requests /\ REQUEST_QUEUE'[i].id = REQUEST_QUEUE[i].id
    BY <1>0, <1>5, <2>1, <2>2
  <2>4. REQUEST_QUEUE' \in Seq(Requests)
    <3>1. REQUEST_QUEUE' \in [1 .. Len(REQUEST_QUEUE) -> Requests]
      BY <1>5, <2>2, <2>3
    <3> QED
      BY <3>1, <2>2
  <2> QED
    BY <1>0, <1>1, <2>2, <2>3, <2>4
<1>6. ASSUME NEW p \in Pfs, NEW s \in Sectors, ReceiveWrite(p, s)
      PROVE  REQUEST_QUEUE' = addNew(Len(asked)', None) /\ Len(asked)' \in Ids
  BY <1>0, <1>6, AskedGrows, Types, PRAIDAssumption DEF ReceiveWrite, Receive, Ids, TypeInv
<1>7. CASE QueueRead
  <2>1. msg \in Ids /\ msg <= Len(asked)'
    BY <1>0, <1>7 DEF QueueRead, KnownMsg, TypeInv
  <2>2. PICK fd \in fdOf(selected) : REQUEST_QUEUE' = addNew(msg, fd)
    BY <1>7 DEF QueueRead
  <2>3. fd \in Conns \cup {Garbage, None}
    BY Types DEF fdOf, TypeInv
  <2> QED
    BY <1>3, <2>1, <2>2, <2>3
<1>8. ASSUME NEW c \in Conns, ReceiveWriteAnswer(c)
      PROVE  \E I : REQUEST_QUEUE' = [i \in DOMAIN REQUEST_QUEUE |->
                IF i \in I THEN discounted(REQUEST_QUEUE[i]) ELSE REQUEST_QUEUE[i]]
  BY <1>8 DEF ReceiveWriteAnswer
<1>9. ASSUME NEW c \in Conns, ReplanWrite(c)
      PROVE  REQUEST_QUEUE' \in Seq(Requests)
               /\ \A i \in DOMAIN REQUEST_QUEUE' : REQUEST_QUEUE'[i].id <= Len(asked)'
  <2>1. CASE UNCHANGED REQUEST_QUEUE
    BY <1>2, <2>1
  <2>2. CASE REQUEST_QUEUE'
               = [REQUEST_QUEUE EXCEPT ![Min(toReplan)] = discounted(@)]
    <3> DEFINE I == {Min(toReplan)}
    <3>1. REQUEST_QUEUE' = [i \in DOMAIN REQUEST_QUEUE |->
             IF i \in I THEN discounted(REQUEST_QUEUE[i]) ELSE REQUEST_QUEUE[i]]
      BY <1>0, <2>2
    <3> HIDE DEF I
    <3> QED
      BY <3>1, <1>5
  <2> QED
    BY <1>9, <2>1, <2>2 DEF ReplanWrite
<1>10. ASSUME NEW c \in Conns, TakeWrite(c) \/ TakeAgain(c) \/ ReceiveReadAnswer(c)
       PROVE  \E id : removesNode(id) /\ REQUEST_QUEUE' \in Seq(Requests)
  BY <1>10, Removes DEF TypeInv
<1>11. ASSUME NEW c \in Conns, Standby(c) PROVE REQUEST_QUEUE' = <<>>
  BY <1>11 DEF Standby
<1>12. CASE REQUEST_QUEUE' = <<>>
  BY <1>12
<1> QED
  <2>1. ASSUME NEW p \in Pfs, NEW s \in Sectors, ReceiveWrite(p, s)
        PROVE  REQUEST_QUEUE' \in Seq(Requests)
                 /\ \A i \in DOMAIN REQUEST_QUEUE' : REQUEST_QUEUE'[i].id <= Len(asked)'
    BY <1>3, <1>6, <2>1, <1>0
  <2>2. ASSUME NEW c \in Conns,
               \/ ReceiveWriteAnswer(c) \/ TakeWrite(c) \/ TakeAgain(c)
               \/ ReceiveReadAnswer(c)
               \/ ReplanWrite(c) \/ Standby(c)
        PROVE  REQUEST_QUEUE' \in Seq(Requests)
                 /\ \A i \in DOMAIN REQUEST_QUEUE' : REQUEST_QUEUE'[i].id <= Len(asked)'
    BY <1>4, <1>5, <1>8, <1>9, <1>10, <1>11, <1>12, <2>2
  <2> QED
    BY <1>2, <1>7, <2>1, <2>2, QueueStep

\* What request_take found is in the list, and was received.
LEMMA FoundTyped ==
    ASSUME TypeInv, [Next]_vars
    PROVE  found' \in [Conns -> SUBSET Ids] /\ retaken' \subseteq Ids /\ KnownFound'
<1>0. /\ found \in [Conns -> SUBSET Ids] /\ retaken \subseteq Ids
      /\ \A c \in Conns : found[c] \subseteq 1 .. Len(asked)
      /\ Len(asked) \in Nat /\ Len(asked)' \in Nat /\ Len(asked) <= Len(asked)'
  BY AskedGrows, Types DEF TypeInv, KnownFound
<1>1. queued \subseteq Ids /\ queued \subseteq 1 .. Len(asked)
  BY Types, PRAIDAssumption DEF queued, TypeInv, KnownQueue, Ids
<1>2. ASSUME NEW c \in Conns, NEW S, S \in {queued, {}},
             found' = found \/ found' = [found EXCEPT ![c] = S],
             \/ retaken' = retaken
             \/ retaken' = retaken \cup {held[c]} /\ held[c] \in found[c]
      PROVE  found' \in [Conns -> SUBSET Ids] /\ retaken' \subseteq Ids /\ KnownFound'
  <2>1. S \subseteq Ids /\ S \subseteq 1 .. Len(asked)
    BY <1>1, <1>2
  <2>2. found' \in [Conns -> SUBSET Ids] /\ \A d \in Conns : found'[d] \subseteq 1 .. Len(asked)
    BY <1>0, <1>2, <2>1
  <2>3. retaken' \subseteq Ids
    BY <1>0, <1>2
  <2>4. 1 .. Len(asked) \subseteq 1 .. Len(asked)'
    BY <1>0
  <2> QED
    BY <2>2, <2>3, <2>4 DEF KnownFound
<1>3. CASE UNCHANGED <<found, retaken>>
  <2>1. 1 .. Len(asked) \subseteq 1 .. Len(asked)'
    BY <1>0
  <2> QED
    BY <1>0, <1>3, <2>1 DEF KnownFound
<1>4. ASSUME NEW c \in Conns, TestCount(c)
      PROVE  found' \in [Conns -> SUBSET Ids] /\ retaken' \subseteq Ids /\ KnownFound'
  BY <1>2, <1>4 DEF TestCount
<1>5. ASSUME NEW c \in Conns, TakeWrite(c) \/ TakeAgain(c)
      PROVE  found' \in [Conns -> SUBSET Ids] /\ retaken' \subseteq Ids /\ KnownFound'
  BY <1>2, <1>5 DEF TakeWrite, TakeAgain, endsTake
<1>6. \/ UNCHANGED <<found, retaken>>
      \/ \E c \in Conns : TestCount(c) \/ TakeWrite(c) \/ TakeAgain(c)
  BY ThreadStep DEF threadVars, takeVars, StoreCount, RefusePPD, StartThread,
     ReceiveWriteAnswer, NoticeDeath, CheckCount, Replan, ReplanWrite, ReplanRead,
     EndReplan, Standby
<1> QED
  BY <1>3, <1>4, <1>5, <1>6

LEMMA ThreadsTyped ==
    ASSUME TypeInv, [Next]_vars PROVE ThreadTypes' /\ KnownHeld' /\ OneReplans'
<1> DEFINE PCs == {"none", "refused", "start", "recv", "test", "take", "lost", "replan",
                   "walk", "standby", "done"}
<1>0. /\ threadPC \in [Conns -> PCs] /\ held \in [Conns -> Ids \cup {None}]
      /\ replanning \in Replannings \cup {None}
      /\ Len(asked) \in Nat /\ Len(asked)' \in Nat /\ Len(asked) <= Len(asked)'
      /\ found' \in [Conns -> SUBSET Ids] /\ retaken' \subseteq Ids
  BY AskedGrows, Types, FoundTyped DEF TypeInv, TypeOK, ThreadTypes
<1> HIDE DEF PCs
\* A thread that goes on, with what it holds and the mutex as they were.
<1>1. ASSUME NEW c \in Conns, NEW to \in PCs, NEW from,
             threadPC[c] = from, threadPC' = [threadPC EXCEPT ![c] = to],
             to # "walk", UNCHANGED replanning,
             held' = [held EXCEPT ![c] = None] \/ held' = held,
             to \in {"test", "take"} => from \in {"test", "take"} /\ UNCHANGED held
      PROVE  ThreadTypes' /\ KnownHeld' /\ OneReplans'
  <2>1. threadPC' \in [Conns -> PCs] /\ held' \in [Conns -> Ids \cup {None}]
    BY <1>0, <1>1
  <2>2. KnownHeld'
    BY <1>0, <1>1 DEF KnownHeld, TypeInv
  <2>3. OneReplans'
    BY <1>0, <1>1 DEF OneReplans, TypeInv
  <2> QED
    BY <1>0, <1>1, <2>1, <2>2, <2>3 DEF ThreadTypes, PCs
<1>2. CASE UNCHANGED threadVars
  BY <1>0, <1>2 DEF threadVars, takeVars, ThreadTypes, KnownHeld, OneReplans, TypeInv, PCs
<1>3. CASE StoreCount
  <2>1. selected \in Conns
    BY <1>3 DEF StoreCount, TypeInv, ListInv, Range
  <2> QED
    BY <1>1, <1>3, <2>1 DEF takeVars, StoreCount, PCs
<1>4. ASSUME NEW c \in Conns, RefusePPD(c) PROVE ThreadTypes' /\ KnownHeld' /\ OneReplans'
  BY <1>1, <1>4 DEF takeVars, RefusePPD, PCs
<1>5. ASSUME NEW c \in Conns, StartThread(c) \/ NoticeDeath(c) \/ CheckCount(c) \/ Standby(c)
      PROVE  ThreadTypes' /\ KnownHeld' /\ OneReplans'
  BY <1>1, <1>5 DEF takeVars, StartThread, NoticeDeath, CheckCount, Standby, goes, PCs
<1>6. ASSUME NEW c \in Conns, TestCount(c) \/ TakeWrite(c) \/ TakeAgain(c)
      PROVE  ThreadTypes' /\ KnownHeld' /\ OneReplans'
  BY <1>1, <1>6 DEF TestCount, TakeWrite, TakeAgain, endsTake, goes, PCs
<1>7. ASSUME NEW c \in Conns, ReceiveWriteAnswer(c)
      PROVE  ThreadTypes' /\ KnownHeld' /\ OneReplans'
  <2>1. received(c).id \in Ids /\ received(c).id <= Len(asked)
    BY <1>7, ReceivedProperties DEF ReceiveWriteAnswer, TypeInv
  <2>2. received(c).id \in 1 .. Len(asked)'
    BY <1>0, <2>1, PRAIDAssumption DEF Ids
  <2>3. threadPC' = [threadPC EXCEPT ![c] = "test"]
          /\ held' = [held EXCEPT ![c] = received(c).id] /\ UNCHANGED replanning
    BY <1>7 DEF ReceiveWriteAnswer, goes
  <2>4. threadPC' \in [Conns -> PCs] /\ held' \in [Conns -> Ids \cup {None}]
    BY <1>0, <2>1, <2>3 DEF PCs
  <2>5. KnownHeld'
    BY <1>0, <2>2, <2>3 DEF KnownHeld, TypeInv
  <2>6. OneReplans'
    BY <1>0, <2>3 DEF OneReplans, TypeInv
  <2> QED
    BY <1>0, <2>3, <2>4, <2>5, <2>6 DEF ThreadTypes, PCs
<1>8. ASSUME NEW c \in Conns, Replan(c)
      PROVE  ThreadTypes' /\ KnownHeld' /\ OneReplans'
  <2>1. PICK fd \in fdOf(c) : replanning' = [fd |-> fd, at |-> 0]
    BY <1>8 DEF Replan
  <2>2. fd \in Conns \cup {Garbage}
    BY DEF fdOf
  <2>3. replanning' \in Replannings
    BY <2>1, <2>2, PRAIDAssumption DEF Replannings
  <2>4. threadPC' = [threadPC EXCEPT ![c] = "walk"] /\ UNCHANGED held /\ unlocked
    BY <1>8 DEF takeVars, Replan, goes
  <2>5. KnownHeld'
    BY <1>0, <2>4 DEF KnownHeld, TypeInv
  <2>7. OneReplans'
    BY <1>0, <2>3, <2>4 DEF OneReplans, unlocked
  <2> QED
    BY <1>0, <2>3, <2>4, <2>5, <2>7 DEF ThreadTypes, PCs
<1>9. ASSUME NEW c \in Conns, ReplanWrite(c) \/ ReplanRead(c)
      PROVE  ThreadTypes' /\ KnownHeld' /\ OneReplans'
  <2>1. nextReplanned(c) /\ UNCHANGED <<threadPC, held>>
    BY <1>9 DEF takeVars, ReplanWrite, ReplanRead
  <2>2. replanning \in Replannings
    BY <2>1 DEF nextReplanned, OneReplans, TypeInv
  <2>3. Min(toReplan) \in 1 .. Len(REQUEST_QUEUE)
    <3>1. toReplan \in SUBSET Nat /\ toReplan \subseteq 1 .. Len(REQUEST_QUEUE)
      BY Types DEF toReplan, TypeInv
    <3> QED
      BY <2>1, <3>1, MinIsLeast DEF nextReplanned
  <2>4. REQUEST_QUEUE[Min(toReplan)].id \in 0 .. MaxRequests
    BY <2>3, Types, PRAIDAssumption DEF TypeInv, Ids
  <2>5. replanning' \in Replannings
    BY <1>0, <2>1, <2>2, <2>4 DEF nextReplanned, Replannings
  <2>6. OneReplans'
    BY <1>0, <2>1, <2>5 DEF OneReplans, TypeInv
  <2> QED
  BY <1>0, <2>1, <2>5, <2>6 DEF ThreadTypes, PCs, KnownHeld, TypeInv
<1>10. ASSUME NEW c \in Conns, EndReplan(c)
       PROVE  ThreadTypes' /\ KnownHeld' /\ OneReplans'
  <2>1. /\ threadPC[c] = "walk" /\ threadPC' = [threadPC EXCEPT ![c] = "done"]
        /\ UNCHANGED held /\ replanning' = None
    BY <1>10 DEF takeVars, EndReplan, goes
  <2>2. KnownHeld'
    BY <1>0, <2>1 DEF KnownHeld, TypeInv
  <2>3. OneReplans'
    BY <1>0, <2>1 DEF OneReplans, TypeInv
  <2> QED
    BY <1>0, <2>1, <2>2, <2>3 DEF ThreadTypes, PCs
<1> QED
  BY <1>2, <1>3, <1>4, <1>5, <1>6, <1>7, <1>8, <1>9, <1>10, ThreadStep

LEMMA PfsTyped == ASSUME TypeInv, [Next]_vars PROVE PfsTypes'
<1>0. PFS_QUEUE \subseteq Pfs /\ pfs \in [Pfs -> {"new", "open", "left"}]
  BY DEF TypeInv, TypeOK, PfsTypes
<1>1. CASE UNCHANGED pfsVars
  BY <1>0, <1>1, AskedGrows DEF pfsVars, PfsTypes, TypeInv
<1>2. ASSUME NEW p \in Pfs, AcceptPFS(p) \/ PFSLeaves(p) PROVE PfsTypes'
  BY <1>0, <1>2, AskedGrows DEF AcceptPFS, PFSLeaves, PfsTypes, TypeInv
<1>3. ASSUME NEW p \in Pfs, NEW s \in Sectors, ReceiveWrite(p, s) \/ ReceiveRead(p, s)
      PROVE  PfsTypes'
  BY <1>0, <1>3, AskedGrows DEF ReceiveWrite, ReceiveRead, Receive, PfsTypes, TypeInv
<1>4. ASSUME NEW c \in Conns, Standby(c) PROVE PfsTypes'
  BY <1>0, <1>4, AskedGrows DEF Standby, PfsTypes, TypeInv
<1> QED
  BY <1>1, <1>2, <1>3, <1>4, PfsStep

LEMMA KnownMsgStep == ASSUME TypeInv, [Next]_vars PROVE KnownMsg'
<1>0. Len(asked) \in Nat /\ Len(asked)' \in Nat
  BY AskedGrows, Types DEF TypeInv
<1>1. ASSUME NEW p \in Pfs, NEW s \in Sectors, ReceiveWrite(p, s) \/ ReceiveRead(p, s)
      PROVE  KnownMsg'
  <2>1. msg' = Len(asked) + 1 /\ Len(asked)' = Len(asked) + 1 /\ Len(asked) < MaxRequests
    BY <1>1, Types DEF ReceiveWrite, ReceiveRead, Receive, TypeInv
  <2> QED
    BY <1>0, <2>1, PRAIDAssumption DEF KnownMsg, Ids
<1>2. CASE UNCHANGED asked /\ UNCHANGED <<mainPC, msg>>
  BY <1>2 DEF KnownMsg, TypeInv
<1>3. CASE QueueRead
  BY <1>3 DEF QueueRead, KnownMsg, pfsVars, TypeInv
<1>4. CASE mainPC' \in {"select", "handshake", "count", "store"}
  BY <1>4 DEF KnownMsg
<1>5. \/ UNCHANGED mainVars \/ QueueRead
      \/ mainPC' \in {"select", "handshake", "count", "store"}
      \/ \E p \in Pfs, s \in Sectors : ReceiveWrite(p, s) \/ ReceiveRead(p, s)
  BY MainStep DEF Broadcast, SendRead, LoadCount, StoreCount, AcceptPPD, RefusePPD, ReadBegin
<1>6. \/ UNCHANGED asked
      \/ \E p \in Pfs, s \in Sectors : ReceiveWrite(p, s) \/ ReceiveRead(p, s)
  BY PfsStep DEF pfsVars, AcceptPFS, PFSLeaves, Standby
<1> QED
  BY <1>1, <1>2, <1>3, <1>4, <1>5, <1>6 DEF mainVars

LEMMA DisksTyped == ASSUME TypeInv, [Next]_vars PROVE DiskTypes' /\ KnownDisk'
<1> DEFINE Answer == [id : Ids, value : 0 .. MaxRequests]
           knows(q) == \A c \in Conns : \A i \in DOMAIN q[c] : q[c][i] <= Len(asked)'
           knowsAll(q) == \A c \in Conns : \A i \in DOMAIN q[c] : q[c][i].id <= Len(asked)'
<1>0. /\ alive \subseteq Conns /\ pending \in [Conns -> Seq(Ids)]
      /\ outbox \in [Conns -> Seq(Answer)]
      /\ content \in [Conns -> [Sectors -> 0 .. MaxRequests]]
      /\ Len(asked) \in Nat /\ Len(asked)' \in Nat /\ Len(asked) <= Len(asked)'
  BY AskedGrows, Types DEF TypeInv
<1>1. knows(pending) /\ knowsAll(outbox)
  <2>1. \A id \in Ids : id <= Len(asked) => id <= Len(asked)'
    BY <1>0, PRAIDAssumption DEF Ids
  <2>2. ASSUME NEW c \in Conns, NEW i \in DOMAIN pending[c] PROVE pending[c][i] <= Len(asked)'
    <3>1. pending[c][i] \in Ids /\ pending[c][i] <= Len(asked)
      BY <1>0 DEF TypeInv, KnownDisk
    <3> QED
      BY <2>1, <3>1
  <2>3. ASSUME NEW c \in Conns, NEW i \in DOMAIN outbox[c]
        PROVE  outbox[c][i].id <= Len(asked)'
    <3>0. outbox[c] \in Seq(Answer) /\ \A a \in Answer : a.id \in Ids
      BY <1>0
    <3>1. outbox[c][i].id \in Ids /\ outbox[c][i].id <= Len(asked)
      <4> HIDE DEF Answer
      <4> QED
        BY <3>0 DEF TypeInv, KnownDisk
    <3> QED
      BY <2>1, <3>1
  <2> QED
    BY <2>2, <2>3
<1>2. ASSUME alive' \subseteq Conns, pending' \in [Conns -> Seq(Ids)], knows(pending'),
             outbox' \in [Conns -> Seq(Answer)], knowsAll(outbox'),
             content' \in [Conns -> [Sectors -> 0 .. MaxRequests]]
      PROVE  DiskTypes' /\ KnownDisk'
  BY <1>2 DEF DiskTypes, KnownDisk
\* A message sent to some disks.
<1>3. ASSUME NEW targets, NEW id \in Ids, id <= Len(asked)',
             pending' = sent(pending, targets, id), UNCHANGED <<alive, outbox, content>>
      PROVE  DiskTypes' /\ KnownDisk'
  <2>1. pending' \in [Conns -> Seq(Ids)]
    BY <1>0, <1>3, SentProperties
  <2>2. knows(pending')
    <3> SUFFICES ASSUME NEW c \in Conns, NEW i \in DOMAIN pending'[c]
                 PROVE  pending'[c][i] <= Len(asked)'
      OBVIOUS
    <3>1. pending'[c] = pending[c] \/ pending'[c] = Append(pending[c], id)
      <4>1. pending \in [Conns -> Seq(Ids)] /\ pending' = sent(pending, targets, id)
        BY <1>0, <1>3
      <4>2. sent(pending, targets, id)[c]
               = IF c \in targets \cap alive THEN Append(pending[c], id) ELSE pending[c]
        BY <1>3, <4>1, SentProperties
      <4> QED
        BY <4>1, <4>2
    <3>2. pending[c] \in Seq(Ids)
      BY <1>0
    <3>3. pending'[c] = Append(pending[c], id) =>
             \/ i \in DOMAIN pending[c] /\ pending'[c][i] = pending[c][i]
             \/ pending'[c][i] = id
      BY <3>2, AppendProperties
    <3> QED
      BY <1>1, <1>3, <3>1, <3>3
  <2> QED
    BY <1>0, <1>1, <1>2, <1>3, <2>1, <2>2
\* An answer received.
<1>4. ASSUME NEW c \in Conns, outbox[c] # <<>>, outbox' = [outbox EXCEPT ![c] = Tail(@)],
             UNCHANGED <<alive, pending, content>>
      PROVE  DiskTypes' /\ KnownDisk'
  <2>1. /\ Tail(outbox[c]) \in Seq(Answer)
        /\ Len(Tail(outbox[c])) = Len(outbox[c]) - 1
        /\ \A i \in 1 .. Len(outbox[c]) - 1 : Tail(outbox[c])[i] = outbox[c][i + 1]
    BY <1>4, ReceivedProperties DEF TypeInv
  <2>2. outbox' \in [Conns -> Seq(Answer)]
    BY <1>0, <1>4, <2>1
  <2>3. \A i \in DOMAIN Tail(outbox[c]) : Tail(outbox[c])[i].id <= Len(asked)'
    BY <1>0, <1>1, <2>1
  <2>4. knowsAll(outbox')
    BY <1>0, <1>1, <1>4, <2>3
  <2> QED
    BY <1>0, <1>1, <1>2, <1>4, <2>2, <2>4
<1>5. CASE UNCHANGED diskVars
  BY <1>0, <1>1, <1>2, <1>5 DEF diskVars
<1>6. CASE Broadcast
  BY <1>3, <1>6, <1>0 DEF Broadcast, TypeInv, KnownMsg, pfsVars
<1>7. CASE SendRead
  BY <1>3, <1>7, <1>0 DEF SendRead, TypeInv, KnownMsg, pfsVars
<1>8. ASSUME NEW c \in Conns, ReceiveWriteAnswer(c) \/ ReceiveReadAnswer(c)
      PROVE  DiskTypes' /\ KnownDisk'
  BY <1>4, <1>8 DEF ReceiveWriteAnswer, ReceiveReadAnswer
<1>9. ASSUME NEW c \in Conns, ReplanRead(c) PROVE DiskTypes' /\ KnownDisk'
  <2>1. Min(toReplan) \in 1 .. Len(REQUEST_QUEUE)
    <3>1. toReplan \in SUBSET Nat /\ toReplan \subseteq 1 .. Len(REQUEST_QUEUE)
      BY Types DEF toReplan, TypeInv
    <3> QED
      BY <1>9, <3>1, MinIsLeast DEF ReplanRead, nextReplanned
  <2>2. REQUEST_QUEUE[Min(toReplan)].id \in Ids
          /\ REQUEST_QUEUE[Min(toReplan)].id <= Len(asked)
    BY <2>1, Types DEF TypeInv, KnownQueue
  <2> QED
    BY <1>3, <1>9, <2>2, <1>0 DEF ReplanRead, pfsVars
<1>10. ASSUME NEW c \in Conns, NEW i \in DOMAIN pending[c], Perform(c, i)
       PROVE  DiskTypes' /\ KnownDisk'
  <2> DEFINE id == pending[c][i]
             s == asked[id].sector
             a == [id |-> id, value |-> content'[c][s]]
  <2>1. id \in Ids /\ id <= Len(asked) /\ id \in 1 .. Len(asked) /\ id \in 0 .. MaxRequests
    <3>1. id \in Ids /\ id <= Len(asked)
      BY <1>0 DEF TypeInv, KnownDisk
    <3> QED
      BY <3>1, <1>0, PRAIDAssumption DEF Ids
  <2>2. s \in Sectors
    <3>1. /\ id \in 1 .. Len(asked)
          /\ asked \in Seq([type : {READ, WRITE}, sector : Sectors, pfs : Pfs])
      BY <2>1, Types DEF TypeInv
    <3> DEFINE R == [type : {READ, WRITE}, sector : Sectors, pfs : Pfs]
    <3>2. ASSUME NEW q \in Seq(R), NEW k \in 1 .. Len(q) PROVE q[k] \in R
      <4> HIDE DEF R
      <4> QED
        BY <3>2
    <3> QED
      BY <3>1, <3>2
  <2>3. content' = IF isWrite(id) THEN [content EXCEPT ![c][s] = id] ELSE content
    BY <1>10 DEF Perform
  <2>4. pending' = [pending EXCEPT ![c] = RemoveAt(@, i)]
          /\ outbox' = [outbox EXCEPT ![c] = Append(@, a)] /\ UNCHANGED alive
    BY <1>10 DEF Perform
  <2> HIDE DEF s, id
  <2>5. content' \in [Conns -> [Sectors -> 0 .. MaxRequests]]
    <3>1. CASE isWrite(id)
      BY <1>0, <2>1, <2>2, <2>3, <3>1
    <3>2. CASE ~ isWrite(id)
      BY <1>0, <2>3, <3>2
    <3> QED
      BY <3>1, <3>2
  <2>6. a \in Answer /\ a.id = id
    BY <2>1, <2>2, <2>5
  <2> HIDE DEF a, Answer
  <2>7. outbox' \in [Conns -> Seq(Answer)] /\ outbox'[c] = Append(outbox[c], a)
    BY <1>0, <2>4, <2>6
  <2>8. ASSUME NEW d \in Conns, NEW j \in DOMAIN outbox'[d]
        PROVE  outbox'[d][j].id <= Len(asked)'
    <3>1. CASE d # c
      BY <1>0, <1>1, <2>4, <2>8, <3>1
    <3>2. CASE d = c
      <4>1. \/ j \in DOMAIN outbox[c] /\ outbox'[c][j] = outbox[c][j]
            \/ outbox'[c][j] = a
        BY <1>0, <2>6, <2>7, <2>8, <3>2, AppendProperties
      <4> QED
        BY <1>0, <1>1, <2>1, <2>6, <3>2, <4>1, PRAIDAssumption DEF Ids
    <3> QED
      BY <3>1, <3>2
  <2>9. pending[c] \in Seq(Ids) /\ i \in 1 .. Len(pending[c])
    BY <1>0
  <2>10. /\ RemoveAt(pending[c], i) \in Seq(Ids)
         /\ Len(RemoveAt(pending[c], i)) = Len(pending[c]) - 1
         /\ \A j \in 1 .. Len(pending[c]) - 1 :
               RemoveAt(pending[c], i)[j]
                  = IF j < i THEN pending[c][j] ELSE pending[c][j + 1]
    BY <2>9, RemoveAtProperties
  <2>11. pending' \in [Conns -> Seq(Ids)] /\ pending'[c] = RemoveAt(pending[c], i)
    BY <1>0, <2>4, <2>10
  <2>12. ASSUME NEW j \in DOMAIN RemoveAt(pending[c], i)
         PROVE  RemoveAt(pending[c], i)[j] <= Len(asked)'
    <3>1. j \in 1 .. Len(pending[c]) - 1 /\ j \in DOMAIN pending[c]
            /\ j + 1 \in DOMAIN pending[c]
      BY <2>9, <2>10
    <3>2. \/ RemoveAt(pending[c], i)[j] = pending[c][j]
          \/ RemoveAt(pending[c], i)[j] = pending[c][j + 1]
      BY <2>10, <3>1
    <3> QED
      BY <1>1, <3>1, <3>2
  <2>13. knows(pending')
    BY <1>0, <1>1, <2>4, <2>11, <2>12
  <2> QED
    BY <1>0, <1>2, <2>4, <2>5, <2>7, <2>8, <2>11, <2>13
<1>11. ASSUME NEW c \in Conns, Die(c) PROVE DiskTypes' /\ KnownDisk'
  <2>1. pending' \in [Conns -> Seq(Ids)] /\ knows(pending')
    BY <1>0, <1>1, <1>11 DEF Die
  <2> QED
    BY <1>0, <1>1, <1>2, <1>11, <2>1 DEF Die
<1> QED
  BY <1>5, <1>6, <1>7, <1>8, <1>9, <1>10, <1>11, DiskStep DEF DiskWorks


\* An answer is one of what the disks sent, or the id of the write.
LEMMA AnswersTyped ==
    ASSUME TypeInv, [Next]_vars PROVE answers' \in [Ids -> Seq(0 .. MaxRequests)]
<1>0. answers \in [Ids -> Seq(0 .. MaxRequests)] /\ held \in [Conns -> Ids \cup {None}]
  BY Types DEF TypeInv
<1>1. ASSUME NEW id \in Ids, NEW value \in 0 .. MaxRequests, answer(id, value)
      PROVE  answers' \in [Ids -> Seq(0 .. MaxRequests)]
  BY <1>0, <1>1 DEF answer
<1>2. ASSUME NEW c \in Conns, TakeWrite(c) \/ TakeAgain(c)
      PROVE  answers' \in [Ids -> Seq(0 .. MaxRequests)]
  <2>1. held[c] \in 1 .. Len(asked) /\ Len(asked) \in Nat /\ Len(asked) <= MaxRequests
    BY <1>2, Types DEF TakeWrite, TakeAgain, endsTake, goes, TypeInv, KnownHeld
  <2>2. held[c] \in Ids /\ held[c] \in 0 .. MaxRequests
    BY <2>1, PRAIDAssumption DEF Ids
  <2> QED
    BY <1>0, <1>1, <1>2, <2>2 DEF TakeWrite, TakeAgain
<1>3. ASSUME NEW c \in Conns, ReceiveReadAnswer(c)
      PROVE  answers' \in [Ids -> Seq(0 .. MaxRequests)]
  BY <1>1, <1>3, ReceivedProperties DEF ReceiveReadAnswer, TypeInv
<1> QED
  BY <1>0, <1>2, <1>3, AnswerStep

\* A process that died stays dead: nothing else changes crashed.
LEMMA CrashedTyped == ASSUME TypeInv, [Next]_vars PROVE crashed' \in BOOLEAN
<1>0. crashed \in BOOLEAN
  BY DEF TypeInv, TypeOK
<1>1. ASSUME NEW broken, mayBreak(broken) PROVE crashed' \in BOOLEAN
  BY <1>1, Zenon DEF mayBreak
<1>2. UNCHANGED crashed => crashed' \in BOOLEAN
  BY <1>0, Zenon
<1>3. Crash => crashed' \in BOOLEAN
  BY Zenon DEF Crash
<1>4. ASSUME NEW c \in Conns, TakeWrite(c) \/ TakeAgain(c) \/ ReceiveReadAnswer(c)
      PROVE  crashed' \in BOOLEAN
  BY <1>1, <1>2, <1>4, Zenon DEF TakeWrite, TakeAgain, ReceiveReadAnswer, answer
<1>5. CASE Broadcast \/ SendRead
  BY <1>1, <1>5, Zenon DEF Broadcast, SendRead
<1>6. ASSUME NEW c \in Conns, ReplanRead(c) PROVE crashed' \in BOOLEAN
  BY <1>1, <1>6, Zenon DEF ReplanRead
<1>7. ASSUME NEW c \in Conns, FollowNull(c) \/ FreesAnother(c) \/ ReplanFollowsNull(c)
      PROVE  Crash
  BY <1>7, Zenon DEF FollowNull, FreesAnother, ReplanFollowsNull
<1>8. ASSUME NEW p \in Pfs, ReceiveReadWithoutDisks(p) PROVE Crash
  BY <1>8, Zenon DEF ReceiveReadWithoutDisks
<1>9. FollowFreed => Crash
  BY Zenon DEF FollowFreed
<1> QED
  BY <1>9, <1>2, <1>3, <1>4, <1>5, <1>6, <1>7, <1>8, CrashStep, Zenon

LEMMA TypeStep == ASSUME TypeInv, [Next]_vars PROVE TypeInv'
<1>1. TypeOK'
  BY MainTyped, ListTyped, QueueTyped, ThreadsTyped, PfsTyped, AnswersTyped, DisksTyped,
     CrashedTyped, Zenon DEF TypeOK
<1>2. ListInv'
  BY StepInv, Zenon DEF TypeInv
<1> QED
  BY <1>1, <1>2, CountedStep, QueueTyped, FoundTyped, KnownMsgStep, ThreadsTyped, DisksTyped, Zenon
     DEF TypeInv

\* The state keeps its types, and what makes them inductive: a request has been
\* received before a node, a thread or a disk names it, PPD_COUNT is at most the
\* number of the threads started, and one thread at a time walks the list.
THEOREM TypeInvariant == Spec => []TypeInv
<1>1. Init => TypeInv
  BY InitTypes
<1>2. TypeInv /\ [Next]_vars => TypeInv'
  BY TypeStep
<1> QED
  BY <1>1, <1>2, PTL DEF Spec

\* The state of the process keeps its types: write_count never leaves 32 bits
\* (ppd_thread.c:84, 151), PPD_COUNT (ppd_queue.c:32, ppd_thread.c:124) is never
\* below zero or above the number of disks, and the list holds no disk twice.
THEOREM TypeCorrect == Spec => []TypeOK
<1>1. TypeInv => TypeOK
  BY DEF TypeInv
<1> QED
  BY <1>1, TypeInvariant, PTL

-----------------------------------------------------------------------------
(* Answers.                                                                 *)

\* What a step does to the list of requests: it keeps the nodes but for their
\* write_count, adds one, or takes one out, where it may lose the last ones
\* (removesNode).
keepsNodes ==
    /\ DOMAIN REQUEST_QUEUE' = DOMAIN REQUEST_QUEUE
    /\ \A i \in DOMAIN REQUEST_QUEUE : /\ REQUEST_QUEUE'[i].id = REQUEST_QUEUE[i].id
                                       /\ REQUEST_QUEUE'[i].ppd_fd = REQUEST_QUEUE[i].ppd_fd
addsNode(id, fd) ==
    /\ DOMAIN REQUEST_QUEUE' = 1 .. Len(REQUEST_QUEUE) + 1
    /\ \A i \in DOMAIN REQUEST_QUEUE : REQUEST_QUEUE'[i] = REQUEST_QUEUE[i]
    /\ REQUEST_QUEUE'[Len(REQUEST_QUEUE) + 1]
          = [id |-> id, ppd_fd |-> fd, write_count |-> PPD_COUNT]

LEMMA Discounts ==
    ASSUME TypeOK, NEW I,
           REQUEST_QUEUE' = [i \in DOMAIN REQUEST_QUEUE |->
              IF i \in I THEN discounted(REQUEST_QUEUE[i]) ELSE REQUEST_QUEUE[i]]
    PROVE  keepsNodes
<1>1. \A r \in Requests : discounted(r).id = r.id /\ discounted(r).ppd_fd = r.ppd_fd
  BY DEF Requests, discounted
<1> QED
  BY <1>1, Types DEF keepsNodes

LEMMA AddsNode ==
    ASSUME TypeOK, NEW id, NEW fd, REQUEST_QUEUE' = addNew(id, fd)
    PROVE  addsNode(id, fd)
<1> DEFINE r == [id |-> id, ppd_fd |-> fd, write_count |-> PPD_COUNT]
           q == REQUEST_QUEUE
<1>1. q \in Seq(Requests) /\ DOMAIN q = 1 .. Len(q)
  BY Types
<1>2. REQUEST_QUEUE' = Append(q, r)
  BY DEF addNew
<1>3. q \in Seq(Requests \cup {r})
  BY <1>1
<1> HIDE DEF q, r
<1>4. /\ DOMAIN Append(q, r) = 1 .. Len(q) + 1
      /\ \A i \in 1 .. Len(q) : Append(q, r)[i] = q[i]
      /\ Append(q, r)[Len(q) + 1] = r
  BY <1>3, AppendProperties
<1> QED
  BY <1>1, <1>2, <1>4 DEF addsNode, q, r

LEMMA QueueChange ==
    ASSUME TypeInv, [Next]_vars
    PROVE  \/ keepsNodes
           \/ QueueRead /\ \E fd \in fdOf(selected) : addsNode(msg, fd)
           \/ \E p \in Pfs, s \in Sectors : /\ ReceiveWrite(p, s)
                                            /\ addsNode(Len(asked) + 1, None)
           \/ \E c \in Conns : (TakeWrite(c) \/ TakeAgain(c)) /\ removesNode(held[c])
           \/ \E c \in Conns : ReceiveReadAnswer(c) /\ removesNode(received(c).id)
           \/ DOMAIN REQUEST_QUEUE' = {}
<1>0. REQUEST_QUEUE \in Seq(Requests) /\ DOMAIN REQUEST_QUEUE = 1 .. Len(REQUEST_QUEUE)
  BY Types DEF TypeInv
<1>1. ASSUME UNCHANGED REQUEST_QUEUE PROVE keepsNodes
  BY <1>1 DEF keepsNodes
<1>2. ASSUME NEW id, NEW fd, REQUEST_QUEUE' = addNew(id, fd) PROVE addsNode(id, fd)
  BY <1>2, AddsNode DEF TypeInv
<1>4. CASE QueueRead
  BY <1>2, <1>4 DEF QueueRead
<1>5. ASSUME NEW p \in Pfs, NEW s \in Sectors, ReceiveWrite(p, s)
      PROVE  addsNode(Len(asked) + 1, None)
  BY <1>2, <1>5 DEF ReceiveWrite, Receive
<1>6. ASSUME NEW c \in Conns, ReceiveWriteAnswer(c) PROVE keepsNodes
  BY <1>6, Discounts DEF ReceiveWriteAnswer, TypeInv
<1>7. ASSUME NEW c \in Conns, ReplanWrite(c) PROVE keepsNodes
  <2>1. CASE REQUEST_QUEUE' = [REQUEST_QUEUE EXCEPT ![Min(toReplan)] = discounted(@)]
    <3> DEFINE I == {Min(toReplan)}
    <3>1. REQUEST_QUEUE' = [i \in DOMAIN REQUEST_QUEUE |->
             IF i \in I THEN discounted(REQUEST_QUEUE[i]) ELSE REQUEST_QUEUE[i]]
      BY <1>0, <2>1
    <3> HIDE DEF I
    <3> QED
      BY <3>1, Discounts DEF TypeInv
  <2> QED
    BY <1>1, <1>7, <2>1 DEF ReplanWrite
<1>8. ASSUME NEW c \in Conns, TakeWrite(c) \/ TakeAgain(c) PROVE removesNode(held[c])
  BY <1>8, Removes DEF TypeInv
<1>9. ASSUME NEW c \in Conns, ReceiveReadAnswer(c) PROVE removesNode(received(c).id)
  BY <1>9, Removes DEF TypeInv
<1>10. ASSUME NEW c \in Conns, Standby(c) PROVE DOMAIN REQUEST_QUEUE' = {}
  BY <1>10 DEF Standby
<1> QED
  BY <1>1, <1>4, <1>5, <1>6, <1>7, <1>8, <1>9, <1>10, QueueStep, <1>2

\* The nodes are in the order of their ids; a request that was answered has no
\* node, and but for the writes taken twice it was answered once; the read about
\* to be queued has no node, was not answered and was found by no request_take.
InOrder ==
    \A i, j \in DOMAIN REQUEST_QUEUE :
        i < j => REQUEST_QUEUE[i].id < REQUEST_QUEUE[j].id
AnswerInv ==
    /\ InOrder
    /\ mainPC = "queueRead" =>
          /\ msg \notin queued /\ answers[msg] = <<>>
          /\ \A c \in Conns : msg \notin found[c]
    /\ \A id \in Ids :
          answers[id] # <<>> =>
              /\ id \in retaken \/ Len(answers[id]) = 1
              /\ id <= Len(asked) /\ id \notin queued

\* Every node of the list is of a request that was received.
LEMMA NodeTypes ==
    ASSUME TypeInv
    PROVE  /\ Len(asked) \in Nat /\ Len(REQUEST_QUEUE) \in Nat
           /\ DOMAIN REQUEST_QUEUE = 1 .. Len(REQUEST_QUEUE)
           /\ \A i \in DOMAIN REQUEST_QUEUE :
                 /\ REQUEST_QUEUE[i] \in Requests
                 /\ REQUEST_QUEUE[i].id \in Ids /\ REQUEST_QUEUE[i].id \in Nat
                 /\ REQUEST_QUEUE[i].id <= Len(asked)
                 /\ REQUEST_QUEUE[i].id \in 1 .. Len(asked)
<1>1. TypeOK /\ KnownQueue
  BY DEF TypeInv
<1>2. /\ Len(asked) \in Nat /\ REQUEST_QUEUE \in Seq(Requests)
      /\ DOMAIN REQUEST_QUEUE = 1 .. Len(REQUEST_QUEUE)
      /\ \A i \in 1 .. Len(REQUEST_QUEUE) :
            REQUEST_QUEUE[i] \in Requests /\ REQUEST_QUEUE[i].id \in Ids
  BY <1>1, Types
<1>3. Len(REQUEST_QUEUE) \in Nat
  BY <1>2
<1>4. \A id \in Ids : id \in Nat /\ id >= 1
  BY PRAIDAssumption DEF Ids
<1> QED
  BY <1>1, <1>2, <1>3, <1>4 DEF KnownQueue

\* The node of an id taken is not there any more.
LEMMA NodeRemoved ==
    ASSUME TypeInv, InOrder, NEW id, removesNode(id)
    PROVE  queued' \subseteq queued \ {id} /\ InOrder'
<1>0. /\ DOMAIN REQUEST_QUEUE = 1 .. Len(REQUEST_QUEUE) /\ Len(REQUEST_QUEUE) \in Nat
      /\ \A i \in DOMAIN REQUEST_QUEUE : REQUEST_QUEUE[i].id \in Nat
  BY NodeTypes
<1>1. PICK k \in 1 .. Len(REQUEST_QUEUE) + 1, n \in 0 .. Len(REQUEST_QUEUE) :
         /\ IF k <= Len(REQUEST_QUEUE) THEN REQUEST_QUEUE[k].id = id ELSE id \notin queued
         /\ k <= Len(REQUEST_QUEUE) => n < Len(REQUEST_QUEUE)
         /\ DOMAIN REQUEST_QUEUE' = 1 .. n
         /\ \A j \in 1 .. n :
               REQUEST_QUEUE'[j] = IF j < k THEN REQUEST_QUEUE[j] ELSE REQUEST_QUEUE[j + 1]
  BY DEF removesNode
<1>2. DOMAIN REQUEST_QUEUE' = 1 .. n /\ n \in Nat /\ k \in Nat
  BY <1>0, <1>1
<1>3. InOrder'
  <2> SUFFICES ASSUME NEW i \in DOMAIN REQUEST_QUEUE', NEW j \in DOMAIN REQUEST_QUEUE',
                      i < j
               PROVE  REQUEST_QUEUE'[i].id < REQUEST_QUEUE'[j].id
    BY DEF InOrder
  <2>1. /\ i \in DOMAIN REQUEST_QUEUE /\ j \in DOMAIN REQUEST_QUEUE
        /\ ~ (i < k) => i + 1 \in DOMAIN REQUEST_QUEUE
        /\ ~ (j < k) => j + 1 \in DOMAIN REQUEST_QUEUE
    BY <1>0, <1>1, <1>2
  <2>2. \A a, b \in DOMAIN REQUEST_QUEUE :
           a < b => REQUEST_QUEUE[a].id < REQUEST_QUEUE[b].id
    BY DEF InOrder
  <2>3. CASE j < k
    <3>1. REQUEST_QUEUE'[i] = REQUEST_QUEUE[i] /\ REQUEST_QUEUE'[j] = REQUEST_QUEUE[j]
      BY <1>0, <1>1, <1>2, <2>3
    <3> QED
      BY <2>1, <2>2, <3>1
  <2>4. CASE i < k /\ ~ (j < k)
    <3>1. REQUEST_QUEUE'[i] = REQUEST_QUEUE[i] /\ REQUEST_QUEUE'[j] = REQUEST_QUEUE[j + 1]
            /\ i < j + 1
      BY <1>0, <1>1, <1>2, <2>4
    <3>2. i \in DOMAIN REQUEST_QUEUE /\ j + 1 \in DOMAIN REQUEST_QUEUE
      BY <2>1, <2>4
    <3> QED
      BY <2>2, <3>1, <3>2
  <2>5. CASE ~ (i < k)
    <3>1. REQUEST_QUEUE'[i] = REQUEST_QUEUE[i + 1] /\ REQUEST_QUEUE'[j] = REQUEST_QUEUE[j + 1]
            /\ i + 1 < j + 1 /\ ~ (j < k)
      BY <1>0, <1>1, <1>2, <2>5
    <3>2. i + 1 \in DOMAIN REQUEST_QUEUE /\ j + 1 \in DOMAIN REQUEST_QUEUE
      BY <2>1, <2>5, <3>1
    <3> QED
      BY <2>2, <3>1, <3>2
  <2> QED
    BY <2>3, <2>4, <2>5
<1>4. ASSUME NEW j \in DOMAIN REQUEST_QUEUE'
      PROVE  REQUEST_QUEUE'[j].id \in queued \ {id}
  <2>0. CASE k > Len(REQUEST_QUEUE)
    <3>1. id \notin queued /\ j \in DOMAIN REQUEST_QUEUE /\ REQUEST_QUEUE'[j] = REQUEST_QUEUE[j]
      BY <1>0, <1>1, <1>2, <2>0
    <3> QED
      BY <3>1 DEF queued
  <2>1. CASE k <= Len(REQUEST_QUEUE) /\ j < k
    <3>1. /\ j \in DOMAIN REQUEST_QUEUE /\ k \in DOMAIN REQUEST_QUEUE
          /\ REQUEST_QUEUE'[j] = REQUEST_QUEUE[j] /\ REQUEST_QUEUE[k].id = id
      BY <1>0, <1>1, <1>2, <2>1
    <3> QED
      BY <1>0, <2>1, <3>1 DEF InOrder, queued
  <2>2. CASE k <= Len(REQUEST_QUEUE) /\ ~ (j < k)
    <3>1. /\ j + 1 \in DOMAIN REQUEST_QUEUE /\ k \in DOMAIN REQUEST_QUEUE /\ k < j + 1
          /\ REQUEST_QUEUE'[j] = REQUEST_QUEUE[j + 1] /\ REQUEST_QUEUE[k].id = id
      BY <1>0, <1>1, <1>2, <2>2
    <3> QED
      BY <1>0, <3>1 DEF InOrder, queued
  <2> QED
    BY <1>0, <1>2, <2>0, <2>1, <2>2
<1>6. queued' \subseteq queued \ {id}
  BY <1>4 DEF queued
<1> QED
  BY <1>3, <1>6

\* What a step does to the ids of the list.
LEMMA QueuedChange ==
    ASSUME TypeInv, [Next]_vars, InOrder
    PROVE  /\ \/ queued' = queued
              \/ QueueRead /\ queued' = queued \cup {msg}
              \/ \E p \in Pfs, s \in Sectors : /\ ReceiveWrite(p, s)
                                               /\ queued' = queued \cup {Len(asked) + 1}
              \/ \E c \in Conns : /\ TakeWrite(c) \/ TakeAgain(c)
                                  /\ queued' \subseteq queued \ {held[c]}
              \/ \E c \in Conns : /\ ReceiveReadAnswer(c)
                                  /\ queued' \subseteq queued \ {received(c).id}
              \/ queued' = {}
           /\ (mainPC = "queueRead" => msg \notin queued) => InOrder'
<1>0. /\ DOMAIN REQUEST_QUEUE = 1 .. Len(REQUEST_QUEUE) /\ Len(REQUEST_QUEUE) \in Nat
      /\ \A i \in DOMAIN REQUEST_QUEUE : REQUEST_QUEUE[i].id \in Nat
                                           /\ REQUEST_QUEUE[i].id <= Len(asked)
      /\ Len(asked) \in Nat
  BY NodeTypes
<1>1. CASE keepsNodes
  BY <1>1 DEF keepsNodes, InOrder, queued
<1>2. ASSUME NEW id, NEW fd, addsNode(id, fd)
      PROVE  /\ queued' = queued \cup {id}
             /\ id \in Nat /\ (\A i \in DOMAIN REQUEST_QUEUE : REQUEST_QUEUE[i].id < id)
                   => InOrder'
  <2>1. queued' = queued \cup {id}
    BY <1>0, <1>2 DEF addsNode, queued
  <2>2. ASSUME id \in Nat, \A i \in DOMAIN REQUEST_QUEUE : REQUEST_QUEUE[i].id < id
        PROVE  InOrder'
    BY <1>0, <1>2, <2>2 DEF addsNode, InOrder
  <2> QED
    BY <2>1, <2>2
<1>3. ASSUME NEW id, removesNode(id) PROVE queued' \subseteq queued \ {id} /\ InOrder'
  BY <1>3, NodeRemoved
<1>4. CASE DOMAIN REQUEST_QUEUE' = {}
  BY <1>4 DEF InOrder, queued
<1>5. ASSUME QueueRead, NEW fd \in fdOf(selected), addsNode(msg, fd),
             mainPC = "queueRead" => msg \notin queued
      PROVE  InOrder'
  <2>1. msg = Len(asked) /\ msg \notin queued
    BY <1>5 DEF QueueRead, TypeInv, KnownMsg
  <2> QED
    BY <1>0, <1>2, <1>5, <2>1 DEF queued
<1>6. ASSUME addsNode(Len(asked) + 1, None) PROVE InOrder'
  BY <1>0, <1>2, <1>6
<1> QED
  BY <1>1, <1>2, <1>3, <1>4, <1>5, <1>6, QueueChange

\* A request is answered when it is taken from the list, or when request_take
\* had found it before another took it.
takenNow(c, id) ==
    \/ TakeWrite(c) /\ id = held[c] /\ id \in queued
    \/ TakeAgain(c) /\ id = held[c] /\ id \in found[c] /\ id \in retaken'
    \/ ReceiveReadAnswer(c) /\ id = received(c).id /\ id \in queued

LEMMA AnswersChange ==
    ASSUME TypeInv, [Next]_vars
    PROVE  \/ UNCHANGED answers
           \/ \E c \in Conns : \E id \in Ids : \E value :
                 /\ takenNow(c, id) /\ removesNode(id) /\ id <= Len(asked)
                 /\ answers' = [answers EXCEPT ![id] = Append(@, value)]
<1>1. ASSUME NEW id, search(id) # {} PROVE id \in queued /\ id \in Ids /\ id <= Len(asked)
  BY <1>1, Types DEF search, queued, TypeInv, KnownQueue
<1>2. ASSUME NEW c \in Conns, TakeWrite(c)
      PROVE  UNCHANGED answers \/ answers' = [answers EXCEPT ![held[c]] = Append(@, held[c])]
  BY <1>2 DEF TakeWrite, answer
<1>3. ASSUME NEW c \in Conns, ReceiveReadAnswer(c)
      PROVE  \/ UNCHANGED answers
             \/ answers' = [answers EXCEPT ![received(c).id] = Append(@, received(c).value)]
  BY <1>3 DEF ReceiveReadAnswer, answer
<1>4. ASSUME NEW c \in Conns, TakeAgain(c)
      PROVE  UNCHANGED answers \/ answers' = [answers EXCEPT ![held[c]] = Append(@, held[c])]
  BY <1>4 DEF TakeAgain, answer
<1>5. ASSUME NEW c \in Conns, TakeWrite(c)
      PROVE  /\ takenNow(c, held[c]) /\ removesNode(held[c])
             /\ held[c] \in Ids /\ held[c] <= Len(asked)
  <2>1. search(held[c]) # {}
    BY <1>5 DEF TakeWrite
  <2> QED
    BY <1>1, <1>5, <2>1, Removes DEF takenNow, TypeInv
<1>6. ASSUME NEW c \in Conns, TakeAgain(c)
      PROVE  /\ takenNow(c, held[c]) /\ removesNode(held[c])
             /\ held[c] \in Ids /\ held[c] <= Len(asked)
  <2>1. held[c] \in found[c] /\ held[c] \in retaken'
    BY <1>6 DEF TakeAgain, endsTake
  <2>2. held[c] \in Ids /\ held[c] <= Len(asked)
    BY <2>1, Types DEF TypeInv, KnownFound
  <2> QED
    BY <1>6, <2>1, <2>2, Removes DEF takenNow, TypeInv
<1>7. ASSUME NEW c \in Conns, ReceiveReadAnswer(c)
      PROVE  /\ takenNow(c, received(c).id) /\ removesNode(received(c).id)
             /\ received(c).id \in Ids /\ received(c).id <= Len(asked)
  <2>1. search(received(c).id) # {}
    BY <1>7 DEF ReceiveReadAnswer
  <2> QED
    BY <1>1, <1>7, <2>1, Removes DEF takenNow, TypeInv
<1>8. CASE answers' # answers /\ \E c \in Conns : TakeWrite(c) \/ TakeAgain(c)
  <2>1. PICK c \in Conns : TakeWrite(c) \/ TakeAgain(c)
    BY <1>8
  <2> DEFINE id == held[c]
             value == held[c]
  <2>2. /\ takenNow(c, id) /\ removesNode(id) /\ id <= Len(asked) /\ id \in Ids
        /\ answers' = [answers EXCEPT ![id] = Append(@, value)]
    BY <1>2, <1>4, <1>5, <1>6, <1>8, <2>1
  <2> HIDE DEF id, value
  <2> QED
    BY <2>2
<1>9. CASE answers' # answers /\ \E c \in Conns : ReceiveReadAnswer(c)
  <2>1. PICK c \in Conns : ReceiveReadAnswer(c)
    BY <1>9
  <2> DEFINE id == received(c).id
             value == received(c).value
  <2>2. /\ takenNow(c, id) /\ removesNode(id) /\ id <= Len(asked) /\ id \in Ids
        /\ answers' = [answers EXCEPT ![id] = Append(@, value)]
    BY <1>3, <1>7, <1>9, <2>1
  <2> HIDE DEF id, value
  <2> QED
    BY <2>2
<1> QED
  BY <1>8, <1>9, AnswerStep

\* What was taken twice stays known.
LEMMA RetakenGrows == ASSUME [Next]_vars PROVE retaken \subseteq retaken'
  BY ThreadStep DEF threadVars, takeVars, StoreCount, RefusePPD, StartThread,
     ReceiveWriteAnswer, TestCount, TakeWrite, TakeAgain, NoticeDeath, CheckCount, Replan,
     ReplanWrite, ReplanRead, EndReplan, Standby

\* What request_take finds is in the list.
LEMMA FoundChange ==
    ASSUME TypeInv, [Next]_vars, NEW c \in Conns, NEW id, id \in found'[c]
    PROVE  \/ id \in found[c] /\ ~ (TestCount(c) /\ threadPC'[c] = "take")
           \/ TestCount(c) /\ threadPC'[c] = "take" /\ id \in queued
<1>0. found \in [Conns -> SUBSET Ids] /\ DOMAIN threadPC = Conns
  BY Types DEF TypeInv
<1>1. CASE TestCount(c)
  BY <1>0, <1>1 DEF TestCount, goes
<1>2. ASSUME NEW d \in Conns, TestCount(d), ~ TestCount(c)
      PROVE  found'[c] = found[c]
  <2>1. c # d
    BY <1>2
  <2> QED
    BY <1>0, <1>2, <2>1 DEF TestCount
<1>3. ASSUME NEW d \in Conns, TakeWrite(d) \/ TakeAgain(d)
      PROVE  found'[c] \subseteq found[c]
  BY <1>0, <1>3 DEF TakeWrite, TakeAgain, endsTake
<1>4. \/ UNCHANGED found
      \/ \E d \in Conns : TestCount(d) \/ TakeWrite(d) \/ TakeAgain(d)
  BY ThreadStep DEF threadVars, takeVars, StoreCount, RefusePPD, StartThread,
     ReceiveWriteAnswer, NoticeDeath, CheckCount, Replan, ReplanWrite, ReplanRead,
     EndReplan, Standby
<1> QED
  BY <1>1, <1>2, <1>3, <1>4

LEMMA InitAnswers == Init => AnswerInv
  BY DEF Init, AnswerInv, InOrder, queued

LEMMA AnswersStep == ASSUME TypeInv, AnswerInv, [Next]_vars PROVE AnswerInv'
<1>0. /\ answers \in [Ids -> Seq(0 .. MaxRequests)]
      /\ Len(asked) \in Nat /\ Len(asked)' \in Nat /\ Len(asked) <= Len(asked)'
      /\ \A id \in Ids : id \in Nat
      /\ \A id \in queued : id \in Ids /\ id <= Len(asked)
  BY Types, AskedGrows, PRAIDAssumption DEF TypeInv, Ids, queued, KnownQueue
<1>1. InOrder'
  BY QueuedChange DEF AnswerInv
\* The read about to be queued has just been received.
<1>2. ASSUME mainPC' = "queueRead" 
      PROVE  /\ msg' \notin queued' /\ answers'[msg'] = <<>>
             /\ \A c \in Conns : msg' \notin found'[c]
  <2>1. CASE \E p \in Pfs, s \in Sectors : ReceiveRead(p, s)
    <3>0. /\ msg' = Len(asked) + 1 /\ Len(asked) < MaxRequests
          /\ UNCHANGED <<REQUEST_QUEUE, answers, found>>
      BY <2>1 DEF ReceiveRead, Receive, threadVars, takeVars
    <3>1. msg' = Len(asked) + 1 /\ msg' \in Ids
            /\ UNCHANGED <<REQUEST_QUEUE, answers, found>>
      BY <1>0, <3>0, PRAIDAssumption DEF Ids
    <3>2. answers[msg'] = <<>>
      BY <1>0, <3>1 DEF AnswerInv
    <3>3. \A c \in Conns : msg' \notin found'[c]
      BY <1>0, <3>1 DEF TypeInv, KnownFound
    <3> QED
      BY <1>0, <3>1, <3>2, <3>3 DEF queued
  <2>2. CASE UNCHANGED mainVars
    <3>1. mainPC = "queueRead" /\ msg' = msg /\ msg \in Ids
      BY <1>2, <2>2 DEF mainVars, TypeInv, KnownMsg
    <3>2. msg \notin queued /\ answers[msg] = <<>> /\ \A c \in Conns : msg \notin found[c]
      BY <3>1 DEF AnswerInv
    <3>3. ~ QueueRead /\ \A p \in Pfs, s \in Sectors : ~ ReceiveWrite(p, s)
      BY <1>2, <3>1 DEF QueueRead, ReceiveWrite, Receive
    <3>4. msg \notin queued'
      BY <3>2, <3>3, QueuedChange DEF AnswerInv
    <3>5. answers'[msg] = answers[msg]
      BY <1>0, <3>1, <3>2, AnswersChange DEF takenNow
    <3>6. \A c \in Conns : msg \notin found'[c]
      BY <3>2, FoundChange
    <3> QED
      BY <3>1, <3>2, <3>4, <3>5, <3>6
  <2> QED
    BY <1>2, <2>1, <2>2, MainStep DEF Broadcast, QueueRead, SendRead, LoadCount, StoreCount,
       ReceiveWrite, AcceptPPD, RefusePPD, ReadBegin
<1>3. ASSUME NEW id \in Ids, answers'[id] # <<>>
      PROVE  /\ id \in retaken' \/ Len(answers'[id]) = 1
             /\ id <= Len(asked)' /\ id \notin queued'
  \* It had been answered: it does not come back.
  <2>1. CASE answers'[id] = answers[id]
    <3>1. /\ id \in retaken \/ Len(answers[id]) = 1
          /\ id <= Len(asked) /\ id \notin queued
      BY <1>3, <2>1 DEF AnswerInv
    <3>2. ~ (QueueRead /\ id = msg)
      BY <1>3, <2>1 DEF QueueRead, AnswerInv
    <3>3. id # Len(asked) + 1
      BY <1>0, <3>1
    <3>4. id \notin queued'
      BY <3>1, <3>2, <3>3, QueuedChange DEF AnswerInv
    <3> QED
      BY <1>0, <2>1, <3>1, <3>4, RetakenGrows
  \* It is answered now: it has just been taken from the list, or was taken before.
  <2>2. CASE answers'[id] # answers[id]
    <3>0. PICK c \in Conns : \E value :
             /\ takenNow(c, id) /\ removesNode(id) /\ id <= Len(asked)
             /\ answers' = [answers EXCEPT ![id] = Append(@, value)]
      <4>1. PICK c \in Conns : \E e \in Ids : \E value :
               /\ takenNow(c, e) /\ removesNode(e) /\ e <= Len(asked)
               /\ answers' = [answers EXCEPT ![e] = Append(@, value)]
        BY <1>0, <2>2, AnswersChange
      <4>2. PICK e \in Ids : \E value :
               /\ takenNow(c, e) /\ removesNode(e) /\ e <= Len(asked)
               /\ answers' = [answers EXCEPT ![e] = Append(@, value)]
        BY <4>1
      <4>3. e = id
        BY <1>0, <2>2, <4>2
      <4> QED
        BY <4>2, <4>3
    <3>1. PICK value :
             /\ takenNow(c, id) /\ removesNode(id) /\ id <= Len(asked)
             /\ answers' = [answers EXCEPT ![id] = Append(@, value)]
      BY <3>0
    <3>5. id \notin queued'
      BY <3>1, NodeRemoved DEF AnswerInv
    <3>2. CASE id \in queued
      <4>1. answers[id] = <<>>
        BY <3>2 DEF AnswerInv
      <4> QED
        BY <1>0, <3>1, <4>1, <3>5
    <3>3. CASE id \notin queued
      BY <1>0, <3>1, <3>3, <3>5 DEF takenNow
    <3> QED
      BY <3>2, <3>3
  <2> QED
    BY <2>1, <2>2
<1> QED
  BY <1>1, <1>2, <1>3 DEF AnswerInv

\* A request that was answered has left the queue, which is in order of ids
\* (request_take, request_handler.c:35-64).
THEOREM AnswerInvariance == Spec => []AnswerInv
<1>1. TypeInv /\ AnswerInv /\ [Next]_vars => AnswerInv'
  BY AnswersStep
<1> QED
  BY <1>1, InitAnswers, TypeInvariant, PTL DEF Spec

\* A PFS gets two answers to a request only if two threads were in request_take
\* with it at once (ppd_thread.c:87-91): neither the order in which threads find
\* it complete nor sending a read again gives it another.
THEOREM AnsweredOnce == Spec => []AtMostOneAnswer
<1>1. TypeInv /\ AnswerInv => AtMostOneAnswer
  <2> SUFFICES ASSUME TypeInv, AnswerInv, NEW id \in Ids \ retaken
               PROVE  Len(answers[id]) <= 1
    BY DEF AtMostOneAnswer
  <2>1. CASE answers[id] = <<>>
    BY <2>1
  <2>2. CASE answers[id] # <<>>
    <3>1. Len(answers[id]) = 1
      BY <2>2 DEF AnswerInv
    <3> QED
      BY <3>1
  <2> QED
    BY <2>1, <2>2
<1> QED
  BY <1>1, TypeInvariant, AnswerInvariance, PTL

-----------------------------------------------------------------------------
(* Copies.                                                                  *)

\* Who is in the list: a disk that is accepted comes, one that is found lost
\* goes.
LEMMA Members ==
    ASSUME TypeInv, [Next]_vars
    PROVE  /\ \/ UNCHANGED PPD_QUEUE
              \/ \E c \in Conns : AcceptPPD(c) \/ NoticeDeath(c)
           /\ \A c \in Conns : AcceptPPD(c) =>
                 /\ c \notin Range(PPD_QUEUE)
                 /\ Range(PPD_QUEUE') = Range(PPD_QUEUE) \cup {c}
           /\ \A c \in Conns : NoticeDeath(c) =>
                 /\ c \in Range(PPD_QUEUE)
                 /\ Range(PPD_QUEUE') = Range(PPD_QUEUE) \ {c}
<1>0. PPD_QUEUE \in Seq(Conns) /\ ListInv
  BY Types DEF TypeInv
<1>1. ASSUME NEW c \in Conns, AcceptPPD(c)
      PROVE  c \notin Range(PPD_QUEUE) /\ Range(PPD_QUEUE') = Range(PPD_QUEUE) \cup {c}
  <2>1. PPD_QUEUE' = Append(PPD_QUEUE, c)
    BY <1>1 DEF AcceptPPD
  <2>2. /\ DOMAIN Append(PPD_QUEUE, c) = 1 .. Len(PPD_QUEUE) + 1
        /\ \A i \in 1 .. Len(PPD_QUEUE) : Append(PPD_QUEUE, c)[i] = PPD_QUEUE[i]
        /\ Append(PPD_QUEUE, c)[Len(PPD_QUEUE) + 1] = c
        /\ DOMAIN PPD_QUEUE = 1 .. Len(PPD_QUEUE) /\ Len(PPD_QUEUE) \in Nat
    BY <1>0, AppendProperties
  <2>3. c \notin Range(PPD_QUEUE)
    BY <1>0, <1>1 DEF AcceptPPD, mayConnect, connects, ListInv
  <2> QED
    BY <2>1, <2>2, <2>3 DEF Range
<1>2. ASSUME NEW c \in Conns, NoticeDeath(c)
      PROVE  c \in Range(PPD_QUEUE) /\ Range(PPD_QUEUE') = Range(PPD_QUEUE) \ {c}
  BY <1>0, <1>2, NodeOfDisk DEF NoticeDeath, goes, ListInv
<1>3. \/ UNCHANGED PPD_QUEUE
      \/ \E c \in Conns : AcceptPPD(c) \/ NoticeDeath(c)
  BY ListStep DEF ppdVars, Broadcast, StoreCount, ReceiveRead, Receive, StartThread,
     ReplanRead
<1> QED
  BY <1>1, <1>2, <1>3

\* The writes that were sent to the disks.
sentWrites ==
    {w \in 1 .. Len(asked) : isWrite(w) /\ ~ (mainPC = "broadcast" /\ msg = w)}

\* A node has a descriptor if it is that of a read.
Kinds ==
    /\ mainPC = "broadcast" => isWrite(msg)
    /\ mainPC \in {"queueRead", "sendRead"} => ~ isWrite(msg) /\ selected \in Conns
    /\ \A i \in DOMAIN REQUEST_QUEUE :
          REQUEST_QUEUE[i].ppd_fd = None <=> isWrite(REQUEST_QUEUE[i].id)

\* What was asked stays what it was.
LEMMA AskedStays ==
    ASSUME TypeInv, [Next]_vars, NEW id \in 1 .. Len(asked)
    PROVE  /\ asked'[id] = asked[id] /\ id \in 1 .. Len(asked)'
           /\ isWrite(id)' <=> isWrite(id)
           /\ asked'[id].type = WRITE <=> isWrite(id)
<1>1. /\ \A i \in 1 .. Len(asked) : asked'[i] = asked[i]
      /\ Len(asked) <= Len(asked)' /\ Len(asked) \in Nat /\ Len(asked)' \in Nat
  BY AskedGrows, Types DEF TypeInv
<1>2. asked'[id] = asked[id] /\ id \in 1 .. Len(asked)'
  BY <1>1
<1> QED
  BY <1>2 DEF isWrite

\* The main thread between receiving a request and sending it.
LEMMA MessageChange ==
    ASSUME TypeInv, [Next]_vars, mainPC' \in {"broadcast", "queueRead", "sendRead"}
    PROVE  \/ UNCHANGED <<mainPC, msg, selected, asked>>
           \/ QueueRead /\ mainPC' = "sendRead" /\ UNCHANGED <<msg, selected, asked>>
           \/ \E p \in Pfs, s \in Sectors : ReceiveWrite(p, s) /\ mainPC' = "broadcast"
           \/ \E p \in Pfs, s \in Sectors : ReceiveRead(p, s) /\ mainPC' = "queueRead"
<1>1. \/ UNCHANGED asked
      \/ \E p \in Pfs, s \in Sectors : ReceiveWrite(p, s) \/ ReceiveRead(p, s)
  BY PfsStep DEF pfsVars, AcceptPFS, PFSLeaves, Standby
<1>2. CASE UNCHANGED mainVars
  <2>1. \A p \in Pfs, s \in Sectors : ~ ReceiveWrite(p, s) /\ ~ ReceiveRead(p, s)
    BY <1>2 DEF mainVars, ReceiveWrite, ReceiveRead, Receive
  <2> QED
    BY <1>1, <1>2, <2>1 DEF mainVars
<1>3. CASE QueueRead
  BY <1>3 DEF QueueRead, pfsVars
<1> QED
  BY <1>2, <1>3, MainStep DEF Broadcast, SendRead, LoadCount, StoreCount, AcceptPPD,
     RefusePPD, ReadBegin,
     ReceiveWrite, ReceiveRead

\* What a request received is.
LEMMA RequestReceived ==
    ASSUME TypeInv, NEW p \in Pfs, NEW s \in Sectors
    PROVE  /\ ReceiveWrite(p, s) \/ ReceiveRead(p, s) =>
                 /\ Len(asked)' = Len(asked) + 1 /\ msg' = Len(asked)'
                 /\ asked'[msg']
                       = [type |-> IF ReceiveWrite(p, s) THEN WRITE ELSE READ,
                          sector |-> s, pfs |-> p]
                 /\ mainPC = "select"
                 /\ msg' = Len(asked) + 1 /\ Len(asked) \in Nat
           /\ ReceiveWrite(p, s) => isWrite(msg)' /\ asked'[Len(asked) + 1].type = WRITE
           /\ ReceiveRead(p, s) => /\ ~ isWrite(msg)' /\ asked'[Len(asked) + 1].type # WRITE
                                   /\ selected' \in Conns
<1>0. asked \in Seq([type : {READ, WRITE}, sector : Sectors, pfs : Pfs])
  BY Types DEF TypeInv
<1>1. ASSUME NEW type \in {READ, WRITE}, Receive(p, type, s)
      PROVE  /\ Len(asked)' = Len(asked) + 1 /\ msg' = Len(asked)'
             /\ asked'[msg'] = [type |-> type, sector |-> s, pfs |-> p]
             /\ mainPC = "select"
  BY <1>0, <1>1 DEF Receive
<1>2. ReceiveWrite(p, s) => Receive(p, WRITE, s) /\ mainPC' = "broadcast"
  BY DEF ReceiveWrite
<1>3. ReceiveRead(p, s) => /\ Receive(p, READ, s) /\ mainPC' = "queueRead"
                           /\ selected' \in Conns
  BY LessRequestedType DEF ReceiveRead, TypeInv
<1> QED
  BY <1>1, <1>2, <1>3 DEF isWrite, READ, WRITE

\* A node that is not taken was there.
LEMMA OldNode ==
    ASSUME TypeOK, NEW id, removesNode(id), NEW i \in DOMAIN REQUEST_QUEUE'
    PROVE  \E j \in DOMAIN REQUEST_QUEUE : REQUEST_QUEUE'[i] = REQUEST_QUEUE[j]
<1>0. DOMAIN REQUEST_QUEUE = 1 .. Len(REQUEST_QUEUE) /\ Len(REQUEST_QUEUE) \in Nat
  BY Types
<1>1. PICK k \in 1 .. Len(REQUEST_QUEUE) + 1, n \in 0 .. Len(REQUEST_QUEUE) :
         /\ k <= Len(REQUEST_QUEUE) => n < Len(REQUEST_QUEUE)
         /\ DOMAIN REQUEST_QUEUE' = 1 .. n
         /\ \A j \in 1 .. n :
               REQUEST_QUEUE'[j] = IF j < k THEN REQUEST_QUEUE[j] ELSE REQUEST_QUEUE[j + 1]
  BY DEF removesNode
<1>2. IF i < k THEN i \in DOMAIN REQUEST_QUEUE ELSE i + 1 \in DOMAIN REQUEST_QUEUE
  BY <1>0, <1>1
<1> QED
  BY <1>1, <1>2

LEMMA KindsStep == ASSUME TypeInv, Kinds, [Next]_vars PROVE Kinds'
<1>0. /\ \A i \in DOMAIN REQUEST_QUEUE : REQUEST_QUEUE[i].id \in 1 .. Len(asked)
      /\ DOMAIN REQUEST_QUEUE = 1 .. Len(REQUEST_QUEUE) /\ Len(REQUEST_QUEUE) \in Nat
      /\ Len(asked) \in Nat
  BY NodeTypes
<1>1. ASSUME mainPC' \in {"broadcast", "queueRead", "sendRead"}
      PROVE  /\ mainPC' = "broadcast" => isWrite(msg)'
             /\ mainPC' # "broadcast" => ~ isWrite(msg)' /\ selected' \in Conns
  <2>1. CASE UNCHANGED <<mainPC, msg, selected, asked>>
    BY <1>1, <2>1 DEF Kinds, isWrite
  <2>2. CASE QueueRead /\ mainPC' = "sendRead" /\ UNCHANGED <<msg, selected, asked>>
    BY <2>2 DEF Kinds, isWrite, QueueRead
  <2> QED
    BY <1>1, <2>1, <2>2, MessageChange, RequestReceived
<1>2. \A i \in DOMAIN REQUEST_QUEUE :
         REQUEST_QUEUE[i].ppd_fd = None <=> asked'[REQUEST_QUEUE[i].id].type = WRITE
  <2> SUFFICES ASSUME NEW i \in DOMAIN REQUEST_QUEUE
               PROVE  REQUEST_QUEUE[i].ppd_fd = None
                        <=> asked'[REQUEST_QUEUE[i].id].type = WRITE
    OBVIOUS
  <2>1. REQUEST_QUEUE[i].ppd_fd = None <=> isWrite(REQUEST_QUEUE[i].id)
    BY DEF Kinds
  <2>2. REQUEST_QUEUE[i].id \in 1 .. Len(asked)
    BY <1>0
  <2> QED
    BY <2>1, <2>2, AskedStays
<1>3. ASSUME NEW i \in DOMAIN REQUEST_QUEUE'
      PROVE  REQUEST_QUEUE'[i].ppd_fd = None
                 <=> asked'[REQUEST_QUEUE'[i].id].type = WRITE
  <2>1. CASE keepsNodes
    BY <1>2, <1>3, <2>1 DEF keepsNodes
  <2>2. ASSUME NEW id, NEW fd, addsNode(id, fd), fd = None <=> asked'[id].type = WRITE
        PROVE  REQUEST_QUEUE'[i].ppd_fd = None
                 <=> asked'[REQUEST_QUEUE'[i].id].type = WRITE
    BY <1>0, <1>2, <1>3, <2>2 DEF addsNode
  <2>3. ASSUME NEW id, removesNode(id)
        PROVE  REQUEST_QUEUE'[i].ppd_fd = None
                 <=> asked'[REQUEST_QUEUE'[i].id].type = WRITE
    <3>1. \E j \in DOMAIN REQUEST_QUEUE : REQUEST_QUEUE'[i] = REQUEST_QUEUE[j]
      BY <1>3, <2>3, OldNode DEF TypeInv
    <3> QED
      BY <1>2, <3>1
  <2>4. ASSUME QueueRead, NEW fd \in fdOf(selected)
        PROVE  fd = None <=> asked'[msg].type = WRITE
    <3>1. ~ isWrite(msg) /\ selected \in Conns /\ UNCHANGED <<asked, msg>>
      BY <2>4 DEF QueueRead, Kinds, pfsVars
    <3> QED
      BY <2>4, <3>1, PRAIDAssumption DEF fdOf, isWrite
  <2>5. ASSUME NEW p \in Pfs, NEW s \in Sectors, ReceiveWrite(p, s)
        PROVE  asked'[Len(asked) + 1].type = WRITE
    BY <2>5, RequestReceived
  <2> QED
    BY <1>3, <2>1, <2>2, <2>3, <2>4, <2>5, QueueChange
<1> QED
  BY <1>1, <1>3 DEF Kinds, isWrite

\* The writes sent grow by the one that is broadcast.
LEMMA SentGrows ==
    ASSUME TypeInv, Kinds, [Next]_vars
    PROVE  /\ sentWrites' = IF Broadcast THEN sentWrites \cup {msg} ELSE sentWrites
           /\ Broadcast => msg \in 1 .. Len(asked) /\ \A w \in sentWrites : w < msg
<1>0. Len(asked) \in Nat
  BY Types DEF TypeInv
<1>1. CASE Broadcast
  <2>1. msg = Len(asked) /\ msg \in 1 .. Len(asked) /\ isWrite(msg)
    BY <1>0, <1>1, PRAIDAssumption DEF Broadcast, TypeInv, KnownMsg, Kinds, Ids
  <2>2. mainPC = "broadcast" /\ mainPC' = "select" /\ UNCHANGED asked
    BY <1>1 DEF Broadcast, pfsVars
  <2> QED
    BY <1>0, <1>1, <2>1, <2>2 DEF sentWrites, isWrite
<1>2. CASE ~ Broadcast /\ UNCHANGED asked
  <2>1. (mainPC' = "broadcast" <=> mainPC = "broadcast")
          /\ (mainPC = "broadcast" => UNCHANGED msg)
    <3>1. \A p \in Pfs, s \in Sectors : ~ ReceiveWrite(p, s) /\ ~ ReceiveRead(p, s)
      <4> SUFFICES ASSUME NEW p \in Pfs, NEW s \in Sectors,
                          ReceiveWrite(p, s) \/ ReceiveRead(p, s)
                   PROVE  FALSE
        OBVIOUS
      <4>1. Len(asked)' = Len(asked) + 1
        BY RequestReceived
      <4> QED
        BY <1>0, <1>2, <4>1
    <3>2. UNCHANGED mainVars \/ (mainPC # "broadcast" /\ mainPC' # "broadcast")
      BY <1>2, <3>1, MainStep DEF QueueRead, SendRead, LoadCount, StoreCount, AcceptPPD,
         RefusePPD, ReadBegin, mayConnect
    <3> QED
      BY <3>2 DEF mainVars
  <2> QED
    BY <1>2, <2>1 DEF sentWrites, isWrite
<1>3. ASSUME NEW p \in Pfs, NEW s \in Sectors, ReceiveWrite(p, s) \/ ReceiveRead(p, s)
      PROVE  sentWrites' = sentWrites /\ ~ Broadcast
  <2>1. /\ Len(asked)' = Len(asked) + 1 /\ msg' = Len(asked)' /\ mainPC = "select"
        /\ ReceiveWrite(p, s) => mainPC' = "broadcast"
        /\ ReceiveRead(p, s) => asked'[Len(asked) + 1].type # WRITE
    <3>1. ReceiveWrite(p, s) => mainPC' = "broadcast"
      BY DEF ReceiveWrite
    <3> QED
      BY <1>3, <3>1, RequestReceived
  <2>2. ASSUME NEW w PROVE w \in sentWrites' <=> w \in sentWrites
    <3>1. CASE w \in 1 .. Len(asked)
      BY <1>0, <2>1, <3>1, AskedStays DEF sentWrites
    <3>2. CASE w = Len(asked) + 1
      BY <1>0, <1>3, <2>1, <3>2 DEF sentWrites, isWrite
    <3>3. w \in 1 .. Len(asked)' <=> w \in 1 .. Len(asked) \/ w = Len(asked) + 1
      BY <1>0, <2>1
    <3>4. CASE ~ (w \in 1 .. Len(asked)')
      BY <3>3, <3>4 DEF sentWrites
    <3> QED
      BY <3>1, <3>2, <3>3, <3>4
  <2> QED
    BY <2>1, <2>2 DEF Broadcast, sentWrites
<1>4. \/ UNCHANGED asked
      \/ \E p \in Pfs, s \in Sectors : ReceiveWrite(p, s) \/ ReceiveRead(p, s)
  BY PfsStep DEF pfsVars, AcceptPFS, PFSLeaves, Standby
<1> QED
  BY <1>1, <1>2, <1>3, <1>4

beingCounted(c) == mainPC \in {"count", "store"} /\ selected = c

\* A disk in the list is being counted or its thread works, and is READY once it
\* has started; the disks that are not Late have all started when the first
\* request comes.
Listed ==
    \A c \in Conns :
        /\ c \in Range(PPD_QUEUE) => threadPC[c] \in works \/ beingCounted(c)
        /\ threadPC[c] \in works \ {"start"} => status[c] = READY
        /\ asked # <<>> /\ c \notin Late => threadPC[c] # "start" /\ ~ beingCounted(c)

\* Where the threads go.
LEMMA ThreadMoves ==
    ASSUME TypeInv, [Next]_vars, NEW c \in Conns
    PROVE  \/ threadPC'[c] = threadPC[c]
           \/ StoreCount /\ c = selected /\ threadPC'[c] = "start"
           \/ RefusePPD(c) /\ threadPC'[c] = "refused"
           \/ StartThread(c) /\ threadPC[c] = "start" /\ threadPC'[c] = "recv"
           \/ /\ ReceiveWriteAnswer(c) \/ TestCount(c) \/ TakeWrite(c) \/ TakeAgain(c)
              /\ threadPC[c] \in {"recv", "test", "take"}
              /\ threadPC'[c] \in {"recv", "test", "take"}
           \/ NoticeDeath(c) /\ threadPC[c] = "recv" /\ threadPC'[c] = "lost"
           \/ /\ threadPC[c] \in {"lost", "replan", "walk", "standby"}
              /\ threadPC'[c] \in {"replan", "walk", "standby", "done"}
<1>0. DOMAIN threadPC = Conns
  BY Types DEF TypeInv
<1>1. CASE UNCHANGED threadPC
  BY <1>1
<1>2. CASE StoreCount
  BY <1>0, <1>2 DEF StoreCount
<1>3. ASSUME NEW d \in Conns, RefusePPD(d)
      PROVE  threadPC'[c] = threadPC[c] \/ (d = c /\ threadPC'[c] = "refused")
  BY <1>0, <1>3 DEF RefusePPD
<1>4. ASSUME NEW d \in Conns, StartThread(d)
      PROVE  \/ threadPC'[c] = threadPC[c]
             \/ d = c /\ threadPC[c] = "start" /\ threadPC'[c] = "recv"
  BY <1>0, <1>4 DEF StartThread, goes
<1>5. ASSUME NEW d \in Conns,
             ReceiveWriteAnswer(d) \/ TestCount(d) \/ TakeWrite(d) \/ TakeAgain(d)
      PROVE  \/ threadPC'[c] = threadPC[c]
             \/ d = c /\ threadPC[c] \in {"recv", "test", "take"}
                      /\ threadPC'[c] \in {"recv", "test", "take"}
  BY <1>0, <1>5 DEF ReceiveWriteAnswer, TestCount, TakeWrite, TakeAgain, endsTake, goes
<1>6. ASSUME NEW d \in Conns, NoticeDeath(d)
      PROVE  \/ threadPC'[c] = threadPC[c]
             \/ d = c /\ threadPC[c] = "recv" /\ threadPC'[c] = "lost"
  BY <1>0, <1>6 DEF NoticeDeath, goes
<1>7. ASSUME NEW d \in Conns, CheckCount(d) \/ Replan(d) \/ EndReplan(d) \/ Standby(d)
      PROVE  \/ threadPC'[c] = threadPC[c]
             \/ /\ threadPC[c] \in {"lost", "replan", "walk", "standby"}
                /\ threadPC'[c] \in {"replan", "walk", "standby", "done"}
  BY <1>0, <1>7 DEF CheckCount, Replan, EndReplan, Standby, goes
<1>8. ASSUME NEW d \in Conns, ReplanWrite(d) \/ ReplanRead(d) PROVE UNCHANGED threadPC
  BY <1>8 DEF ReplanWrite, ReplanRead
<1> QED
  BY <1>1, <1>2, <1>3, <1>4, <1>5, <1>6, <1>7, <1>8, ThreadStep DEF threadVars, takeVars

\* When the main thread begins and ends to count a disk.
LEMMA CountingChange ==
    ASSUME TypeInv, [Next]_vars, NEW c \in Conns
    PROVE  /\ \/ beingCounted(c)' <=> beingCounted(c)
              \/ AcceptPPD(c)
              \/ StoreCount /\ selected = c
           /\ StoreCount /\ selected = c => beingCounted(c) /\ ~ beingCounted(c)'
           /\ AcceptPPD(c) => beingCounted(c)'
<1> USE DEF beingCounted
<1>1. CASE UNCHANGED mainVars
  BY <1>1 DEF mainVars, AcceptPPD, mayConnect, StoreCount
<1>2. CASE Broadcast \/ QueueRead \/ SendRead
  BY <1>2 DEF Broadcast, QueueRead, SendRead, StoreCount, AcceptPPD, mayConnect
<1>3. CASE LoadCount \/ StoreCount
  BY <1>3 DEF LoadCount, StoreCount, AcceptPPD, mayConnect
<1>4. ASSUME NEW p \in Pfs, NEW s \in Sectors, ReceiveWrite(p, s) \/ ReceiveRead(p, s)
      PROVE  mainPC = "select" /\ mainPC' \in {"broadcast", "queueRead"}
  BY <1>4 DEF ReceiveWrite, ReceiveRead, Receive
<1>5. ASSUME NEW d \in Conns, AcceptPPD(d)
      PROVE  mainPC = "handshake" /\ mainPC' = "count" /\ selected' = d
  BY <1>5 DEF AcceptPPD, mayConnect
<1>6. CASE \E p \in Pfs, s \in Sectors : ReceiveWrite(p, s) \/ ReceiveRead(p, s)
  BY <1>4, <1>5, <1>6 DEF StoreCount
<1>7. CASE \E d \in Conns : AcceptPPD(d)
  BY <1>5, <1>7 DEF StoreCount
<1>8. ASSUME ReadBegin \/ \E d \in Conns : RefusePPD(d)
      PROVE  mainPC \in {"select", "handshake"} /\ mainPC' \in {"select", "handshake"}
  BY <1>8 DEF ReadBegin, RefusePPD, mayConnect
<1>9. CASE ReadBegin \/ \E d \in Conns : RefusePPD(d)
  BY <1>5, <1>8, <1>9 DEF StoreCount
<1> QED
  BY <1>1, <1>2, <1>3, <1>6, <1>7, <1>9, MainStep

LEMMA ListedStep == ASSUME TypeInv, Listed, [Next]_vars PROVE Listed'
<1> SUFFICES ASSUME NEW c \in Conns
             PROVE  /\ c \in Range(PPD_QUEUE') => threadPC'[c] \in works \/ beingCounted(c)'
                    /\ threadPC'[c] \in works \ {"start"} => status'[c] = READY
                    /\ asked' # <<>> /\ c \notin Late =>
                          threadPC'[c] # "start" /\ ~ beingCounted(c)'
  BY DEF Listed
<1>0. /\ c \in Range(PPD_QUEUE) => threadPC[c] \in works \/ beingCounted(c)
      /\ threadPC[c] \in works \ {"start"} => status[c] = READY
      /\ asked # <<>> /\ c \notin Late => threadPC[c] # "start" /\ ~ beingCounted(c)
  BY DEF Listed
<1>1. /\ threadPC[c] \in works => c \in Range(PPD_QUEUE)
      /\ beingCounted(c) => c \in Range(PPD_QUEUE) /\ threadPC[c] = "none"
  BY DEF TypeInv, ListInv, works, beingCounted
<1>2. ASSUME c \in Range(PPD_QUEUE')
      PROVE  threadPC'[c] \in works \/ beingCounted(c)'
  <2>1. AcceptPPD(c) \/ (c \in Range(PPD_QUEUE) /\ ~ NoticeDeath(c))
    BY <1>2, Members
  <2>2. CASE AcceptPPD(c)
    BY <2>2, CountingChange
  <2>3. CASE c \in Range(PPD_QUEUE) /\ ~ NoticeDeath(c) /\ threadPC[c] \in works
    BY <2>3, ThreadMoves DEF works, RefusePPD, mayConnect, connects
  <2>4. CASE beingCounted(c) /\ ~ (StoreCount /\ selected = c)
    BY <2>4, CountingChange
  <2>5. CASE StoreCount /\ selected = c
    BY <2>5, Types DEF StoreCount, works, TypeInv
  <2> QED
    BY <1>0, <2>1, <2>2, <2>3, <2>4, <2>5
<1>3. ASSUME threadPC'[c] \in works \ {"start"} PROVE status'[c] = READY
  <2>0. status \in [Conns -> {READY, WAIT_SYNCH, None}]
    BY Types DEF TypeInv
  <2>1. CASE StartThread(c)
    BY <2>0, <2>1 DEF StartThread
  <2>2. CASE threadPC[c] \in works \ {"start"}
    <3>1. CASE UNCHANGED status
      BY <1>0, <2>2, <3>1
    <3>2. ASSUME NEW d \in Conns, AcceptPPD(d) \/ StartThread(d) \/ NoticeDeath(d)
          PROVE  status'[c] = READY
      <4>1. d # c
        BY <1>3, <2>2, <3>2, Types DEF AcceptPPD, mayConnect, connects, StartThread, NoticeDeath,
           goes, works, TypeInv
      <4> QED
        BY <1>0, <2>0, <2>2, <3>2, <4>1 DEF AcceptPPD, StartThread, NoticeDeath
    <3> QED
      BY <3>1, <3>2, ListStep DEF ppdVars, Broadcast, StoreCount, ReceiveRead, Receive,
         ReplanRead
  <2>3. CASE threadPC[c] \notin works \ {"start"} /\ ~ StartThread(c)
    BY <1>3, <2>3, ThreadMoves DEF works
  <2> QED
    BY <2>1, <2>2, <2>3
<1>4. ASSUME asked' # <<>>, c \notin Late
      PROVE  threadPC'[c] # "start" /\ ~ beingCounted(c)'
  <2>1. CASE asked # <<>>
    <3>1. ~ AcceptPPD(c)
      BY <1>4, <2>1 DEF AcceptPPD, mayConnect, connects
    <3>2. ~ (StoreCount /\ selected = c)
      BY <1>0, <1>4, <2>1, CountingChange
    <3> QED
      BY <1>0, <1>4, <2>1, <3>1, <3>2, CountingChange, ThreadMoves
  <2>2. CASE asked = <<>>
    <3>1. PICK p \in Pfs, s \in Sectors : ReceiveWrite(p, s) \/ ReceiveRead(p, s)
      BY <1>4, <2>2, PfsStep DEF pfsVars, AcceptPFS, PFSLeaves, Standby
    <3>2. settled /\ threadPC' = threadPC /\ mainPC' \in {"broadcast", "queueRead"}
      BY <3>1 DEF ReceiveWrite, ReceiveRead, Receive, threadVars, takeVars
    <3> QED
      BY <1>4, <3>2 DEF settled, beingCounted
  <2> QED
    BY <2>1, <2>2
<1> QED
  BY <1>2, <1>3, <1>4

\* The disks a broadcast reaches.
reached == {c \in Range(PPD_QUEUE) : status[c] = READY} \cap alive

\* What a step does to what a disk holds and has to do.
LEMMA DiskChange ==
    ASSUME TypeInv, Kinds, [Next]_vars, NEW c \in Conns
    PROVE  \/ /\ pending'[c] = pending[c] /\ content'[c] = content[c]
              /\ Broadcast => c \notin reached
           \/ /\ Broadcast /\ c \in reached
              /\ pending'[c] = Append(pending[c], msg) /\ content'[c] = content[c]
           \/ /\ ~ Broadcast /\ content'[c] = content[c]
              /\ \E id \in 1 .. Len(asked) : /\ id \in Ids /\ ~ isWrite(id)
                                             /\ pending'[c] = Append(pending[c], id)
           \/ \E i \in DOMAIN pending[c] : Perform(c, i)
           \/ /\ Die(c) /\ pending'[c] = <<>> /\ content'[c] = content[c]
<1>0. /\ pending \in [Conns -> Seq(Ids)] /\ Len(asked) \in Nat
      /\ content \in [Conns -> [Sectors -> 0 .. MaxRequests]]
  BY Types DEF TypeInv
<1>1. ASSUME NEW targets, NEW id, pending' = sent(pending, targets, id), UNCHANGED content
      PROVE  /\ content'[c] = content[c]
             /\ pending'[c] = IF c \in targets \cap alive THEN Append(pending[c], id)
                                                          ELSE pending[c]
  BY <1>1 DEF sent
<1>2. CASE Broadcast
  <2> DEFINE targets == {d \in Range(PPD_QUEUE) : status[d] = READY}
  <2>1. pending' = sent(pending, targets, msg) /\ UNCHANGED content
    BY <1>2 DEF Broadcast
  <2>2. targets \cap alive = reached
    BY DEF reached
  <2> HIDE DEF targets
  <2> QED
    BY <1>1, <1>2, <2>1, <2>2
<1>3. CASE SendRead
  <2>1. PICK fd \in fdOf(selected) : pending' = sent(pending, {fd}, msg)
    BY <1>3 DEF SendRead
  <2>2. UNCHANGED content /\ ~ Broadcast
    BY <1>3 DEF SendRead, Broadcast
  <2>3. msg \in 1 .. Len(asked) /\ msg \in Ids /\ ~ isWrite(msg)
    BY <1>0, <1>3, PRAIDAssumption DEF SendRead, TypeInv, KnownMsg, Kinds, Ids
  <2> QED
    BY <1>1, <2>1, <2>2, <2>3
<1>4. ASSUME NEW d \in Conns, ReplanRead(d)
      PROVE  /\ ~ Broadcast /\ content'[c] = content[c]
             /\ \/ pending'[c] = pending[c]
                \/ \E id \in 1 .. Len(asked) : /\ id \in Ids /\ ~ isWrite(id)
                                               /\ pending'[c] = Append(pending[c], id)
  <2> DEFINE r == REQUEST_QUEUE[Min(toReplan)]
  <2>1. Min(toReplan) \in DOMAIN REQUEST_QUEUE
    <3>1. toReplan \in SUBSET Nat /\ toReplan \subseteq DOMAIN REQUEST_QUEUE
      BY Types DEF toReplan, TypeInv
    <3> QED
      BY <1>4, <3>1, MinIsLeast DEF ReplanRead, nextReplanned
  <2>2. /\ r.ppd_fd # None /\ pending' = sent(pending, {lessRequested}, r.id)
        /\ UNCHANGED content /\ ~ Broadcast
    BY <1>4 DEF ReplanRead, Broadcast, mainVars
  <2>3. r.id \in 1 .. Len(asked) /\ r.id \in Ids
    BY <1>0, <2>1, NodeTypes
  <2>4. ~ isWrite(r.id)
    BY <2>1, <2>2 DEF Kinds
  <2> HIDE DEF r
  <2> QED
    BY <1>1, <2>2, <2>3, <2>4
<1>5. ASSUME NEW d \in Conns, ReceiveWriteAnswer(d) \/ ReceiveReadAnswer(d)
      PROVE  ~ Broadcast /\ pending'[c] = pending[c] /\ content'[c] = content[c]
  BY <1>5 DEF ReceiveWriteAnswer, ReceiveReadAnswer, Broadcast, mainVars
<1>6. ASSUME NEW d \in Conns, NEW i \in DOMAIN pending[d], Perform(d, i), d # c
      PROVE  ~ Broadcast /\ pending'[c] = pending[c] /\ content'[c] = content[c]
  BY <1>0, <1>6 DEF Perform, Broadcast, mainVars
<1>7. ASSUME NEW d \in Conns, Die(d)
      PROVE  /\ ~ Broadcast /\ content'[c] = content[c]
             /\ pending'[c] = pending[c] \/ (d = c /\ pending'[c] = <<>>)
  BY <1>0, <1>7 DEF Die, Broadcast, mainVars
<1>8. CASE UNCHANGED diskVars /\ ~ Broadcast
  BY <1>8 DEF diskVars
<1>9. CASE \E d \in Conns : DiskWorks(d)
  BY <1>6, <1>9 DEF DiskWorks
<1> QED
  BY <1>2, <1>3, <1>4, <1>5, <1>7, <1>8, <1>9, DiskStep

\* What a disk holds and what it has to write are writes that were sent; it has
\* to make them in the order they were asked for, and none of them yet.
Sent ==
    \A c \in Conns :
        /\ \A s \in Sectors :
              \/ content[c][s] = 0
              \/ content[c][s] \in sentWrites /\ asked[content[c][s]].sector = s
        /\ \A i \in DOMAIN pending[c] : isWrite(pending[c][i]) =>
              /\ pending[c][i] \in sentWrites
              /\ pending[c][i] > content[c][asked[pending[c][i]].sector]
        /\ \A i, j \in DOMAIN pending[c] :
              i < j /\ isWrite(pending[c][i]) /\ isWrite(pending[c][j]) =>
                  pending[c][i] < pending[c][j]

LEMMA SentStep == ASSUME TypeInv, Kinds, Sent, [Next]_vars PROVE Sent'
<1> SUFFICES ASSUME NEW c \in Conns
             PROVE  /\ \A s \in Sectors :
                          \/ content'[c][s] = 0
                          \/ /\ content'[c][s] \in sentWrites'
                             /\ asked'[content'[c][s]].sector = s
                    /\ \A i \in DOMAIN pending'[c] : asked'[pending'[c][i]].type = WRITE =>
                          /\ pending'[c][i] \in sentWrites'
                          /\ pending'[c][i] > content'[c][asked'[pending'[c][i]].sector]
                    /\ \A i, j \in DOMAIN pending'[c] :
                          /\ i < j
                          /\ asked'[pending'[c][i]].type = WRITE
                          /\ asked'[pending'[c][j]].type = WRITE
                          => pending'[c][i] < pending'[c][j]
  BY DEF Sent, isWrite
<1> DEFINE p == pending[c]
           d == content[c]
<1>0. /\ p \in Seq(Ids) /\ DOMAIN p = 1 .. Len(p) /\ Len(p) \in Nat
      /\ d \in [Sectors -> 0 .. MaxRequests]
      /\ \A i \in DOMAIN p : p[i] \in 1 .. Len(asked) /\ p[i] \in Nat
      /\ Len(asked) \in Nat /\ \A s \in Sectors : d[s] \in Nat
  <2>1. p \in Seq(Ids) /\ d \in [Sectors -> 0 .. MaxRequests] /\ Len(asked) \in Nat
    BY Types DEF TypeInv
  <2>2. \A i \in DOMAIN p : p[i] <= Len(asked)
    BY DEF TypeInv, KnownDisk
  <2> HIDE DEF p, d
  <2>3. \A i \in DOMAIN p : p[i] \in Ids
    BY <2>1
  <2> QED
    BY <2>1, <2>2, <2>3, PRAIDAssumption DEF Ids
\* What was asked and sent before the step, seen after it.
<1>1. \A w \in 1 .. Len(asked) :
         asked'[w] = asked[w] /\ (asked'[w].type = WRITE <=> isWrite(w))
  BY AskedStays
<1>2. \A w \in sentWrites : w \in sentWrites' /\ w \in 1 .. Len(asked)
  BY SentGrows DEF sentWrites
<1>3. /\ \A s \in Sectors : d[s] = 0 \/ (d[s] \in sentWrites /\ asked[d[s]].sector = s)
      /\ \A i \in DOMAIN p : isWrite(p[i]) =>
            p[i] \in sentWrites /\ p[i] > d[asked[p[i]].sector]
      /\ \A i, j \in DOMAIN p : i < j /\ isWrite(p[i]) /\ isWrite(p[j]) => p[i] < p[j]
  BY DEF Sent
<1> HIDE DEF p, d
\* Contents that stay.
<1>4. ASSUME content'[c] = d
      PROVE  \A s \in Sectors :
                \/ content'[c][s] = 0
                \/ content'[c][s] \in sentWrites' /\ asked'[content'[c][s]].sector = s
  BY <1>1, <1>2, <1>3, <1>4
<1>5. \A i \in DOMAIN p : /\ asked'[p[i]].type = WRITE <=> isWrite(p[i])
                          /\ asked'[p[i]].sector = asked[p[i]].sector
  BY <1>0, <1>1
<1>6. CASE content'[c] = d /\ pending'[c] = p
  BY <1>2, <1>3, <1>4, <1>5, <1>6
<1>7. CASE content'[c] = d /\ pending'[c] = <<>>
  BY <1>4, <1>7
\* One more at the end, a read or the write that is broadcast.
<1>8. ASSUME NEW id \in 1 .. Len(asked), id \in Ids,
             content'[c] = d, pending'[c] = Append(p, id),
             isWrite(id) => /\ id \in sentWrites' /\ id > d[asked[id].sector]
                            /\ \A i \in DOMAIN p : isWrite(p[i]) => p[i] < id
      PROVE  /\ \A i \in DOMAIN pending'[c] : asked'[pending'[c][i]].type = WRITE =>
                   /\ pending'[c][i] \in sentWrites'
                   /\ pending'[c][i] > content'[c][asked'[pending'[c][i]].sector]
             /\ \A i, j \in DOMAIN pending'[c] :
                   /\ i < j
                   /\ asked'[pending'[c][i]].type = WRITE
                   /\ asked'[pending'[c][j]].type = WRITE
                   => pending'[c][i] < pending'[c][j]
  <2>1. /\ DOMAIN pending'[c] = 1 .. Len(p) + 1
        /\ \A i \in 1 .. Len(p) : pending'[c][i] = p[i]
        /\ pending'[c][Len(p) + 1] = id
    BY <1>0, <1>8, AppendProperties
  <2>2. asked'[id] = asked[id] /\ (asked'[id].type = WRITE <=> isWrite(id))
    BY <1>1, <1>8
  <2>3. \A i \in DOMAIN pending'[c] : i \in DOMAIN p \/ i = Len(p) + 1
    BY <1>0, <2>1
  <2>4. ASSUME NEW i \in DOMAIN pending'[c], asked'[pending'[c][i]].type = WRITE
        PROVE  /\ pending'[c][i] \in sentWrites'
               /\ pending'[c][i] > content'[c][asked'[pending'[c][i]].sector]
    <3>1. CASE i \in DOMAIN p
      BY <1>0, <1>2, <1>3, <1>5, <1>8, <2>1, <2>4, <3>1
    <3>2. CASE i = Len(p) + 1
      BY <1>8, <2>1, <2>2, <2>4, <3>2
    <3> QED
      BY <2>3, <3>1, <3>2
  <2>5. ASSUME NEW i \in DOMAIN pending'[c], NEW j \in DOMAIN pending'[c], i < j,
               asked'[pending'[c][i]].type = WRITE, asked'[pending'[c][j]].type = WRITE
        PROVE  pending'[c][i] < pending'[c][j]
    <3>1. i \in DOMAIN p
      BY <1>0, <2>1, <2>5
    <3>2. CASE j \in DOMAIN p
      BY <1>0, <1>3, <1>5, <2>1, <2>5, <3>1, <3>2
    <3>3. CASE j = Len(p) + 1
      BY <1>0, <1>5, <1>8, <2>1, <2>2, <2>5, <3>1, <3>3
    <3> QED
      BY <2>3, <3>2, <3>3
  <2> QED
    BY <2>4, <2>5
<1>9. CASE Broadcast /\ pending'[c] = Append(p, msg) /\ content'[c] = d
  <2>1. /\ msg \in 1 .. Len(asked) /\ msg \in sentWrites' /\ msg \in Ids
        /\ \A w \in sentWrites : w < msg
    BY <1>9, SentGrows DEF Broadcast, TypeInv, KnownMsg
  <2>2. asked[msg].sector \in Sectors
    <3> DEFINE R == [type : {READ, WRITE}, sector : Sectors, pfs : Pfs]
    <3>1. asked \in Seq(R)
      BY Types DEF TypeInv
    <3>2. \A r \in R : r.sector \in Sectors
      OBVIOUS
    <3> HIDE DEF R
    <3>3. asked[msg] \in R
      BY <2>1, <3>1
    <3> QED
      BY <3>2, <3>3
  <2>3. msg > d[asked[msg].sector]
    BY <1>0, <1>3, <2>1, <2>2
  <2>4. \A i \in DOMAIN p : isWrite(p[i]) => p[i] < msg
    BY <1>3, <2>1
  <2> QED
    BY <1>4, <1>8, <1>9, <2>1, <2>3, <2>4
<1>10. ASSUME NEW id \in 1 .. Len(asked), id \in Ids, ~ isWrite(id),
              content'[c] = d, pending'[c] = Append(p, id)
       PROVE  /\ \A i \in DOMAIN pending'[c] : asked'[pending'[c][i]].type = WRITE =>
                    /\ pending'[c][i] \in sentWrites'
                    /\ pending'[c][i] > content'[c][asked'[pending'[c][i]].sector]
              /\ \A i, j \in DOMAIN pending'[c] :
                    /\ i < j
                    /\ asked'[pending'[c][i]].type = WRITE
                    /\ asked'[pending'[c][j]].type = WRITE
                    => pending'[c][i] < pending'[c][j]
  BY <1>8, <1>10
\* The disk performs a request: if it is a write, those of its sector come later.
<1>11. ASSUME NEW n \in DOMAIN p, Perform(c, n)
       PROVE  /\ \A s \in Sectors :
                    \/ content'[c][s] = 0
                    \/ content'[c][s] \in sentWrites' /\ asked'[content'[c][s]].sector = s
              /\ \A i \in DOMAIN pending'[c] : asked'[pending'[c][i]].type = WRITE =>
                    /\ pending'[c][i] \in sentWrites'
                    /\ pending'[c][i] > content'[c][asked'[pending'[c][i]].sector]
              /\ \A i, j \in DOMAIN pending'[c] :
                    /\ i < j
                    /\ asked'[pending'[c][i]].type = WRITE
                    /\ asked'[pending'[c][j]].type = WRITE
                    => pending'[c][i] < pending'[c][j]
  <2> DEFINE id == p[n]
             s == asked[id].sector
             k(j) == IF j < n THEN j ELSE j + 1
  <2>1. /\ pending'[c] = RemoveAt(p, n)
        /\ content'[c] = IF isWrite(id) THEN [d EXCEPT ![s] = id] ELSE d
        /\ \A j \in 1 .. n - 1 : ~ (isWrite(p[j]) /\ asked[p[j]].sector = s)
    BY <1>11, Types DEF Perform, mayPass, p, d, TypeInv
  <2>2. /\ DOMAIN pending'[c] = 1 .. Len(p) - 1
        /\ \A j \in DOMAIN pending'[c] : /\ k(j) \in DOMAIN p /\ k(j) # n
                                         /\ pending'[c][j] = p[k(j)]
        /\ \A i, j \in DOMAIN pending'[c] : i < j => k(i) < k(j)
    <3>1. /\ RemoveAt(p, n) \in Seq(Ids) /\ Len(RemoveAt(p, n)) = Len(p) - 1
          /\ \A j \in 1 .. Len(p) - 1 :
                RemoveAt(p, n)[j] = IF j < n THEN p[j] ELSE p[j + 1]
      <4>1. p \in Seq(Ids) /\ n \in 1 .. Len(p)
        BY <1>0, <1>11
      <4> QED
        BY <4>1, RemoveAtProperties
    <3>2. DOMAIN pending'[c] = 1 .. Len(p) - 1
      BY <2>1, <3>1
    <3>3. n \in 1 .. Len(p)
      BY <1>0
    <3> QED
      BY <1>0, <2>1, <3>1, <3>2, <3>3
  <2> HIDE DEF k, id, s
  <2>3. /\ id \in 1 .. Len(asked) /\ id \in Nat
        /\ isWrite(id) => id \in sentWrites /\ id > d[s]
        /\ asked'[id].sector = s
    BY <1>0, <1>1, <1>3, <1>11 DEF id, s
  <2>4. ASSUME NEW t \in Sectors
        PROVE  content'[c][t] = IF isWrite(id) /\ t = s THEN id ELSE d[t]
    BY <1>0, <2>1, <2>4
  <2>5. \A t \in Sectors :
           \/ content'[c][t] = 0
           \/ content'[c][t] \in sentWrites' /\ asked'[content'[c][t]].sector = t
    BY <1>1, <1>2, <1>3, <2>3, <2>4
  <2>6. ASSUME NEW j \in DOMAIN pending'[c], asked'[pending'[c][j]].type = WRITE
        PROVE  /\ pending'[c][j] \in sentWrites'
               /\ pending'[c][j] > content'[c][asked'[pending'[c][j]].sector]
    <3> DEFINE e == p[k(j)]
    <3>1. /\ e = pending'[c][j] /\ k(j) \in DOMAIN p /\ k(j) # n /\ isWrite(e)
          /\ asked'[e].sector = asked[e].sector /\ e \in Nat
      BY <1>0, <1>5, <2>2, <2>6
    <3>2. e \in sentWrites /\ e > d[asked[e].sector]
      BY <1>3, <3>1
    <3>3. asked[e].sector \in Sectors
      <4> DEFINE R == [type : {READ, WRITE}, sector : Sectors, pfs : Pfs]
      <4>1. asked \in Seq(R)
        BY Types DEF TypeInv
      <4>2. \A r \in R : r.sector \in Sectors
        OBVIOUS
      <4>3. e \in 1 .. Len(asked)
        BY <1>0, <3>1
      <4> HIDE DEF R, e
      <4>4. asked[e] \in R
        BY <4>1, <4>3
      <4> QED
        BY <4>2, <4>4
    <3>4. isWrite(id) /\ asked[e].sector = s => id < e
      <4>1. asked[e].sector = s => ~ (k(j) \in 1 .. n - 1)
        BY <2>1, <3>1
      <4>2. asked[e].sector = s => n < k(j)
        BY <1>0, <1>11, <3>1, <4>1
      <4> QED
        BY <1>3, <1>11, <3>1, <4>2 DEF id
    <3>5. e > content'[c][asked[e].sector]
      BY <2>4, <3>2, <3>3, <3>4, <2>3, <3>1
    <3> QED
      BY <1>2, <3>1, <3>2, <3>5
  <2>7. ASSUME NEW i \in DOMAIN pending'[c], NEW j \in DOMAIN pending'[c], i < j,
               asked'[pending'[c][i]].type = WRITE, asked'[pending'[c][j]].type = WRITE
        PROVE  pending'[c][i] < pending'[c][j]
    BY <1>3, <1>5, <2>2, <2>7
  <2> QED
    BY <2>5, <2>6, <2>7
<1> QED
  BY <1>4, <1>6, <1>7, <1>9, <1>10, <1>11, DiskChange DEF p, d

\* What sequences lose and gain.
LEMMA RangeOfAppend ==
    ASSUME NEW T, NEW s \in Seq(T), NEW e
    PROVE  Range(Append(s, e)) = Range(s) \cup {e}
<1>1. s \in Seq(T \cup {e}) /\ e \in T \cup {e}
  OBVIOUS
<1>2. /\ DOMAIN Append(s, e) = 1 .. Len(s) + 1
      /\ \A i \in 1 .. Len(s) : Append(s, e)[i] = s[i]
      /\ Append(s, e)[Len(s) + 1] = e
      /\ DOMAIN s = 1 .. Len(s) /\ Len(s) \in Nat
  BY <1>1, AppendProperties
<1> QED
  BY <1>2 DEF Range

LEMMA RangeOfRemoveAt ==
    ASSUME NEW T, NEW s \in Seq(T), NEW n \in 1 .. Len(s)
    PROVE  /\ Range(RemoveAt(s, n)) \subseteq Range(s)
           /\ \A e \in Range(s) : e # s[n] => e \in Range(RemoveAt(s, n))
           /\ s[n] \in Range(s)
<1> DEFINE r == RemoveAt(s, n)
<1>1. /\ DOMAIN r = 1 .. Len(s) - 1 /\ DOMAIN s = 1 .. Len(s) /\ Len(s) \in Nat
      /\ \A j \in 1 .. Len(s) - 1 : r[j] = IF j < n THEN s[j] ELSE s[j + 1]
  <2>1. /\ r \in Seq(T) /\ Len(r) = Len(s) - 1
        /\ \A j \in 1 .. Len(s) - 1 : r[j] = IF j < n THEN s[j] ELSE s[j + 1]
    BY RemoveAtProperties
  <2> HIDE DEF r
  <2> QED
    BY <2>1
<1> HIDE DEF r
<1>2. Range(r) \subseteq Range(s)
  <2>1. ASSUME NEW j \in DOMAIN r PROVE r[j] \in Range(s)
    <3>1. j \in DOMAIN s /\ j + 1 \in DOMAIN s
      BY <1>1, <2>1
    <3> QED
      BY <1>1, <2>1, <3>1 DEF Range
  <2> QED
    BY <2>1 DEF Range
<1>3. ASSUME NEW i \in DOMAIN s, s[i] # s[n] PROVE s[i] \in Range(r)
  <2>1. CASE i < n
    BY <1>1, <2>1 DEF Range
  <2>2. CASE i > n
    <3>1. i - 1 \in DOMAIN r /\ r[i - 1] = s[i]
      BY <1>1, <2>2
    <3> QED
      BY <3>1 DEF Range
  <2> QED
    BY <1>1, <1>3, <2>1, <2>2
<1> QED
  BY <1>1, <1>2, <1>3 DEF Range, r

\* What performing a request does to its disk; the others do not see it.
LEMMA Performed ==
    ASSUME TypeInv, NEW c \in Conns, NEW n \in DOMAIN pending[c], Perform(c, n)
    PROVE  /\ pending[c][n] \in Range(pending[c])
           /\ Range(pending'[c]) \subseteq Range(pending[c])
           /\ \A e \in Range(pending[c]) : e # pending[c][n] => e \in Range(pending'[c])
           /\ content'[c] = IF isWrite(pending[c][n])
                            THEN [content[c] EXCEPT ![asked[pending[c][n]].sector]
                                     = pending[c][n]]
                            ELSE content[c]
           /\ \E value : outbox'[c] = Append(outbox[c], [id |-> pending[c][n], value |-> value])
           /\ \A d \in Conns \ {c} : /\ pending'[d] = pending[d] /\ content'[d] = content[d]
                                     /\ outbox'[d] = outbox[d]
<1>0. /\ pending \in [Conns -> Seq(Ids)]
      /\ content \in [Conns -> [Sectors -> 0 .. MaxRequests]]
      /\ outbox \in [Conns -> Seq([id : Ids, value : 0 .. MaxRequests])]
  BY Types DEF TypeInv
<1>1. pending[c] \in Seq(Ids) /\ n \in 1 .. Len(pending[c])
  BY <1>0
<1>2. pending'[c] = RemoveAt(pending[c], n)
  BY <1>0 DEF Perform
<1>3. /\ Range(pending'[c]) \subseteq Range(pending[c])
      /\ \A e \in Range(pending[c]) : e # pending[c][n] => e \in Range(pending'[c])
      /\ pending[c][n] \in Range(pending[c])
  BY <1>1, <1>2, RangeOfRemoveAt
<1>4. content'[c] = IF isWrite(pending[c][n])
                    THEN [content[c] EXCEPT ![asked[pending[c][n]].sector] = pending[c][n]]
                    ELSE content[c]
  BY <1>0 DEF Perform
<1>5. \E value : outbox'[c] = Append(outbox[c], [id |-> pending[c][n], value |-> value])
  BY <1>0 DEF Perform
<1>6. \A d \in Conns \ {c} : /\ pending'[d] = pending[d] /\ content'[d] = content[d]
                             /\ outbox'[d] = outbox[d]
  BY <1>0 DEF Perform
<1> QED
  BY <1>3, <1>4, <1>5, <1>6

\* Disks that are lost stay lost.
LEMMA AliveShrinks ==
    ASSUME [Next]_vars
    PROVE  /\ alive' \subseteq alive
           /\ alive' = alive \/ \E c \in Conns : Die(c)
  BY DiskStep DEF diskVars, Broadcast, SendRead, ReceiveWriteAnswer, ReceiveReadAnswer,
     ReplanRead, DiskWorks, Perform, Die

\* A disk that serves and did not join late has, or will have, every write that
\* was sent.
Complete ==
    \A c \in serving \ Late : \A w \in sentWrites :
        w \in Range(pending[c]) \/ content[c][asked[w].sector] >= w

LEMMA CompleteStep ==
    ASSUME TypeInv, Kinds, Listed, Sent, Complete, [Next]_vars
    PROVE  Complete'
<1> SUFFICES ASSUME NEW c \in serving' \ Late, NEW w \in sentWrites'
             PROVE  w \in Range(pending'[c]) \/ content'[c][asked'[w].sector] >= w
  BY DEF Complete
<1>0. /\ c \in Conns /\ c \in alive /\ c \in alive' /\ c \in Range(PPD_QUEUE')
      /\ pending[c] \in Seq(Ids) /\ Len(asked) \in Nat
      /\ content[c] \in [Sectors -> 0 .. MaxRequests]
  BY AliveShrinks, Types DEF serving, TypeInv
<1>1. /\ w \in 1 .. Len(asked) /\ asked'[w] = asked[w]
      /\ w \in sentWrites \/ (Broadcast /\ w = msg)
  BY SentGrows, AskedStays DEF sentWrites
<1>2. c \in Range(PPD_QUEUE)
  <2>1. ~ AcceptPPD(c)
    BY <1>0, <1>1 DEF AcceptPPD, mayConnect, connects
  <2> QED
    BY <1>0, <2>1, Members
<1>3. CASE w \in sentWrites
  <2> DEFINE s == asked[w].sector
  <2>1. w \in Range(pending[c]) \/ content[c][s] >= w
    BY <1>0, <1>2, <1>3 DEF Complete, serving
  <2>2. CASE content'[c] = content[c] /\ pending'[c] = pending[c]
    BY <1>1, <2>1, <2>2
  <2>3. ASSUME NEW id, content'[c] = content[c], pending'[c] = Append(pending[c], id)
        PROVE  w \in Range(pending'[c]) \/ content'[c][s] >= w
    BY <1>0, <2>1, <2>3, RangeOfAppend
  <2>4. ASSUME NEW n \in DOMAIN pending[c], Perform(c, n)
        PROVE  w \in Range(pending'[c]) \/ content'[c][s] >= w
    <3> DEFINE id == pending[c][n]
    <3>0. id \in Nat /\ w \in Nat /\ s \in Sectors /\ content[c][s] \in Nat
      <4>1. id \in Ids
        BY <1>0
      <4>2. s \in Sectors
        <5> DEFINE R == [type : {READ, WRITE}, sector : Sectors, pfs : Pfs]
        <5>1. asked \in Seq(R)
          BY Types DEF TypeInv
        <5>2. \A r \in R : r.sector \in Sectors
          OBVIOUS
        <5> HIDE DEF R
        <5>3. asked[w] \in R
          BY <1>1, <5>1
        <5> QED
          BY <5>2, <5>3
      <4> QED
        BY <1>0, <1>1, <4>1, <4>2, PRAIDAssumption DEF Ids
    <3>1. /\ \A e \in Range(pending[c]) : e # id => e \in Range(pending'[c])
          /\ content'[c] = IF isWrite(id) THEN [content[c] EXCEPT ![asked[id].sector] = id]
                           ELSE content[c]
      BY <1>0, <2>4, Performed
    <3>2. isWrite(id) => id > content[c][asked[id].sector]
      BY <1>0, <2>4 DEF Sent
    <3>3. isWrite(w)
      BY <1>3 DEF sentWrites
    <3> HIDE DEF id, s
    <3>4. content'[c][s] = IF isWrite(id) /\ s = asked[id].sector THEN id ELSE content[c][s]
      BY <1>0, <3>0, <3>1
    <3>5. CASE w = id
      <4>1. s = asked[id].sector
        BY <3>5 DEF s
      <4> QED
        BY <3>0, <3>3, <3>4, <3>5, <4>1
    <3>6. CASE w # id
      BY <2>1, <3>0, <3>1, <3>2, <3>4, <3>6
    <3> QED
      BY <3>5, <3>6
  <2>5. ~ Die(c)
    BY <1>0 DEF Die
  <2> QED
    BY <1>0, <1>1, <2>2, <2>3, <2>4, <2>5, DiskChange
<1>4. CASE Broadcast /\ w = msg
  <2>1. c \in reached
    <3>1. asked # <<>>
      BY <1>0, <1>1
    <3>2. threadPC[c] \in works \ {"start"}
      BY <1>0, <1>2, <3>1 DEF Listed
    <3>3. status[c] = READY
      BY <1>0, <3>2 DEF Listed
    <3> QED
      BY <1>0, <1>2, <3>3 DEF reached
  <2>2. ~ Die(c) /\ \A i \in DOMAIN pending[c] : ~ Perform(c, i)
    BY <1>4 DEF Broadcast, Die, Perform, mainVars
  <2>3. pending'[c] = Append(pending[c], msg)
    BY <1>0, <1>4, <2>1, <2>2, DiskChange
  <2> QED
    BY <1>0, <1>4, <2>3, RangeOfAppend
<1> QED
  BY <1>1, <1>3, <1>4

CopyInv == Kinds /\ Listed /\ Sent /\ Complete

LEMMA InitCopies == Init => CopyInv
<1> SUFFICES ASSUME Init PROVE CopyInv
  OBVIOUS
<1> USE PRAIDAssumption DEF Init
<1>1. sentWrites = {} /\ Range(PPD_QUEUE) = {}
  BY DEF sentWrites, Range
<1>2. Kinds /\ Listed
  BY <1>1 DEF Kinds, Listed, works, beingCounted
<1>3. Sent /\ Complete
  BY <1>1 DEF Sent, Complete
<1> QED
  BY <1>2, <1>3 DEF CopyInv

LEMMA CopyStep == ASSUME TypeInv, CopyInv, [Next]_vars PROVE CopyInv'
  BY KindsStep, ListedStep, SentStep, CompleteStep DEF CopyInv

\* A disk in service that was there before the first request has got every
\* write the main thread has sent, in that order, and no other (praid.c:153-169).
THEOREM CopyInvariance == Spec => []CopyInv
<1>1. TypeInv /\ CopyInv /\ [Next]_vars => CopyInv'
  BY CopyStep
<1> QED
  BY <1>1, InitCopies, TypeInvariant, PTL DEF Spec

\* What a sector of such a disk will hold is the last write sent to it.
LEMMA LastOfAll ==
    ASSUME TypeInv, CopyInv, NEW c \in serving \ Late, NEW s \in Sectors
    PROVE  lastWrite(c, s) = Max({0} \cup {w \in sentWrites : asked[w].sector = s})
<1> DEFINE L == {content[c][s]} \cup {w \in Range(pending[c]) :
                                        isWrite(w) /\ asked[w].sector = s}
           T == {0} \cup {w \in sentWrites : asked[w].sector = s}
<1>0. /\ Len(asked) \in Nat /\ c \in Conns /\ pending[c] \in Seq(Ids)
      /\ content[c][s] \in Nat
  BY Types, PRAIDAssumption DEF TypeInv, serving
<1>1. \A w \in Range(pending[c]) : isWrite(w) => w \in sentWrites
  BY <1>0 DEF CopyInv, Sent, Range
<1>2. L \subseteq T
  BY <1>0, <1>1 DEF CopyInv, Sent
<1>3. T \in SUBSET Nat /\ T # {} /\ \A y \in T : y <= Len(asked)
  BY <1>0 DEF sentWrites
<1>4. \A w \in sentWrites : w \in Range(pending[c]) \/ content[c][asked[w].sector] >= w
  BY DEF CopyInv, Complete
<1>5. content[c][s] \in L
  OBVIOUS
<1>6. \A w \in T : w = 0 \/ content[c][s] >= w \/ w \in L
  BY <1>4 DEF sentWrites
<1>7. lastWrite(c, s) = Max(L)
  BY DEF lastWrite
<1> HIDE DEF L, T
<1>8. Max(T) \in T /\ \A y \in T : y <= Max(T)
  BY <1>0, <1>3, MaxIsGreatest
<1>9. L \in SUBSET Nat /\ L # {} /\ \A y \in L : y <= Len(asked)
  BY <1>2, <1>3, <1>5
<1>10. Max(L) \in L /\ \A y \in L : y <= Max(L)
  BY <1>0, <1>9, MaxIsGreatest
<1>11. Max(L) \in Nat /\ Max(T) \in Nat /\ Max(L) <= Max(T)
  BY <1>2, <1>3, <1>8, <1>9, <1>10
<1>12. Max(T) <= Max(L)
  BY <1>0, <1>5, <1>6, <1>8, <1>10, <1>11
<1> QED
  BY <1>7, <1>11, <1>12 DEF T

\* Whatever disks are lost and whatever disks join, those that serve and were
\* there before the first request hold the same, or will when they have done
\* what they were sent (praid.c:154-169).
THEOREM FirstDisksAgree ==
    Spec => [](\A c, d \in serving \ Late, s \in Sectors : lastWrite(c, s) = lastWrite(d, s))
<1>1. TypeInv /\ CopyInv =>
         \A c, d \in serving \ Late, s \in Sectors : lastWrite(c, s) = lastWrite(d, s)
  BY LastOfAll
<1> QED
  BY <1>1, TypeInvariant, CopyInvariance, PTL

\* If no disk joins late all that serve are copies: DisksAgree.
THEOREM DisksAreCopies == ASSUME Late = {} PROVE Spec => []DisksAgree
<1>1. TypeInv /\ CopyInv => DisksAgree
  BY LastOfAll DEF DisksAgree
<1> QED
  BY <1>1, TypeInvariant, CopyInvariance, PTL

-----------------------------------------------------------------------------
(* Counts.                                                                  *)

\* No disk has been found lost.
whole == \A c \in Conns : threadPC[c] \in {"none", "refused"} \cup works

\* PPD_COUNT while no disk has been found lost.
Tally ==
    /\ alive = Conns => whole
    /\ whole =>
        /\ Cardinality(Range(PPD_QUEUE))
              = PPD_COUNT + (IF mainPC \in {"count", "store"} THEN 1 ELSE 0)
        /\ mainPC = "store" => loaded = PPD_COUNT

LEMMA WholeChange ==
    ASSUME TypeInv, [Next]_vars
    PROVE  /\ whole' => whole
           /\ whole' => \A c \in Conns : ~ NoticeDeath(c)
           /\ whole /\ ~ whole' => \E c \in Conns : NoticeDeath(c)
<1>0. /\ DOMAIN threadPC = Conns
      /\ \A c \in Conns : threadPC[c] \in {"none", "refused", "start", "recv", "test",
                                           "take", "lost", "replan", "walk", "standby", "done"}
      /\ mainPC \in {"count", "store"} => threadPC[selected] = "none"
  BY Types DEF TypeInv, TypeOK, ThreadTypes, ListInv
<1>1. ASSUME NEW c \in Conns,
             threadPC[c] \in {"lost", "replan", "walk", "standby", "done"}
      PROVE  threadPC'[c] \notin {"none", "refused"} \cup works
  BY <1>0, <1>1, ThreadMoves DEF works, StoreCount, RefusePPD, mayConnect, connects
<1>2. ASSUME NEW c \in Conns, threadPC[c] \in {"none", "refused"} \cup works,
             threadPC'[c] \notin {"none", "refused"} \cup works
      PROVE  NoticeDeath(c)
  BY <1>2, ThreadMoves DEF works
<1>3. \A c \in Conns : NoticeDeath(c) => threadPC'[c] = "lost"
  BY <1>0 DEF NoticeDeath, goes
<1> QED
  BY <1>0, <1>1, <1>2, <1>3 DEF whole, works

LEMMA TallyStep == ASSUME TypeInv, Tally, [Next]_vars PROVE Tally'
<1>0. /\ PPD_QUEUE \in Seq(Conns) /\ Range(PPD_QUEUE) \subseteq Conns
      /\ IsFiniteSet(Range(PPD_QUEUE)) /\ PPD_COUNT \in Nat /\ loaded \in Nat
      /\ Cardinality(Range(PPD_QUEUE)) \in Nat
  <2>1. PPD_QUEUE \in Seq(Conns) /\ PPD_COUNT \in Nat /\ loaded \in Nat
    BY Types DEF TypeInv, ListInv
  <2>2. Range(PPD_QUEUE) \subseteq Conns
    BY <2>1 DEF Range
  <2> QED
    BY <2>1, <2>2, FS_Subset, FS_CardinalityType, PRAIDAssumption
<1>1. ASSUME alive' = Conns PROVE whole'
  <2>1. alive = Conns
    BY <1>1, AliveShrinks, Types DEF TypeInv
  <2>2. \A c \in Conns : ~ NoticeDeath(c)
    BY <2>1 DEF NoticeDeath
  <2> QED
    BY <2>1, <2>2, WholeChange DEF Tally
<1>2. ASSUME whole'
      PROVE  /\ Cardinality(Range(PPD_QUEUE'))
                   = PPD_COUNT' + (IF mainPC' \in {"count", "store"} THEN 1 ELSE 0)
             /\ mainPC' = "store" => loaded' = PPD_COUNT'
  <2>1. /\ Cardinality(Range(PPD_QUEUE))
              = PPD_COUNT + (IF mainPC \in {"count", "store"} THEN 1 ELSE 0)
        /\ mainPC = "store" => loaded = PPD_COUNT
        /\ \A c \in Conns : ~ NoticeDeath(c)
    BY <1>2, WholeChange DEF Tally
  <2>2. ASSUME NEW c \in Conns, AcceptPPD(c)
        PROVE  /\ Cardinality(Range(PPD_QUEUE')) = PPD_COUNT' + 1
               /\ mainPC' = "count"
    <3>1. c \notin Range(PPD_QUEUE) /\ Range(PPD_QUEUE') = Range(PPD_QUEUE) \cup {c}
      BY <2>2, Members
    <3>2. Cardinality(Range(PPD_QUEUE')) = Cardinality(Range(PPD_QUEUE)) + 1
      BY <1>0, <3>1, FS_AddElement
    <3> QED
      BY <1>0, <2>1, <2>2, <3>2 DEF AcceptPPD, mayConnect, connects
  <2>3. CASE LoadCount \/ StoreCount
    BY <1>0, <2>1, <2>3 DEF LoadCount, StoreCount, ppdVars
  <2>4. ASSUME ~ LoadCount, ~ StoreCount, \A c \in Conns : ~ AcceptPPD(c)
        PROVE  /\ UNCHANGED <<PPD_QUEUE, PPD_COUNT>>
               /\ UNCHANGED mainVars
                  \/ (mainPC \notin {"count", "store"} /\ mainPC' \notin {"count", "store"})
    <3>1. UNCHANGED <<PPD_QUEUE, PPD_COUNT>>
      BY <2>1, <2>4, ListStep DEF ppdVars, Broadcast, ReceiveRead, Receive, StartThread,
         ReplanRead
    <3>2. UNCHANGED mainVars
             \/ (mainPC \notin {"count", "store"} /\ mainPC' \notin {"count", "store"})
      BY <2>4, MainStep DEF Broadcast, QueueRead, SendRead, ReceiveWrite, ReceiveRead, Receive,
         RefusePPD, ReadBegin, mayConnect
    <3> QED
      BY <3>1, <3>2
  <2> QED
    BY <2>1, <2>2, <2>3, <2>4 DEF mainVars
<1> QED
  BY <1>1, <1>2 DEF Tally

\* What a step does to the answers of a disk that are on their way.
LEMMA OutboxChange ==
    ASSUME TypeInv, [Next]_vars, NEW c \in Conns
    PROVE  \/ outbox'[c] = outbox[c]
           \/ \E n \in DOMAIN pending[c] : Perform(c, n)
           \/ /\ ReceiveWriteAnswer(c) \/ ReceiveReadAnswer(c)
              /\ outbox[c] # <<>> /\ outbox'[c] = Tail(outbox[c])
<1>0. outbox \in [Conns -> Seq([id : Ids, value : 0 .. MaxRequests])]
  BY Types DEF TypeInv
<1>1. ASSUME NEW d \in Conns, ReceiveWriteAnswer(d) \/ ReceiveReadAnswer(d)
      PROVE  outbox[d] # <<>> /\ outbox' = [outbox EXCEPT ![d] = Tail(@)]
  BY <1>1 DEF ReceiveWriteAnswer, ReceiveReadAnswer
<1>2. CASE \E d \in Conns : ReceiveWriteAnswer(d) \/ ReceiveReadAnswer(d)
  BY <1>0, <1>1, <1>2
<1>3. ASSUME NEW d \in Conns \ {c}, NEW n \in DOMAIN pending[d], Perform(d, n)
      PROVE  outbox'[c] = outbox[c]
  BY <1>0, <1>3 DEF Perform
<1>4. CASE \E d \in Conns : DiskWorks(d)
  BY <1>3, <1>4 DEF DiskWorks
<1> QED
  BY <1>2, <1>4, DiskStep DEF diskVars, Broadcast, SendRead, ReplanRead, Die

\* What a thread holds.
LEMMA HeldChange ==
    ASSUME TypeInv, [Next]_vars, NEW c \in Conns, threadPC'[c] \in {"test", "take"}
    PROVE  \/ threadPC[c] \in {"test", "take"} /\ held'[c] = held[c]
                /\ ~ ReceiveWriteAnswer(c)
           \/ ReceiveWriteAnswer(c) /\ held'[c] = received(c).id
<1>0. held \in [Conns -> Ids \cup {None}] /\ DOMAIN threadPC = Conns
  BY Types DEF TypeInv
<1>1. CASE ReceiveWriteAnswer(c)
  BY <1>0, <1>1 DEF ReceiveWriteAnswer
<1>2. ASSUME NEW d \in Conns, d # c,
             ReceiveWriteAnswer(d) \/ TestCount(d) \/ TakeWrite(d) \/ TakeAgain(d)
      PROVE  held'[c] = held[c] /\ threadPC'[c] = threadPC[c]
  BY <1>0, <1>2 DEF ReceiveWriteAnswer, TestCount, TakeWrite, TakeAgain, endsTake, goes
<1>3. CASE TestCount(c) \/ TakeWrite(c) \/ TakeAgain(c)
  BY <1>0, <1>3 DEF TestCount, TakeWrite, TakeAgain, endsTake, ReceiveWriteAnswer, goes
<1>4. \/ UNCHANGED held
      \/ \E d \in Conns : \/ ReceiveWriteAnswer(d) \/ TestCount(d) \/ TakeWrite(d)
                          \/ TakeAgain(d)
  BY ThreadStep DEF threadVars, takeVars, StoreCount, RefusePPD, StartThread, NoticeDeath, CheckCount,
     Replan, ReplanWrite, ReplanRead, EndReplan, Standby, nextReplanned
<1>5. CASE UNCHANGED held
             /\ ~ (ReceiveWriteAnswer(c) \/ TestCount(c) \/ TakeWrite(c) \/ TakeAgain(c))
  BY <1>5, ThreadMoves
<1> QED
  BY <1>1, <1>2, <1>3, <1>4, <1>5, ThreadMoves

\* The writes a disk has to make are those it had to make, or the one broadcast.
LEMMA PendingWrites ==
    ASSUME TypeInv, Kinds, [Next]_vars, NEW c \in Conns, NEW w \in Range(pending'[c]), isWrite(w)
    PROVE  w \in Range(pending[c]) \/ (Broadcast /\ w = msg /\ c \in reached)
<1>0. pending[c] \in Seq(Ids)
  BY Types DEF TypeInv
<1>1. ASSUME NEW id, pending'[c] = Append(pending[c], id)
      PROVE  w \in Range(pending[c]) \/ w = id
  BY <1>0, <1>1, RangeOfAppend
<1>2. ASSUME NEW n \in DOMAIN pending[c], Perform(c, n)
      PROVE  w \in Range(pending[c])
  BY <1>2, Performed
<1>3. CASE pending'[c] = <<>>
  BY <1>3 DEF Range
<1> QED
  BY <1>1, <1>2, <1>3, DiskChange

\* A disk answers a write once: then it is not to be made any more, and when a
\* thread holds it its answer has been received.
Once ==
    \A c \in Conns : \A i \in DOMAIN outbox[c] : isWrite(outbox[c][i].id) =>
        /\ outbox[c][i].id \in sentWrites
        /\ outbox[c][i].id \notin Range(pending[c])
        /\ \A j \in DOMAIN outbox[c] : outbox[c][j].id = outbox[c][i].id => j = i
        /\ threadPC[c] \in {"test", "take"} => outbox[c][i].id # held[c]

HeldOnce ==
    \A c \in Conns : threadPC[c] \in {"test", "take"} =>
        held[c] \in sentWrites /\ held[c] \notin Range(pending[c])

\* A write that was sent and does not wait at a disk does not come back to it.
LEMMA SentOnce ==
    ASSUME TypeInv, Kinds, [Next]_vars, NEW c \in Conns, NEW w \in sentWrites,
           w \notin Range(pending[c])
    PROVE  w \notin Range(pending'[c]) /\ w \in sentWrites'
<1>1. isWrite(w) /\ ~ (Broadcast /\ w = msg) /\ w \in sentWrites'
  <2>1. Broadcast => w < msg /\ msg \in 1 .. Len(asked)
    BY SentGrows
  <2>2. w \in Nat /\ Len(asked) \in Nat
    BY Types DEF sentWrites, TypeInv
  <2> QED
    BY <2>1, <2>2, SentGrows DEF sentWrites
<1> QED
  BY <1>1, PendingWrites

\* A disk that performs a write has it once to perform.
LEMMA PerformedOnce ==
    ASSUME TypeInv, Sent, NEW c \in Conns, NEW n \in DOMAIN pending[c], Perform(c, n),
           isWrite(pending[c][n])
    PROVE  pending[c][n] \notin Range(pending'[c])
<1> DEFINE p == pending[c]
<1>1. p \in Seq(Ids) /\ n \in 1 .. Len(p)
  BY Types DEF TypeInv
<1>2. \A i, j \in DOMAIN p : i < j /\ isWrite(p[i]) /\ isWrite(p[j]) => p[i] < p[j]
  BY DEF Sent
<1>3. pending'[c] = RemoveAt(p, n)
  BY Types DEF Perform, TypeInv
<1>4. isWrite(p[n])
  OBVIOUS
<1> HIDE DEF p
<1>5. /\ DOMAIN pending'[c] = 1 .. Len(p) - 1 /\ Len(p) \in Nat /\ DOMAIN p = 1 .. Len(p)
      /\ \A j \in 1 .. Len(p) - 1 : pending'[c][j] = IF j < n THEN p[j] ELSE p[j + 1]
  <2>1. /\ RemoveAt(p, n) \in Seq(Ids) /\ Len(RemoveAt(p, n)) = Len(p) - 1
        /\ \A j \in 1 .. Len(p) - 1 : RemoveAt(p, n)[j] = IF j < n THEN p[j] ELSE p[j + 1]
    BY <1>1, RemoveAtProperties
  <2> QED
    BY <1>1, <1>3, <2>1
<1>6. ASSUME NEW j \in DOMAIN pending'[c] PROVE pending'[c][j] # p[n]
  <2>0. \A i \in DOMAIN p : p[i] \in Nat
    BY <1>1, PRAIDAssumption DEF Ids
  <2>1. CASE j < n
    BY <1>1, <1>2, <1>4, <1>5, <2>0, <2>1
  <2>2. CASE ~ (j < n)
    <3>1. j + 1 \in DOMAIN p /\ n < j + 1 /\ n \in DOMAIN p /\ pending'[c][j] = p[j + 1]
      BY <1>1, <1>5, <2>2
    <3> QED
      BY <1>2, <1>4, <2>0, <3>1
  <2> QED
    BY <2>1, <2>2
<1> QED
  BY <1>6 DEF Range, p

Reply == [id : Ids, value : 0 .. MaxRequests]

LEMMA OutboxTypes ==
    ASSUME TypeInv, NEW c \in Conns
    PROVE  /\ outbox[c] \in Seq(Reply) /\ DOMAIN outbox[c] = 1 .. Len(outbox[c])
           /\ Len(outbox[c]) \in Nat
           /\ \A i \in DOMAIN outbox[c] : outbox[c][i].id \in 1 .. Len(asked)
<1>1. outbox \in [Conns -> Seq(Reply)] /\ Len(asked) \in Nat
  BY Types DEF TypeInv, Reply
<1>2. outbox[c] \in Seq(Reply)
  BY <1>1
<1>3. \A i \in DOMAIN outbox[c] : outbox[c][i] \in Reply
  BY <1>2
<1>4. \A r \in Reply : r.id \in Ids
  BY DEF Reply
<1>5. ASSUME NEW i \in DOMAIN outbox[c] PROVE outbox[c][i].id \in 1 .. Len(asked)
  <2>1. outbox[c][i].id <= Len(asked)
    BY DEF TypeInv, KnownDisk
  <2>2. outbox[c][i].id \in Ids
    BY <1>3, <1>4
  <2> QED
    BY <1>1, <2>1, <2>2, PRAIDAssumption DEF Ids
<1> QED
  BY <1>2, <1>5

LEMMA TailDiffers == ASSUME NEW T, NEW s \in Seq(T), s # <<>> PROVE Tail(s) # s
<1> DEFINE t == Tail(s)
<1>1. Len(t) = Len(s) - 1 /\ Len(s) \in Nat
  BY HeadTailProperties
<1> HIDE DEF t
<1>2. t # s
  BY <1>1
<1> QED
  BY <1>2 DEF t

LEMMA OnceStep ==
    ASSUME TypeInv, Kinds, Sent, Once, HeldOnce, [Next]_vars
    PROVE  Once' /\ HeldOnce'
\* What a thread holds is not at its disk any more.
<1>1. ASSUME NEW c \in Conns, threadPC'[c] \in {"test", "take"}
      PROVE  held'[c] \in sentWrites' /\ held'[c] \notin Range(pending'[c])
  <2>1. CASE threadPC[c] \in {"test", "take"} /\ held'[c] = held[c]
    BY <2>1, SentOnce DEF HeldOnce
  <2>2. CASE ReceiveWriteAnswer(c) /\ held'[c] = received(c).id
    <3>1. received(c) = outbox[c][1] /\ 1 \in DOMAIN outbox[c] /\ isWrite(received(c).id)
      BY <2>2, ReceivedProperties DEF ReceiveWriteAnswer, TypeInv
    <3>2. received(c).id \in sentWrites /\ received(c).id \notin Range(pending[c])
      BY <3>1 DEF Once
    <3> QED
      BY <2>2, <3>2, SentOnce
  <2> QED
    BY <1>1, <2>1, <2>2, HeldChange
<1>2. ASSUME NEW c \in Conns, NEW i \in DOMAIN outbox'[c],
             asked'[outbox'[c][i].id].type = WRITE
      PROVE  /\ outbox'[c][i].id \in sentWrites'
             /\ outbox'[c][i].id \notin Range(pending'[c])
             /\ \A j \in DOMAIN outbox'[c] : outbox'[c][j].id = outbox'[c][i].id => j = i
             /\ threadPC'[c] \in {"test", "take"} => outbox'[c][i].id # held'[c]
  <2> DEFINE o == outbox[c]
  <2>0. /\ o \in Seq(Reply) /\ DOMAIN o = 1 .. Len(o) /\ Len(o) \in Nat
        /\ \A k \in DOMAIN o : /\ o[k].id \in 1 .. Len(asked)
                               /\ (asked'[o[k].id].type = WRITE <=> isWrite(o[k].id))
    <3>1. /\ o \in Seq(Reply) /\ DOMAIN o = 1 .. Len(o) /\ Len(o) \in Nat
          /\ \A k \in DOMAIN o : o[k].id \in 1 .. Len(asked)
      BY OutboxTypes
    <3> HIDE DEF o
    <3> QED
      BY <3>1, AskedStays
  <2>1. ASSUME NEW k \in DOMAIN o, isWrite(o[k].id)
        PROVE  /\ o[k].id \in sentWrites /\ o[k].id \in sentWrites'
               /\ o[k].id \notin Range(pending[c]) /\ o[k].id \notin Range(pending'[c])
               /\ \A j \in DOMAIN o : o[j].id = o[k].id => j = k
               /\ threadPC[c] \in {"test", "take"} => o[k].id # held[c]
    BY <2>1, SentOnce DEF Once
  <2> HIDE DEF o
  <2>2. CASE outbox'[c] = o
    <3>1. threadPC'[c] \in {"test", "take"} =>
             threadPC[c] \in {"test", "take"} /\ held'[c] = held[c]
      <4>1. ~ ReceiveWriteAnswer(c)
        <5>1. ReceiveWriteAnswer(c) => o # <<>> /\ outbox'[c] = Tail(o)
          BY Types DEF ReceiveWriteAnswer, o, TypeInv
        <5> QED
          BY <2>0, <2>2, <5>1, TailDiffers, Zenon
      <4> QED
        BY <4>1, HeldChange
    <3> QED
      BY <1>2, <2>0, <2>1, <2>2, <3>1
  <2>3. ASSUME NEW n \in DOMAIN pending[c], Perform(c, n)
        PROVE  /\ outbox'[c][i].id \in sentWrites'
               /\ outbox'[c][i].id \notin Range(pending'[c])
               /\ \A j \in DOMAIN outbox'[c] : outbox'[c][j].id = outbox'[c][i].id => j = i
               /\ threadPC'[c] \in {"test", "take"} => outbox'[c][i].id # held'[c]
    <3> DEFINE w == pending[c][n]
    <3>1. PICK value : outbox'[c] = Append(o, [id |-> w, value |-> value])
      BY <2>3, Performed DEF o
    <3>2. /\ w \in Range(pending[c]) /\ w \in 1 .. Len(asked)
          /\ asked'[w].type = WRITE <=> isWrite(w)
      <4>1. w \in Range(pending[c])
        BY <2>3, Performed
      <4>2. w \in 1 .. Len(asked)
        <5>1. w \in Ids /\ w <= Len(asked) /\ Len(asked) \in Nat
          BY Types DEF TypeInv, KnownDisk
        <5> QED
          BY <5>1, PRAIDAssumption DEF Ids
      <4> QED
        BY <4>1, <4>2, AskedStays
    <3>3. isWrite(w) => /\ w \in sentWrites' /\ w \notin Range(pending'[c])
                        /\ threadPC[c] \in {"test", "take"} => w # held[c]
      <4>1. isWrite(w) => w \in sentWrites
        BY DEF Sent
      <4>2. isWrite(w) => w \notin Range(pending'[c])
        BY <2>3, PerformedOnce
      <4>3. isWrite(w) => w \in sentWrites'
        BY <4>1, SentGrows
      <4> QED
        BY <3>2, <4>2, <4>3 DEF HeldOnce
    <3>4. UNCHANGED <<threadPC, held>>
      BY <2>3 DEF Perform, threadVars, takeVars
    <3> HIDE DEF w
    <3>5. /\ DOMAIN outbox'[c] = 1 .. Len(o) + 1
          /\ \A k \in DOMAIN o : outbox'[c][k] = o[k]
          /\ outbox'[c][Len(o) + 1].id = w
      <4> DEFINE a == [id |-> w, value |-> value]
                 T == Reply \cup {a}
      <4>0. Reply \subseteq T /\ a \in T /\ a.id = w
        OBVIOUS
      <4> HIDE DEF a, T
      <4>1. o \in Seq(T) /\ a \in T /\ a.id = w
        BY <2>0, <4>0
      <4>2. /\ DOMAIN Append(o, a) = 1 .. Len(o) + 1
            /\ \A k \in 1 .. Len(o) : Append(o, a)[k] = o[k]
            /\ Append(o, a)[Len(o) + 1] = a
        BY <4>1, AppendProperties
      <4> QED
        BY <2>0, <3>1, <4>1, <4>2 DEF a
    <3>6. \A k \in DOMAIN outbox'[c] : k \in DOMAIN o \/ k = Len(o) + 1
      BY <2>0, <3>5
    <3>7. \A k \in DOMAIN o : isWrite(o[k].id) => o[k].id # w
      BY <2>1, <3>2
    <3>8. \A k \in DOMAIN o : isWrite(w) => o[k].id # w
      BY <3>7
    <3>9. CASE i \in DOMAIN o
      BY <1>2, <2>0, <2>1, <3>4, <3>5, <3>6, <3>7, <3>9
    <3>10. CASE i = Len(o) + 1
      BY <1>2, <2>0, <3>2, <3>3, <3>4, <3>5, <3>6, <3>8, <3>10
    <3> QED
      BY <3>6, <3>9, <3>10
  <2>4. CASE /\ ReceiveWriteAnswer(c) \/ ReceiveReadAnswer(c)
             /\ o # <<>> /\ outbox'[c] = Tail(o)
    <3>1. /\ DOMAIN outbox'[c] = 1 .. Len(o) - 1
          /\ \A k \in 1 .. Len(o) - 1 : outbox'[c][k] = o[k + 1] /\ k + 1 \in DOMAIN o
      <4>1. /\ Tail(o) \in Seq(Reply)
            /\ Len(Tail(o)) = Len(o) - 1
            /\ \A k \in 1 .. Len(o) - 1 : Tail(o)[k] = o[k + 1]
        BY <2>0, <2>4, HeadTailProperties
      <4> QED
        BY <2>0, <2>4, <4>1
    <3>2. /\ outbox'[c][i] = o[i + 1] /\ i + 1 \in DOMAIN o /\ i + 1 # 1 /\ 1 \in DOMAIN o
          /\ i \in Nat /\ isWrite(o[i + 1].id)
      <4>1. i \in 1 .. Len(o) - 1
        BY <1>2, <3>1
      <4>2. outbox'[c][i] = o[i + 1] /\ i + 1 \in DOMAIN o
        BY <3>1, <4>1
      <4>3. i + 1 # 1 /\ 1 \in DOMAIN o /\ i \in Nat
        BY <2>0, <4>1
      <4>4. isWrite(o[i + 1].id)
        BY <1>2, <2>0, <4>2
      <4> QED
        BY <4>2, <4>3, <4>4
    <3>3. ASSUME threadPC'[c] \in {"test", "take"} PROVE outbox'[c][i].id # held'[c]
      <4>1. received(c) = o[1]
        BY <2>4, ReceivedProperties DEF TypeInv, o
      <4>2. CASE ReceiveWriteAnswer(c) /\ held'[c] = received(c).id
        BY <2>1, <3>2, <4>1, <4>2
      <4>3. CASE threadPC[c] \in {"test", "take"} /\ held'[c] = held[c]
        BY <2>1, <3>2, <4>3
      <4> QED
        BY <3>3, <4>2, <4>3, HeldChange
    <3>4. ASSUME NEW j \in DOMAIN outbox'[c], outbox'[c][j].id = outbox'[c][i].id
          PROVE  j = i
      <4>1. outbox'[c][j] = o[j + 1] /\ j + 1 \in DOMAIN o /\ j \in Nat
        BY <2>0, <3>1
      <4>2. j + 1 = i + 1
        BY <2>1, <3>2, <3>4, <4>1
      <4> QED
        BY <3>2, <4>1, <4>2
    <3> QED
      BY <2>1, <3>2, <3>3, <3>4
  <2> QED
    BY <2>2, <2>3, <2>4, OutboxChange DEF o
<1> QED
  BY <1>1, <1>2 DEF Once, HeldOnce, isWrite

\* A write waits for fewer and fewer disks after it was sent: for one less when
\* its answer is received, or when a disk is lost.
LEMMA WaitingChange ==
    ASSUME TypeInv, Kinds, Sent, Once, [Next]_vars, NEW w \in sentWrites, NEW c \in Conns
    PROVE  /\ (c \in waitingFor(w)') => c \in waitingFor(w)
           /\ c \in waitingFor(w) => \/ c \in waitingFor(w)'
                                     \/ ReceiveWriteAnswer(c) /\ received(c).id = w
                                     \/ Die(c)
           /\ ReceiveWriteAnswer(c) /\ received(c).id = w =>
                 c \in waitingFor(w) /\ c \notin waitingFor(w)'
<1> DEFINE o == outbox[c]
           out(q) == \E i \in DOMAIN q : q[i].id = w
<1>0. /\ o \in Seq(Reply) /\ DOMAIN o = 1 .. Len(o) /\ Len(o) \in Nat
      /\ isWrite(w) /\ w \in 1 .. Len(asked)
      /\ pending[c] \in Seq(Ids)
  BY OutboxTypes, Types DEF TypeInv, sentWrites
<1>1. /\ c \in waitingFor(w) <=> w \in Range(pending[c]) \/ out(o)
      /\ (c \in waitingFor(w)') <=> w \in Range(pending'[c]) \/ out(outbox'[c])
  BY DEF waitingFor
<1>2. w \in Range(pending'[c]) => w \in Range(pending[c])
  <2>1. ~ (Broadcast /\ w = msg)
    <3>1. Broadcast => w < msg /\ msg \in 1 .. Len(asked)
      BY SentGrows
    <3>2. w \in Nat /\ Len(asked) \in Nat
      BY Types DEF sentWrites, TypeInv
    <3> QED
      BY <3>1, <3>2
  <2> QED
    BY <1>0, <2>1, PendingWrites
<1>3. w \in Range(pending[c]) => \/ w \in Range(pending'[c])
                                 \/ Die(c)
                                 \/ \E n \in DOMAIN pending[c] : /\ Perform(c, n)
                                                                 /\ pending[c][n] = w
  <2>1. ASSUME NEW id, pending'[c] = Append(pending[c], id), w \in Range(pending[c])
        PROVE  w \in Range(pending'[c])
    BY <1>0, <2>1, RangeOfAppend
  <2>2. ASSUME NEW n \in DOMAIN pending[c], Perform(c, n), w \in Range(pending[c])
        PROVE  w \in Range(pending'[c]) \/ pending[c][n] = w
    BY <2>2, Performed
  <2> QED
    BY <2>1, <2>2, DiskChange
<1> HIDE DEF o
<1>4. ASSUME NEW n \in DOMAIN pending[c], Perform(c, n)
      PROVE  /\ pending[c][n] \in Range(pending[c])
             /\ out(outbox'[c]) <=> out(o) \/ pending[c][n] = w
             /\ ~ Die(c) /\ ~ ReceiveWriteAnswer(c)
  <2>1. PICK value : outbox'[c] = Append(o, [id |-> pending[c][n], value |-> value])
    BY <1>4, Performed DEF o
  <2> DEFINE a == [id |-> pending[c][n], value |-> value]
             T == Reply \cup {a}
  <2>2. Reply \subseteq T /\ a \in T /\ a.id = pending[c][n] /\ outbox'[c] = Append(o, a)
    BY <2>1
  <2> HIDE DEF a, T
  <2>3. o \in Seq(T) /\ a \in T
    BY <1>0, <2>2
  <2>4. /\ DOMAIN Append(o, a) = 1 .. Len(o) + 1
        /\ \A k \in 1 .. Len(o) : Append(o, a)[k] = o[k]
        /\ Append(o, a)[Len(o) + 1] = a
    BY <2>3, AppendProperties
  <2>5. out(outbox'[c]) <=> out(o) \/ pending[c][n] = w
    <3> DEFINE b == outbox'[c]
    <3>1. /\ DOMAIN b = 1 .. Len(o) + 1
          /\ \A k \in DOMAIN o : b[k] = o[k]
          /\ b[Len(o) + 1].id = pending[c][n]
      BY <1>0, <2>2, <2>4
    <3> HIDE DEF b
    <3>2. \A k \in DOMAIN b : k \in DOMAIN o \/ k = Len(o) + 1
      BY <1>0, <3>1
    <3>3. \A k \in DOMAIN o : k \in DOMAIN b
      BY <1>0, <3>1
    <3>4. Len(o) + 1 \in DOMAIN b
      BY <1>0, <3>1
    <3>5. out(b) <=> out(o) \/ pending[c][n] = w
      BY <3>1, <3>2, <3>3, <3>4
    <3> QED
      BY <3>5 DEF b
  <2>6. ~ Die(c) /\ ~ ReceiveWriteAnswer(c)
    <3>1. UNCHANGED <<alive, threadPC>> /\ c \in alive
      BY <1>4 DEF Perform, threadVars, takeVars
    <3> QED
      BY <3>1, Types DEF Die, ReceiveWriteAnswer, goes, TypeInv
  <2>7. pending[c][n] \in Range(pending[c])
    BY DEF Range
  <2> QED
    BY <2>5, <2>6, <2>7
<1>5. CASE o # <<>> /\ outbox'[c] = Tail(o)
  <2>1. /\ received(c) = o[1] /\ 1 \in DOMAIN o
    BY <1>5, ReceivedProperties DEF TypeInv, o
  <2>2. /\ DOMAIN outbox'[c] = 1 .. Len(o) - 1
        /\ \A k \in 1 .. Len(o) - 1 : outbox'[c][k] = o[k + 1] /\ k + 1 \in DOMAIN o
    <3>1. /\ Tail(o) \in Seq(Reply)
          /\ Len(Tail(o)) = Len(o) - 1
          /\ \A k \in 1 .. Len(o) - 1 : Tail(o)[k] = o[k + 1]
      BY <1>0, <1>5, HeadTailProperties
    <3> QED
      BY <1>0, <1>5, <3>1
  <2>3. out(outbox'[c]) => out(o)
    BY <2>2
  <2>4. ASSUME NEW i \in DOMAIN o, o[i].id = w, i # 1 PROVE out(outbox'[c])
    <3>1. i - 1 \in DOMAIN outbox'[c] /\ outbox'[c][i - 1] = o[i]
      <4>1. i - 1 \in 1 .. Len(o) - 1 /\ (i - 1) + 1 = i
        BY <1>0, <2>4
      <4> QED
        BY <2>2, <4>1
    <3> QED
      BY <2>4, <3>1
  <2>5. out(o) => out(outbox'[c]) \/ received(c).id = w
    BY <2>1, <2>4
  <2>6. ASSUME received(c).id = w PROVE ~ out(outbox'[c]) /\ out(o) /\ w \notin Range(pending[c])
    <3>1. /\ \A j \in DOMAIN o : o[j].id = w => j = 1
          /\ w \notin Range(pending[c])
      BY <1>0, <2>1, <2>6 DEF Once, o
    <3> QED
      <4>1. \A k \in DOMAIN outbox'[c] : /\ outbox'[c][k] = o[k + 1] /\ k + 1 \in DOMAIN o
                                         /\ k + 1 # 1
        BY <1>0, <2>2
      <4> QED
        BY <2>1, <2>6, <3>1, <4>1
  <2>7. ReceiveReadAnswer(c) => received(c).id # w
    BY <1>0 DEF ReceiveReadAnswer
  <2>8. ReceiveReadAnswer(c) \/ ReceiveWriteAnswer(c) =>
           UNCHANGED pending /\ \A n \in DOMAIN pending[c] : ~ Perform(c, n)
    <3>1. ReceiveReadAnswer(c) \/ ReceiveWriteAnswer(c) => UNCHANGED pending
      BY DEF ReceiveReadAnswer, ReceiveWriteAnswer
    <3>2. ASSUME NEW n \in DOMAIN pending[c], Perform(c, n) PROVE ~ UNCHANGED pending
      <4>0. pending \in [Conns -> Seq(Ids)]
        BY Types DEF TypeInv
      <4>1. pending'[c] = RemoveAt(pending[c], n) /\ n \in 1 .. Len(pending[c])
        BY <1>0, <3>2, <4>0 DEF Perform
      <4>2. Len(RemoveAt(pending[c], n)) = Len(pending[c]) - 1 /\ Len(pending[c]) \in Nat
        BY <1>0, <4>1, RemoveAtProperties
      <4>3. Len(pending'[c]) # Len(pending[c])
        BY <4>1, <4>2
      <4> QED
        BY <4>3
    <3> QED
      BY <3>1, <3>2
  <2> QED
    BY <1>1, <1>2, <1>3, <1>5, <2>3, <2>5, <2>6, <2>7, <2>8, <1>4, OutboxChange DEF o
<1>6. CASE outbox'[c] = o
  <2>1. ~ ReceiveWriteAnswer(c)
    <3>1. ReceiveWriteAnswer(c) => o # <<>> /\ outbox'[c] = Tail(o)
      BY Types DEF ReceiveWriteAnswer, o, TypeInv
    <3> QED
      BY <1>0, <1>6, <3>1, TailDiffers, Zenon
  <2> QED
    BY <1>1, <1>2, <1>3, <1>4, <1>6, <2>1
<1>7. CASE \E n \in DOMAIN pending[c] : Perform(c, n)
  BY <1>1, <1>2, <1>3, <1>4, <1>7
<1> QED
  BY <1>5, <1>6, <1>7, OutboxChange DEF o

\* write_count while no disk has been found lost: of a write that is about to be
\* sent, the number of the disks; then at least that of the answers it waits for,
\* and just that as long as no disk joins late or is lost.
Counts ==
    whole =>
        \A i \in DOMAIN REQUEST_QUEUE :
            LET r == REQUEST_QUEUE[i]
            IN  isWrite(r.id) =>
                  IF r.id \in sentWrites
                  THEN /\ r.write_count >= Cardinality(waitingFor(r.id))
                       /\ alive = Conns /\ Late = {} =>
                             r.write_count = Cardinality(waitingFor(r.id))
                  ELSE r.write_count = PPD_COUNT

LEMMA OneLess == ASSUME NEW M \in Nat, NEW a \in 1 .. M - 1 PROVE (a + M - 1) % M = a - 1
  OBVIOUS

\* What a step does to a node of the list while no disk has been found lost.
countedBy(c, id) == ReceiveWriteAnswer(c) /\ received(c).id = id

LEMMA NodeChange ==
    ASSUME TypeInv, [Next]_vars, whole, NEW i \in DOMAIN REQUEST_QUEUE'
    PROVE  \/ \E p \in Pfs, s \in Sectors :
                 /\ ReceiveWrite(p, s)
                 /\ REQUEST_QUEUE'[i].id = Len(asked) + 1
                 /\ REQUEST_QUEUE'[i].write_count = PPD_COUNT
           \/ QueueRead /\ REQUEST_QUEUE'[i].id = msg
           \/ \E j \in DOMAIN REQUEST_QUEUE :
                 /\ REQUEST_QUEUE'[i].id = REQUEST_QUEUE[j].id
                 /\ \/ /\ REQUEST_QUEUE'[i].write_count = REQUEST_QUEUE[j].write_count
                       /\ \A c \in Conns : ~ countedBy(c, REQUEST_QUEUE[j].id)
                    \/ /\ \E c \in Conns : countedBy(c, REQUEST_QUEUE[j].id)
                       /\ REQUEST_QUEUE'[i].write_count
                             = (REQUEST_QUEUE[j].write_count + CountMod - 1) % CountMod
<1> DEFINE Old == \E j \in DOMAIN REQUEST_QUEUE : REQUEST_QUEUE'[i] = REQUEST_QUEUE[j]
<1>0. /\ REQUEST_QUEUE \in Seq(Requests) /\ DOMAIN REQUEST_QUEUE = 1 .. Len(REQUEST_QUEUE)
      /\ Len(REQUEST_QUEUE) \in Nat
  BY Types DEF TypeInv
<1>1. ASSUME NEW c \in Conns, ReceiveWriteAnswer(c)
      PROVE  \E j \in DOMAIN REQUEST_QUEUE :
                /\ REQUEST_QUEUE'[i].id = REQUEST_QUEUE[j].id
                /\ \/ /\ REQUEST_QUEUE'[i].write_count = REQUEST_QUEUE[j].write_count
                      /\ \A d \in Conns : ~ countedBy(d, REQUEST_QUEUE[j].id)
                   \/ /\ \E d \in Conns : countedBy(d, REQUEST_QUEUE[j].id)
                      /\ REQUEST_QUEUE'[i].write_count
                            = (REQUEST_QUEUE[j].write_count + CountMod - 1) % CountMod
  <2>1. REQUEST_QUEUE' = [j \in DOMAIN REQUEST_QUEUE |->
           IF j \in search(received(c).id) THEN discounted(REQUEST_QUEUE[j])
                                           ELSE REQUEST_QUEUE[j]]
    BY <1>1 DEF ReceiveWriteAnswer
  <2>2. i \in DOMAIN REQUEST_QUEUE /\ REQUEST_QUEUE[i] \in Requests
    BY <1>0, <2>1
  <2>3. \A r \in Requests : /\ discounted(r).id = r.id
                            /\ discounted(r).write_count = (r.write_count + CountMod - 1) % CountMod
    BY DEF Requests, discounted
  <2>4. ASSUME NEW d \in Conns, ReceiveWriteAnswer(d) PROVE d = c
    <3>1. DOMAIN threadPC = Conns
      BY Types DEF TypeInv
    <3> QED
      BY <1>1, <2>4, <3>1 DEF ReceiveWriteAnswer, goes
  <2>5. CASE i \in search(received(c).id)
    BY <1>1, <2>1, <2>2, <2>3, <2>5 DEF search, countedBy
  <2>6. CASE i \notin search(received(c).id)
    BY <2>1, <2>2, <2>4, <2>6 DEF search, countedBy
  <2> QED
    BY <2>5, <2>6
<1>2. ASSUME UNCHANGED REQUEST_QUEUE PROVE Old
  BY <1>2
<1>3. ASSUME NEW id, NEW fd, addsNode(id, fd)
      PROVE  \/ REQUEST_QUEUE'[i].id = id /\ REQUEST_QUEUE'[i].write_count = PPD_COUNT
             \/ Old
  BY <1>0, <1>3 DEF addsNode
<1>4. ASSUME QueueRead PROVE REQUEST_QUEUE'[i].id = msg \/ Old
  <2>1. PICK fd \in fdOf(selected) : REQUEST_QUEUE' = addNew(msg, fd)
    BY <1>4 DEF QueueRead
  <2>2. addsNode(msg, fd)
    BY <2>1, AddsNode DEF TypeInv
  <2> QED
    BY <1>3, <2>2
<1>5. ASSUME NEW p \in Pfs, NEW s \in Sectors, ReceiveWrite(p, s)
      PROVE  \/ /\ REQUEST_QUEUE'[i].id = Len(asked) + 1
                /\ REQUEST_QUEUE'[i].write_count = PPD_COUNT
             \/ Old
  <2>1. REQUEST_QUEUE' = addNew(Len(asked) + 1, None)
    BY <1>5 DEF ReceiveWrite, Receive
  <2> QED
    BY <1>3, <2>1, AddsNode DEF TypeInv
<1>7. ASSUME NEW c \in Conns, TakeWrite(c) \/ TakeAgain(c) \/ ReceiveReadAnswer(c)
      PROVE  Old
  BY <1>7, Removes, OldNode DEF TypeInv
<1>8. \A c \in Conns : ~ ReplanWrite(c) /\ ~ Standby(c)
  BY DEF ReplanWrite, nextReplanned, Standby, goes, whole, works
<1>9. ASSUME Old, \A c \in Conns : ~ ReceiveWriteAnswer(c)
      PROVE  \E j \in DOMAIN REQUEST_QUEUE :
                /\ REQUEST_QUEUE'[i].id = REQUEST_QUEUE[j].id
                /\ REQUEST_QUEUE'[i].write_count = REQUEST_QUEUE[j].write_count
                /\ \A c \in Conns : ~ countedBy(c, REQUEST_QUEUE[j].id)
  BY <1>9 DEF countedBy
<1>10. CASE \E c \in Conns : ReceiveWriteAnswer(c)
  BY <1>1, <1>10
<1>11. CASE Old /\ \A c \in Conns : ~ ReceiveWriteAnswer(c)
  BY <1>9, <1>11
<1> QED
  BY <1>2, <1>4, <1>5, <1>7, <1>8, <1>10, <1>11, QueueStep

LEMMA CountsStep ==
    ASSUME TypeInv, Kinds, Listed, Sent, Once, Tally, Counts, [Next]_vars
    PROVE  Counts'
<1> SUFFICES ASSUME whole', NEW i \in DOMAIN REQUEST_QUEUE', NEW w, w = REQUEST_QUEUE'[i].id,
                    asked'[w].type = WRITE
             PROVE  IF w \in sentWrites'
                    THEN /\ REQUEST_QUEUE'[i].write_count >= Cardinality(waitingFor(w)')
                         /\ alive' = Conns /\ Late = {} =>
                               REQUEST_QUEUE'[i].write_count = Cardinality(waitingFor(w)')
                    ELSE REQUEST_QUEUE'[i].write_count = PPD_COUNT'
  BY DEF Counts, isWrite, waitingFor
<1>0. /\ whole /\ (\A c \in Conns : ~ NoticeDeath(c))
      /\ Len(asked) \in Nat /\ PPD_COUNT \in Nat
      /\ DOMAIN REQUEST_QUEUE = 1 .. Len(REQUEST_QUEUE)
      /\ \A j \in DOMAIN REQUEST_QUEUE : /\ REQUEST_QUEUE[j].id \in 1 .. Len(asked)
                                         /\ REQUEST_QUEUE[j].write_count \in 0 .. CountMod - 1
  <2>1. \A r \in Requests : r.write_count \in 0 .. CountMod - 1
    BY DEF Requests
  <2>2. /\ Len(asked) \in Nat
        /\ DOMAIN REQUEST_QUEUE = 1 .. Len(REQUEST_QUEUE)
        /\ \A j \in DOMAIN REQUEST_QUEUE : /\ REQUEST_QUEUE[j] \in Requests
                                           /\ REQUEST_QUEUE[j].id \in 1 .. Len(asked)
    BY NodeTypes
  <2>3. PPD_COUNT \in Nat
    BY Types DEF TypeInv
  <2> QED
    BY <2>1, <2>2, <2>3, WholeChange
<1>1. \A v : /\ waitingFor(v) \subseteq Conns /\ waitingFor(v)' \subseteq Conns
             /\ IsFiniteSet(waitingFor(v)) /\ IsFiniteSet(waitingFor(v)')
             /\ Cardinality(waitingFor(v)) \in Nat /\ Cardinality(waitingFor(v)') \in Nat
  <2> TAKE v
  <2>1. waitingFor(v) \subseteq Conns /\ waitingFor(v)' \subseteq Conns
    BY DEF waitingFor
  <2> QED
    BY <2>1, FS_Subset, FS_CardinalityType, PRAIDAssumption
\* A write received: it is still to be sent.
<1>2. CASE \E p \in Pfs, s \in Sectors :
             /\ ReceiveWrite(p, s)
             /\ w = Len(asked) + 1
             /\ REQUEST_QUEUE'[i].write_count = PPD_COUNT
  <2>1. PICK p \in Pfs, s \in Sectors : ReceiveWrite(p, s)
    BY <1>2
  <2>2. UNCHANGED PPD_COUNT /\ ~ Broadcast
    BY <2>1 DEF ReceiveWrite, Receive, Broadcast
  <2>3. w \notin sentWrites'
    BY <1>0, <1>2, <2>2, SentGrows DEF sentWrites
  <2> QED
    BY <1>2, <2>2, <2>3
\* What is queued without being sent to all is a read.
<1>3. ~ (QueueRead /\ w = msg)
  <2>1. QueueRead => ~ isWrite(msg) /\ UNCHANGED asked
    BY DEF QueueRead, Kinds, pfsVars
  <2> QED
    BY <2>1 DEF isWrite
<1>4. ASSUME NEW j \in DOMAIN REQUEST_QUEUE, w = REQUEST_QUEUE[j].id,
             \/ /\ REQUEST_QUEUE'[i].write_count = REQUEST_QUEUE[j].write_count
                /\ \A c \in Conns : ~ countedBy(c, w)
             \/ /\ \E c \in Conns : countedBy(c, w)
                /\ REQUEST_QUEUE'[i].write_count
                      = (REQUEST_QUEUE[j].write_count + CountMod - 1) % CountMod
      PROVE  IF w \in sentWrites'
             THEN /\ REQUEST_QUEUE'[i].write_count >= Cardinality(waitingFor(w)')
                  /\ alive' = Conns /\ Late = {} =>
                        REQUEST_QUEUE'[i].write_count = Cardinality(waitingFor(w)')
             ELSE REQUEST_QUEUE'[i].write_count = PPD_COUNT'
  <2> DEFINE a == REQUEST_QUEUE[j].write_count
             b == REQUEST_QUEUE'[i].write_count
  <2>0. a \in 0 .. CountMod - 1 /\ w \in 1 .. Len(asked) /\ isWrite(w)
    BY <1>0, <1>4, AskedStays
  <2>1. IF w \in sentWrites
        THEN /\ a >= Cardinality(waitingFor(w))
             /\ alive = Conns /\ Late = {} => a = Cardinality(waitingFor(w))
        ELSE a = PPD_COUNT
    BY <1>0, <1>4, <2>0 DEF Counts
  <2> HIDE DEF a, b
  <2>2. CASE w \in sentWrites
    <3>1. w \in sentWrites'
      BY <2>2, SentGrows
    <3>2. waitingFor(w)' \subseteq waitingFor(w)
      BY <1>1, <2>2, WaitingChange
    <3>3. CASE \A c \in Conns : ~ countedBy(c, w)
      <4>1. b = a
        BY <1>4, <3>3 DEF a, b
      <4>2. Cardinality(waitingFor(w)') <= Cardinality(waitingFor(w))
        BY <1>1, <3>2, FS_Subset
      <4>3. ASSUME alive' = Conns PROVE waitingFor(w)' = waitingFor(w) /\ alive = Conns
        <5>1. alive = Conns /\ \A c \in Conns : ~ Die(c)
          BY <4>3, AliveShrinks, Types DEF Die, TypeInv
        <5> QED
          BY <1>1, <2>2, <3>2, <3>3, <5>1, WaitingChange DEF countedBy
      <4> QED
        BY <1>1, <2>0, <2>1, <2>2, <3>1, <4>1, <4>2, <4>3 DEF b
    <3>4. ASSUME NEW c \in Conns, countedBy(c, w)
          PROVE  /\ b >= Cardinality(waitingFor(w)')
                 /\ alive' = Conns /\ Late = {} => b = Cardinality(waitingFor(w)')
      <4>1. c \in waitingFor(w) /\ c \notin waitingFor(w)'
        BY <2>2, <3>4, WaitingChange DEF countedBy
      <4>2. Cardinality(waitingFor(w) \ {c}) = Cardinality(waitingFor(w)) - 1
              /\ IsFiniteSet(waitingFor(w) \ {c})
        BY <1>1, <4>1, FS_RemoveElement
      <4>3. Cardinality(waitingFor(w)') <= Cardinality(waitingFor(w) \ {c})
        BY <3>2, <4>1, <4>2, FS_Subset
      <4>4. a >= 1
        BY <1>1, <2>0, <2>1, <2>2, <4>2, <4>3
      <4>5. b = a - 1
        <5>1. b = (a + CountMod - 1) % CountMod
          BY <1>4, <3>4 DEF a, b
        <5>2. a \in 1 .. CountMod - 1 /\ CountMod \in Nat
          BY <2>0, <4>4, PRAIDAssumption
        <5> QED
          BY <5>1, <5>2, OneLess
      <4>6. ASSUME alive' = Conns
            PROVE  waitingFor(w)' = waitingFor(w) \ {c} /\ alive = Conns
        <5>1. alive = Conns /\ \A d \in Conns : ~ Die(d)
          BY <4>6, AliveShrinks, Types DEF Die, TypeInv
        <5>2. ASSUME NEW d \in Conns, ReceiveWriteAnswer(d) PROVE d = c
          <6>1. DOMAIN threadPC = Conns
            BY Types DEF TypeInv
          <6> QED
            BY <3>4, <5>2, <6>1 DEF ReceiveWriteAnswer, goes, countedBy
        <5> QED
          BY <1>1, <2>2, <3>2, <4>1, <5>1, <5>2, WaitingChange
      <4>7. /\ Cardinality(waitingFor(w)') \in Nat /\ Cardinality(waitingFor(w)) \in Nat
            /\ a >= Cardinality(waitingFor(w))
            /\ alive = Conns /\ Late = {} => a = Cardinality(waitingFor(w))
            /\ Cardinality(waitingFor(w)') <= Cardinality(waitingFor(w)) - 1
            /\ alive' = Conns => /\ alive = Conns
                                 /\ Cardinality(waitingFor(w)') = Cardinality(waitingFor(w)) - 1
        BY <1>1, <2>1, <2>2, <4>2, <4>3, <4>6
      <4> QED
        BY <2>0, <4>5, <4>7
    <3> QED
      BY <3>1, <3>3, <3>4 DEF b
  <2>3. CASE w \notin sentWrites
    <3>1. mainPC = "broadcast" /\ w = msg
      BY <2>0, <2>3 DEF sentWrites
    <3>2. \A c \in Conns : \A k \in DOMAIN outbox[c] : outbox[c][k].id # w
      BY <2>0, <2>3 DEF Once
    <3>3. \A c \in Conns : ~ countedBy(c, w)
      <4> SUFFICES ASSUME NEW c \in Conns, countedBy(c, w) PROVE FALSE
        OBVIOUS
      <4>1. received(c) = outbox[c][1] /\ 1 \in DOMAIN outbox[c]
        BY ReceivedProperties DEF countedBy, ReceiveWriteAnswer, TypeInv
      <4> QED
        BY <3>2, <4>1 DEF countedBy
    <3>4. b = PPD_COUNT
      BY <1>4, <2>1, <2>3, <3>3 DEF a, b
    <3>5. UNCHANGED PPD_COUNT
      BY <1>0, <3>1, ListStep DEF ppdVars, Broadcast, ReceiveRead, Receive, StartThread,
         ReplanRead, StoreCount, AcceptPPD
    <3>6. CASE Broadcast
      <4>1. /\ Cardinality(Range(PPD_QUEUE)) = PPD_COUNT
            /\ IsFiniteSet(Range(PPD_QUEUE)) /\ Range(PPD_QUEUE) \subseteq Conns
        <5>1. Cardinality(Range(PPD_QUEUE)) = PPD_COUNT
          BY <1>0, <3>1 DEF Tally
        <5>2. Range(PPD_QUEUE) \subseteq Conns
          BY Types DEF TypeInv, Range
        <5> QED
          BY <5>1, <5>2, FS_Subset, PRAIDAssumption
      <4>2. ASSUME NEW c \in Conns PROVE (c \in waitingFor(w)') <=> c \in reached
        <5>0. /\ outbox'[c] = outbox[c]
              /\ \A n \in DOMAIN pending[c] : ~ Perform(c, n)
              /\ ~ Die(c)
          BY <3>6 DEF Broadcast, Perform, Die, mainVars
        <5>1. w \notin Range(pending[c])
          BY <2>0, <2>3 DEF Sent, Range
        <5>2. w \in Range(pending'[c]) => c \in reached
          BY <2>0, <5>1, PendingWrites
        <5>3. c \in reached => w \in Range(pending'[c])
          <6>1. c \in reached => pending'[c] = Append(pending[c], msg)
            BY <3>6, <5>0, DiskChange
          <6>2. pending[c] \in Seq(Ids)
            BY Types DEF TypeInv
          <6>3. Range(Append(pending[c], msg)) = Range(pending[c]) \cup {msg}
            BY <6>2, RangeOfAppend
          <6> QED
            BY <3>1, <6>1, <6>3
        <5> QED
          BY <3>2, <5>0, <5>2, <5>3 DEF waitingFor
      <4>3. waitingFor(w)' = reached
        BY <1>1, <4>1, <4>2 DEF reached
      <4>4. Cardinality(reached) <= PPD_COUNT
        BY <4>1, FS_Subset DEF reached
      <4>5. ASSUME alive' = Conns, Late = {} PROVE reached = Range(PPD_QUEUE)
        <5>1. alive = Conns
          BY <4>5, AliveShrinks, Types DEF TypeInv
        <5>2. asked # <<>>
          BY <1>0, <2>0
        <5>3. ASSUME NEW c \in Range(PPD_QUEUE) PROVE status[c] = READY
          <6>1. c \in Conns
            BY <4>1
          <6> QED
            BY <4>5, <5>2, <6>1 DEF Listed
        <5> QED
          BY <4>1, <5>1, <5>3 DEF reached
      <4>6. w \in sentWrites'
        BY <3>1, <3>6, SentGrows
      <4> QED
        BY <1>0, <1>1, <3>4, <4>1, <4>3, <4>4, <4>5, <4>6 DEF b
    <3>7. CASE ~ Broadcast
      BY <2>3, <3>4, <3>5, <3>7, SentGrows DEF b
    <3> QED
      BY <3>6, <3>7
  <2> QED
    BY <2>2, <2>3
<1> QED
  BY <1>0, <1>2, <1>3, <1>4, NodeChange

CountInv == Once /\ HeldOnce /\ Tally /\ Counts

LEMMA InitCounts == Init => CountInv
<1> SUFFICES ASSUME Init PROVE CountInv
  OBVIOUS
<1> USE PRAIDAssumption DEF Init
<1>1. Once /\ HeldOnce /\ Counts
  BY DEF Once, HeldOnce, Counts
<1>2. Tally
  <2>1. Range(PPD_QUEUE) = {}
    BY DEF Range
  <2>2. Cardinality(Range(PPD_QUEUE)) = 0
    BY <2>1, FS_EmptySet
  <2>3. whole
    BY DEF whole
  <2> QED
    BY <2>2, <2>3 DEF Tally
<1> QED
  BY <1>1, <1>2 DEF CountInv

LEMMA CountStep == ASSUME TypeInv, CopyInv, CountInv, [Next]_vars PROVE CountInv'
  BY OnceStep, TallyStep, CountsStep DEF CopyInv, CountInv

\* While no disk was found lost, write_count is at least what is still awaited,
\* and exactly that if no disk joins late (request_handler.c:19-33,
\* ppd_thread.c:80-92).
THEOREM CountInvariance == Spec => []CountInv
<1>1. TypeInv /\ CopyInv /\ CountInv /\ [Next]_vars => CountInv'
  BY CountStep
<1> QED
  BY <1>1, InitCounts, TypeInvariant, CopyInvariance, PTL DEF Spec

\* While every disk is there and none joins late, write_count is the number of
\* the disks whose answer has not been counted (request_handler.c:29,
\* praid.c:161, ppd_thread.c:84).
THEOREM CountsExactly == ASSUME Late = {} PROVE Spec => []WriteCountExact
<1>1. TypeInv /\ CountInv => WriteCountExact
  <2> SUFFICES ASSUME TypeInv, CountInv, alive = Conns, NEW i \in DOMAIN REQUEST_QUEUE,
                      isWrite(REQUEST_QUEUE[i].id), REQUEST_QUEUE[i].id # msg
               PROVE  REQUEST_QUEUE[i].write_count
                         = Cardinality(waitingFor(REQUEST_QUEUE[i].id))
    BY DEF WriteCountExact
  <2>1. REQUEST_QUEUE[i].id \in 1 .. Len(asked)
    BY NodeTypes
  <2>2. REQUEST_QUEUE[i].id \in sentWrites
    BY <2>1 DEF sentWrites
  <2> QED
    BY <2>2 DEF CountInv, Tally, Counts
<1> QED
  BY <1>1, TypeInvariant, CountInvariance, PTL

-----------------------------------------------------------------------------
(* Copies of what was answered.                                             *)

\* A disk that is not connected has no write to make.
Unconnected ==
    \A c \in Conns : threadPC[c] = "none" => \A e \in Range(pending[c]) : ~ isWrite(e)

LEMMA UnconnectedStep ==
    ASSUME TypeInv, Kinds, Listed, Unconnected, [Next]_vars
    PROVE  Unconnected'
<1> SUFFICES ASSUME NEW c \in Conns, threadPC'[c] = "none", NEW w \in Range(pending'[c])
             PROVE  asked'[w].type # WRITE
  BY DEF Unconnected, isWrite
<1>1. threadPC[c] = "none"
  BY ThreadMoves DEF works
<1>2. ~ (Broadcast /\ c \in reached)
  BY <1>1 DEF Broadcast, reached, Listed, works, beingCounted
<1>3. w \in 1 .. Len(asked)' /\ (w \in 1 .. Len(asked) => (asked'[w].type = WRITE <=> isWrite(w)))
  <2>1. pending' \in [Conns -> Seq(Ids)] /\ Len(asked)' \in Nat /\ KnownDisk'
    BY DisksTyped, AskedGrows DEF DiskTypes, TypeInv
  <2>2. w \in Ids /\ w <= Len(asked)'
    BY <2>1 DEF Range, KnownDisk
  <2> QED
    BY <2>1, <2>2, AskedStays, PRAIDAssumption DEF Ids
<1>4. isWrite(w) => w \notin Range(pending[c])
  BY <1>1 DEF Unconnected
<1>5. w \in 1 .. Len(asked)
  <2>1. \/ w \in Range(pending[c])
        \/ Broadcast /\ w = msg
        \/ w \in 1 .. Len(asked)
    <3>0. pending[c] \in Seq(Ids)
      BY Types DEF TypeInv
    <3>1. ASSUME NEW id, pending'[c] = Append(pending[c], id)
          PROVE  w \in Range(pending[c]) \/ w = id
      BY <3>0, <3>1, RangeOfAppend
    <3>2. ASSUME NEW n \in DOMAIN pending[c], Perform(c, n)
          PROVE  w \in Range(pending[c])
      BY <3>2, Performed
    <3>3. pending'[c] # <<>>
      BY DEF Range
    <3> QED
      BY <3>1, <3>2, <3>3, DiskChange
  <2>2. \A e \in Range(pending[c]) : e \in 1 .. Len(asked)
    <3>1. pending[c] \in Seq(Ids) /\ Len(asked) \in Nat
      BY Types DEF TypeInv
    <3>2. ASSUME NEW k \in DOMAIN pending[c] PROVE pending[c][k] \in 1 .. Len(asked)
      <4>1. pending[c][k] \in Ids /\ pending[c][k] <= Len(asked)
        BY <3>1 DEF TypeInv, KnownDisk
      <4> QED
        BY <3>1, <4>1, PRAIDAssumption DEF Ids
    <3> QED
      BY <3>2 DEF Range
  <2> QED
    BY <2>1, <2>2, SentGrows
<1> QED
  BY <1>2, <1>3, <1>4, <1>5, PendingWrites

\* A write that was answered, or that a thread is about to answer, waits for no
\* disk that serves: as long as no disk was found lost, or if there are but two.
completed(w) ==
    \/ answers[w] # <<>>
    \/ \E c \in Conns : threadPC[c] = "take" /\ held[c] = w /\ w \in found[c]

Mirrored ==
    \A w \in 1 .. Len(asked) : isWrite(w) /\ completed(w) =>
        w \in sentWrites /\ \A c \in serving : w \notin Range(pending[c])

atMostTwo == \A a, b, c \in Conns : a = b \/ b = c \/ a = c

MirrorInv == Unconnected /\ (whole \/ atMostTwo => Mirrored)

\* What is complete now was so before, or has just been found to be.
LEMMA CompletedChange ==
    ASSUME TypeInv, AnswerInv, CopyInv, CountInv, [Next]_vars,
           NEW w \in 1 .. Len(asked), isWrite(w), completed(w)'
    PROVE  \/ completed(w)
           \/ \E c \in Conns : /\ TestCount(c) /\ threadPC[c] = "test" /\ held[c] = w
                               /\ w \in queued
                               /\ \A i \in search(w) : REQUEST_QUEUE[i].write_count = 0
<1>1. CASE answers'[w] # answers[w]
  <2>1. PICK c \in Conns : \E id \in Ids : \E value :
           takenNow(c, id) /\ answers' = [answers EXCEPT ![id] = Append(@, value)]
    BY <1>1, AnswersChange
  <2>2. PICK id \in Ids :
           /\ takenNow(c, id)
           /\ \E value : answers' = [answers EXCEPT ![id] = Append(@, value)]
    BY <2>1
  <2>3. id = w
    BY <1>1, <2>2, Types DEF TypeInv
  <2>4. (TakeWrite(c) \/ TakeAgain(c)) /\ w = held[c]
    BY <2>2, <2>3 DEF takenNow, ReceiveReadAnswer
  <2> QED
    BY <2>4 DEF completed, TakeWrite, TakeAgain, endsTake, goes
<1>2. CASE answers'[w] = answers[w] /\ answers'[w] # <<>>
  BY <1>2 DEF completed
<1>3. ASSUME NEW c \in Conns, w \in found'[c], threadPC'[c] = "take", held'[c] = w
      PROVE  \/ completed(w)
             \/ /\ TestCount(c) /\ threadPC[c] = "test" /\ held[c] = w /\ w \in queued
                /\ \A i \in search(w) : REQUEST_QUEUE[i].write_count = 0
  <2>2. ~ ReceiveWriteAnswer(c)
    BY <1>3, Types DEF ReceiveWriteAnswer, goes, TypeInv
  <2>3. threadPC[c] \in {"test", "take"} /\ held[c] = w
    BY <1>3, <2>2, HeldChange
  <2>4. CASE threadPC[c] = "take"
    <3>1. ~ TestCount(c)
      BY <2>4 DEF TestCount, goes
    <3> QED
      BY <1>3, <2>3, <2>4, <3>1, FoundChange DEF completed
  <2>5. CASE threadPC[c] = "test"
    <3>1. TestCount(c)
      BY <1>3, <2>2, <2>5, ThreadMoves
         DEF TakeWrite, TakeAgain, endsTake, goes, StoreCount, RefusePPD, mayConnect, connects
    <3>2. (\A i \in search(w) : REQUEST_QUEUE[i].write_count = 0) /\ w \in queued
      BY <1>3, <2>3, <3>1, FoundChange, Types DEF TestCount, goes, TypeInv
    <3> QED
      BY <2>3, <2>5, <3>1, <3>2
  <2> QED
    BY <2>3, <2>4, <2>5
<1> QED
  BY <1>1, <1>2, <1>3 DEF completed

LEMMA MirroredStep ==
    ASSUME TypeInv, AnswerInv, CopyInv, CountInv, MirrorInv, [Next]_vars,
           whole' \/ atMostTwo
    PROVE  Mirrored'
<1>0. /\ Mirrored /\ Unconnected
      /\ Len(asked) \in Nat /\ Len(asked)' \in Nat
      /\ \A c \in Conns : pending[c] \in Seq(Ids)
  BY WholeChange, Types, AskedGrows DEF MirrorInv, TypeInv
<1> SUFFICES ASSUME NEW w \in 1 .. Len(asked)', asked'[w].type = WRITE, completed(w)'
             PROVE  w \in sentWrites' /\ \A c \in serving' : w \notin Range(pending'[c])
  BY DEF Mirrored, isWrite, completed
\* A request just received is not complete.
<1>1. w \in 1 .. Len(asked)
  <2> SUFFICES ASSUME w \notin 1 .. Len(asked) PROVE FALSE
    OBVIOUS
  <2>1. ASSUME ~ UNCHANGED answers PROVE answers'[w] = answers[w]
    <3>1. PICK c \in Conns : \E id \in Ids : \E value :
             id <= Len(asked) /\ answers' = [answers EXCEPT ![id] = Append(@, value)]
      BY <2>1, AnswersChange
    <3>2. PICK id \in Ids : \E value :
             id <= Len(asked) /\ answers' = [answers EXCEPT ![id] = Append(@, value)]
      BY <3>1
    <3>3. id # w
      BY <1>0, <3>2
    <3> QED
      BY <3>2, <3>3
  <2>2. answers'[w] = <<>>
    <3>1. w \in Ids /\ ~ (w <= Len(asked))
      BY <1>0, AskedGrows, PRAIDAssumption DEF Ids, TypeInv
    <3>2. answers[w] = <<>>
      BY <3>1 DEF AnswerInv
    <3> QED
      BY <2>1, <3>2
  <2>3. ASSUME NEW c \in Conns, threadPC'[c] = "take" PROVE held'[c] # w
    <3>1. held'[c] \in 1 .. Len(asked)
      <4>1. CASE threadPC[c] \in {"test", "take"} /\ held'[c] = held[c]
        BY <4>1 DEF TypeInv, KnownHeld
      <4>2. CASE ReceiveWriteAnswer(c) /\ held'[c] = received(c).id
        BY <1>0, <4>2, ReceivedProperties, PRAIDAssumption DEF ReceiveWriteAnswer, TypeInv, Ids
      <4> QED
        BY <2>3, <4>1, <4>2, HeldChange
    <3> QED
      BY <3>1
  <2> QED
    BY <2>2, <2>3 DEF completed
<1>2. isWrite(w)
  BY <1>1, AskedStays
\* A write that no disk that serves had to make.
<1>3. ASSUME w \in sentWrites, \A c \in serving : w \notin Range(pending[c])
      PROVE  w \in sentWrites' /\ \A c \in serving' : w \notin Range(pending'[c])
  <2>1. ASSUME NEW c \in serving' PROVE c \in Conns /\ w \notin Range(pending[c])
    <3>1. c \in alive /\ c \in Conns /\ c \in Range(PPD_QUEUE')
      BY AliveShrinks, Types DEF serving, TypeInv
    <3>2. CASE AcceptPPD(c)
      BY <1>0, <1>2, <3>1, <3>2 DEF AcceptPPD, mayConnect, connects, Unconnected
    <3>3. CASE c \in Range(PPD_QUEUE)
      BY <1>3, <3>1, <3>3 DEF serving
    <3> QED
      BY <3>1, <3>2, <3>3, Members
  <2> QED
    BY <1>3, <2>1, SentOnce, SentGrows DEF CopyInv
<1>4. CASE completed(w)
  BY <1>0, <1>1, <1>2, <1>3, <1>4 DEF Mirrored
\* A write found complete.
<1>5. ASSUME NEW t \in Conns, threadPC[t] = "test", held[t] = w, w \in queued,
             \A i \in search(w) : REQUEST_QUEUE[i].write_count = 0
      PROVE  w \in sentWrites /\ \A c \in serving : w \notin Range(pending[c])
  <2>1. w \in sentWrites /\ w \notin Range(pending[t])
    BY <1>5 DEF CountInv, HeldOnce
  <2>2. CASE whole
    <3>1. PICK i \in DOMAIN REQUEST_QUEUE : REQUEST_QUEUE[i].id = w
      BY <1>5 DEF queued
    <3>2. REQUEST_QUEUE[i].write_count = 0
      BY <1>5, <3>1 DEF search
    <3>3. 0 >= Cardinality(waitingFor(w))
      BY <1>2, <2>1, <2>2, <3>1, <3>2 DEF CountInv, Counts
    <3>4. waitingFor(w) = {}
      <4>1. waitingFor(w) \subseteq Conns
        BY DEF waitingFor
      <4>2. IsFiniteSet(waitingFor(w)) /\ Cardinality(waitingFor(w)) \in Nat
        BY <4>1, FS_Subset, FS_CardinalityType, PRAIDAssumption
      <4>3. Cardinality(waitingFor(w)) = 0
        BY <3>3, <4>2
      <4> QED
        BY <4>2, <4>3, FS_EmptySet
    <3> QED
      BY <2>1, <3>4, Types DEF waitingFor, serving, TypeInv
  <2>3. CASE ~ whole /\ atMostTwo
    <3>1. PICK d \in Conns : threadPC[d] \notin {"none", "refused"} \cup works
      BY <2>3 DEF whole
    <3>2. d # t
      BY <1>5, <3>1 DEF works
    <3>3. d \notin Range(PPD_QUEUE)
      BY <3>1 DEF CopyInv, Listed, TypeInv, ListInv, beingCounted
    <3>4. ASSUME NEW c \in serving PROVE c = t
      <4>1. c \in Conns /\ c # d
        BY <3>3, Types DEF serving, TypeInv
      <4> QED
        BY <2>3, <3>1, <3>2, <4>1 DEF atMostTwo
    <3> QED
      BY <2>1, <3>4
  <2> QED
    BY <2>2, <2>3, WholeChange
<1>6. CASE ~ completed(w)
  BY <1>1, <1>2, <1>3, <1>5, <1>6, CompletedChange
<1> QED
  BY <1>4, <1>6

LEMMA InitMirror == Init => MirrorInv
  BY PRAIDAssumption DEF Init, MirrorInv, Unconnected, Mirrored, Range

LEMMA MirrorStep ==
    ASSUME TypeInv, AnswerInv, CopyInv, CountInv, MirrorInv, [Next]_vars
    PROVE  MirrorInv'
<1>1. Unconnected'
  BY UnconnectedStep DEF CopyInv, MirrorInv
<1>2. atMostTwo' <=> atMostTwo
  BY DEF atMostTwo
<1> QED
  BY <1>1, <1>2, MirroredStep DEF MirrorInv

\* A write that was answered, or is about to be, waits for no disk that serves,
\* until a disk is found lost; with two disks also after (ppd_thread.c:84-92,
\* 149-153).
THEOREM MirrorInvariance == Spec => []MirrorInv
<1>1. TypeInv /\ AnswerInv /\ CopyInv /\ CountInv /\ MirrorInv /\ [Next]_vars => MirrorInv'
  BY MirrorStep
<1> QED
  BY <1>1, InitMirror, TypeInvariant, AnswerInvariance, CopyInvariance, CountInvariance, PTL
     DEF Spec

\* What is answered is on the disks.
LEMMA AnsweredIsWritten ==
    ASSUME TypeInv, CopyInv, Mirrored, NEW w \in 1 .. Len(asked), isWrite(w),
           answers[w] # <<>>, NEW c \in serving \ Late
    PROVE  content[c][asked[w].sector] >= w
  BY DEF Mirrored, completed, CopyInv, Complete

\* Until a disk is found lost, a write that was answered is on every disk that
\* serves and was there before the first request, also when disks join late.
THEOREM FirstDisksMirrored ==
    Spec => [](whole => \A w \in DOMAIN asked :
                           isWrite(w) /\ answers[w] # <<>> =>
                               \A c \in serving \ Late : content[c][asked[w].sector] >= w)
<1>1. TypeInv /\ CopyInv /\ MirrorInv =>
         (whole => \A w \in DOMAIN asked :
                      isWrite(w) /\ answers[w] # <<>> =>
                          \A c \in serving \ Late : content[c][asked[w].sector] >= w)
  <2>1. TypeInv => DOMAIN asked = 1 .. Len(asked)
    BY Types DEF TypeInv
  <2> QED
    BY <2>1, AnsweredIsWritten DEF MirrorInv
<1> QED
  BY <1>1, TypeInvariant, CopyInvariance, MirrorInvariance, PTL

\* With two disks AckMeansMirrored holds whichever of them is lost, and when:
\* the thread that answers is that of the only disk that can still serve.
THEOREM TwoDisksMirrored ==
    ASSUME NEW a, NEW b, Conns = {a, b}, Late = {}
    PROVE  Spec => []AckMeansMirrored
<1>1. atMostTwo
  BY DEF atMostTwo
<1>2. TypeInv /\ CopyInv /\ MirrorInv => AckMeansMirrored
  <2>1. TypeInv => DOMAIN asked = 1 .. Len(asked)
    BY Types DEF TypeInv
  <2> QED
    BY <1>1, <2>1, AnsweredIsWritten DEF MirrorInv, AckMeansMirrored
<1> QED
  BY <1>2, TypeInvariant, CopyInvariance, MirrorInvariance, PTL
====
