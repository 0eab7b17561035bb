----------------------------- MODULE Fat_proofs -----------------------------
(***************************************************************************)
(* What the operations of the allocation table do to the chains of         *)
(* clusters in it, for tables of any size: a walk gives the clusters of a  *)
(* chain in order, so a linked cluster becomes the last and a removed one  *)
(* was the last.                                                           *)
(***************************************************************************)
EXTENDS Fat, FiniteSetTheorems, WellFoundedInduction, SequenceTheorems, TLAPS

-----------------------------------------------------------------------------
(* Numbers.                                                                 *)

\* A nonempty set of numbers has a least one: of the sets of its elements up to
\* one of them, take one that contains no other.
LEMMA MinIsLeast ==
    ASSUME NEW S \in SUBSET Nat, S # {}
    PROVE  Min(S) \in S /\ \A y \in S : Min(S) <= y
<1> DEFINE upTo(m) == {y \in S : y <= m}
           sets == {upTo(m) : m \in S}
<1>1. sets \subseteq FiniteSubsetsOf(Nat) /\ sets # {}
  <2>1. ASSUME NEW m \in S PROVE IsFiniteSet(upTo(m)) /\ upTo(m) \in SUBSET Nat
    BY FS_BoundedSetOfNaturals
  <2> QED
    BY <2>1 DEF FiniteSubsetsOf
<1>2. \E T \in sets : \A U \in sets : ~ (<<U, T>> \in StrictSubsetOrdering(Nat))
  <2> HIDE DEF sets
  <2> QED
    BY <1>1, FS_StrictSubsetOrderingWellFounded, WFMin, Zenon
<1>3. PICK m \in S : \A k \in S : ~ (<<upTo(k), upTo(m)>> \in StrictSubsetOrdering(Nat))
  BY <1>2
<1>4. ASSUME NEW k \in S, ~ m <= k PROVE FALSE
  <2>0. m \in Nat /\ k \in Nat /\ k < m /\ \A y \in S : y \in Nat
    BY <1>4
  <2>1. upTo(k) \subseteq upTo(m) /\ m \in upTo(m) /\ m \notin upTo(k)
    <3>1. \A y \in S : y <= k => y <= m
      BY <2>0
    <3>2. m <= m /\ ~ (m <= k)
      BY <2>0
    <3> QED
      BY <3>1, <3>2, Zenon
  <2>2. upTo(k) \in SUBSET Nat /\ upTo(m) \in SUBSET Nat /\ upTo(k) # upTo(m)
    BY <2>1
  <2>3. <<upTo(k), upTo(m)>> \in StrictSubsetOrdering(Nat)
    <3> HIDE DEF upTo
    <3> QED
      BY <2>1, <2>2 DEF StrictSubsetOrdering
  <2> QED
    BY <2>3, <1>3
<1>5. \E x \in S : \A y \in S : x <= y
  BY <1>4
<1> QED
  BY <1>5 DEF Min

\* Induction up to m.
LEMMA UpTo ==
    ASSUME NEW m \in Nat, NEW S, 0 \in S, \A n \in 0 .. m - 1 : n \in S => n + 1 \in S
    PROVE  0 .. m \subseteq S
<1> DEFINE bad == {n \in 0 .. m : n \notin S}
<1>1. SUFFICES ASSUME bad # {} PROVE FALSE
  OBVIOUS
<1>2. bad \in SUBSET Nat
  OBVIOUS
<1> DEFINE x == Min(bad)
<1>3. x \in bad /\ \A y \in bad : x <= y
  <2> HIDE DEF bad
  <2> QED
    BY <1>1, <1>2, MinIsLeast
<1> HIDE DEF x
<1>4. x - 1 \in 0 .. m - 1 /\ x - 1 \notin bad
  BY <1>3
<1>5. x - 1 \in S
  BY <1>4
<1> QED
  BY <1>3, <1>4, <1>5

\* A function applied again and again: the values after 0 to m times.
iterates(f, a, step, m) == f[0] = a /\ \A n \in 1 .. m : f[n] = step[f[n - 1]]

LEMMA Iterated ==
    ASSUME NEW T, NEW a \in T, NEW step \in [T -> T], NEW m \in Nat
    PROVE  \E f : f \in [0 .. m -> T] /\ iterates(f, a, step, m)
<1> DEFINE is(f, n) == iterates(f, a, step, n)
           S == {n \in 0 .. m : \E f \in [0 .. n -> T] : is(f, n)}
<1>1. 0 \in S
  <2> DEFINE f == [k \in 0 .. 0 |-> a]
  <2>1. f \in [0 .. 0 -> T] /\ is(f, 0)
    BY DEF iterates
  <2>2. \E g \in [0 .. 0 -> T] : is(g, 0)
    BY <2>1
  <2> HIDE DEF is
  <2> QED
    BY <2>2
<1>2. ASSUME NEW n \in 0 .. m - 1, n \in S PROVE n + 1 \in S
  <2>1. PICK f \in [0 .. n -> T] : is(f, n)
    BY <1>2
  <2> DEFINE g == [k \in 0 .. n + 1 |-> IF k <= n THEN f[k] ELSE step[f[n]]]
  <2>2. f[n] \in T /\ step[f[n]] \in T
    BY <2>1
  <2>3. g \in [0 .. n + 1 -> T]
    BY <2>2
  <2>4. g[0] = a
    BY <2>1 DEF iterates
  <2>5. ASSUME NEW k \in 1 .. n + 1 PROVE g[k] = step[g[k - 1]]
    <3>1. CASE k <= n
      BY <2>1, <3>1 DEF iterates
    <3>2. CASE k = n + 1
      BY <3>2
    <3> QED
      BY <3>1, <3>2
  <2> HIDE DEF g
  <2>6. is(g, n + 1)
    BY <2>4, <2>5 DEF iterates
  <2> QED
    BY <2>3, <2>6
<1>3. 0 .. m \subseteq S
  <2> HIDE DEF S
  <2> QED
    BY <1>1, <1>2, UpTo
<1> QED
  BY <1>3

-----------------------------------------------------------------------------
(* Walks.                                                                   *)

\* What a walk of n turns from d on gives, for all n and d.
isWalk(w, table) ==
    /\ w \in [0 .. Size -> [Entries -> Seq(Entries)]]
    /\ \A d \in Entries : w[0][d] = <<d>>
    /\ \A n \in 1 .. Size, d \in Entries :
          w[n][d] = IF isEOC(table[d]) THEN <<d>> ELSE <<d>> \o w[n - 1][table[d]]

LEMMA NextIsEntry ==
    ASSUME NEW table \in Tables, NEW d \in Entries, ~ isEOC(table[d])
    PROVE  table[d] \in Entries
  BY FatAssumption DEF Tables, Entries, isEOC, Media, EOC

LEMMA WalksExist ==
    ASSUME NEW table \in Tables
    PROVE  \E w : isWalk(w, table)
<1> DEFINE T == [Entries -> Seq(Entries)]
           a == [d \in Entries |-> <<d>>]
           turn(g) == [d \in Entries |->
                          IF isEOC(table[d]) THEN <<d>> ELSE <<d>> \o g[table[d]]]
           step == [g \in T |-> turn(g)]
<1>1. \A d \in Entries : <<d>> \in Seq(Entries)
  OBVIOUS
<1>2. a \in T
  BY <1>1
<1>3. ASSUME NEW g \in T PROVE turn(g) \in T
  <2>1. ASSUME NEW d \in Entries, ~ isEOC(table[d])
        PROVE  <<d>> \o g[table[d]] \in Seq(Entries)
    BY <1>1, <2>1, NextIsEntry, ConcatProperties
  <2> QED
    BY <1>1, <2>1
<1>4. step \in [T -> T]
  BY <1>3
<1>5. Size \in Nat
  BY FatAssumption
<1> HIDE DEF T, a, step
<1>6. PICK f : f \in [0 .. Size -> T] /\ iterates(f, a, step, Size)
  BY <1>2, <1>4, <1>5, Iterated
<1>7. ASSUME NEW n \in 1 .. Size PROVE f[n] = turn(f[n - 1])
  <2>1. f[n - 1] \in T
    BY <1>5, <1>6
  <2> QED
    BY <1>6, <2>1 DEF step, iterates
<1>8. \A d \in Entries : f[0][d] = <<d>>
  BY <1>6 DEF a, iterates
<1>9. ASSUME NEW n \in 1 .. Size, NEW d \in Entries
      PROVE  f[n][d] = IF isEOC(table[d]) THEN <<d>> ELSE <<d>> \o f[n - 1][table[d]]
  BY <1>7
<1> QED
  BY <1>6, <1>8, <1>9 DEF isWalk, T

\* The recursive definition of a walk says what it seems to say.
LEMMA WalkIsWalk ==
    ASSUME NEW table \in Tables, NEW c \in Entries
    PROVE  \E w : isWalk(w, table) /\ walk(table, c) = w[Size][c]
<1> DEFINE body(g) ==
              [n \in 0 .. Size |->
                  [d \in Entries |-> IF n = 0 \/ isEOC(table[d]) THEN <<d>>
                                    ELSE <<d>> \o g[n - 1][table[d]]]]
           w == CHOOSE g : g = body(g)
<1>0. Size \in Nat /\ 0 \in 0 .. Size /\ Size \in 0 .. Size
  BY FatAssumption
<1>1. PICK v : isWalk(v, table)
  BY WalksExist
<1>2. v = body(v)
  <2> DEFINE line(n) == [d \in Entries |-> IF n = 0 \/ isEOC(table[d]) THEN <<d>>
                                          ELSE <<d>> \o v[n - 1][table[d]]]
  <2>1. ASSUME NEW n \in 0 .. Size PROVE v[n] = line(n)
    <3>1. v[n] \in [Entries -> Seq(Entries)]
      BY <1>1 DEF isWalk
    <3>2. ASSUME NEW d \in Entries
          PROVE  v[n][d] = IF n = 0 \/ isEOC(table[d]) THEN <<d>>
                           ELSE <<d>> \o v[n - 1][table[d]]
      <4>1. n = 0 \/ n \in 1 .. Size
        BY <1>0
      <4> QED
        BY <1>1, <4>1 DEF isWalk
    <3> QED
      BY <3>1, <3>2
  <2>2. v = [n \in 0 .. Size |-> v[n]]
    BY <1>1 DEF isWalk
  <2> HIDE DEF line
  <2>3. v = [n \in 0 .. Size |-> line(n)]
    BY <2>1, <2>2
  <2> QED
    BY <2>3 DEF line
<1>3. w = body(w)
  <2> HIDE DEF body
  <2> QED
    BY <1>2
<1>9. walk(table, c) = w[Size][c]
  BY DEF walk
<1> HIDE DEF w
<1>4. ASSUME NEW n \in 0 .. Size
      PROVE  w[n] = [d \in Entries |-> IF n = 0 \/ isEOC(table[d]) THEN <<d>>
                                      ELSE <<d>> \o w[n - 1][table[d]]]
  BY <1>3
<1>5. \A d \in Entries : w[0][d] = <<d>>
  BY <1>0, <1>4
<1>6. ASSUME NEW n \in 1 .. Size, NEW d \in Entries
      PROVE  w[n][d] = IF isEOC(table[d]) THEN <<d>> ELSE <<d>> \o w[n - 1][table[d]]
  <2>1. n \in 0 .. Size /\ n # 0
    BY <1>0
  <2> QED
    BY <1>4, <2>1
<1>7. 0 .. Size \subseteq {n \in 0 .. Size : \A d \in Entries : w[n][d] \in Seq(Entries)}
  <2> DEFINE S == {n \in 0 .. Size : \A d \in Entries : w[n][d] \in Seq(Entries)}
  <2>1. 0 \in S
    <3>1. \A d \in Entries : <<d>> \in Seq(Entries)
      OBVIOUS
    <3> QED
      BY <1>0, <1>5, <3>1
  <2>2. ASSUME NEW n \in 0 .. Size - 1, n \in S PROVE n + 1 \in S
    <3>1. n + 1 \in 1 .. Size /\ (n + 1) - 1 = n /\ n + 1 \in 0 .. Size
      BY <1>0
    <3>2. ASSUME NEW d \in Entries PROVE w[n + 1][d] \in Seq(Entries)
      <4>1. w[n + 1][d] = IF isEOC(table[d]) THEN <<d>> ELSE <<d>> \o w[n][table[d]]
        BY <1>6, <3>1
      <4>2. CASE isEOC(table[d])
        BY <4>1, <4>2
      <4>3. CASE ~ isEOC(table[d])
        <5>1. w[n][table[d]] \in Seq(Entries) /\ <<d>> \in Seq(Entries)
          BY <2>2, <4>3, NextIsEntry
        <5> QED
          BY <4>1, <4>3, <5>1, ConcatProperties
      <4> QED
        BY <4>2, <4>3
    <3> QED
      BY <3>1, <3>2
  <2> HIDE DEF S
  <2>3. 0 .. Size \subseteq S
    BY <1>0, <2>1, <2>2, UpTo
  <2> QED
    BY <2>3 DEF S
<1>8. w \in [0 .. Size -> [Entries -> Seq(Entries)]]
  <2>1. w = [n \in 0 .. Size |-> w[n]]
    BY <1>3
  <2>2. ASSUME NEW n \in 0 .. Size PROVE w[n] \in [Entries -> Seq(Entries)]
    BY <1>4, <1>7
  <2> QED
    BY <2>1, <2>2
<1> QED
  BY <1>5, <1>6, <1>8, <1>9 DEF isWalk

-----------------------------------------------------------------------------
(* Chains.                                                                  *)

\* Each cluster leads to the next one and the last has an end mark.
isChain(s, table) ==
    /\ s \in Seq(Clusters) /\ Len(s) \in 1 .. Size
    /\ \A i \in 1 .. Len(s) - 1 : table[s[i]] = s[i + 1]
    /\ isEOC(table[s[Len(s)]])

distinct(s) == \A i, j \in 1 .. Len(s) : s[i] = s[j] => i = j

LEMMA ChainFacts ==
    ASSUME NEW table \in Tables, NEW s, isChain(s, table)
    PROVE  /\ \A i \in 1 .. Len(s) : s[i] \in Clusters /\ s[i] \in Entries
           /\ \A i \in 1 .. Len(s) : table[s[i]] # 0
           /\ \A i \in 1 .. Len(s) : isEOC(table[s[i]]) <=> i = Len(s)
<1>0. Size \in Nat /\ Len(s) \in 1 .. Size
  BY FatAssumption DEF isChain
<1>1. \A i \in 1 .. Len(s) : s[i] \in Clusters
  BY DEF isChain
<1>2. ASSUME NEW i \in 1 .. Len(s)
      PROVE  table[s[i]] # 0 /\ (isEOC(table[s[i]]) <=> i = Len(s))
  <2>1. CASE i = Len(s)
    BY <1>0, <2>1 DEF isChain, isEOC, Media, EOC
  <2>2. CASE i # Len(s)
    <3>1. i \in 1 .. Len(s) - 1 /\ i + 1 \in 1 .. Len(s)
      BY <1>0, <2>2
    <3>2. table[s[i]] \in Clusters
      BY <1>1, <3>1 DEF isChain
    <3> QED
      BY <1>0, <2>2, <3>2 DEF isEOC, Media, EOC, Clusters
  <2> QED
    BY <2>1, <2>2
<1> QED
  BY <1>0, <1>1, <1>2 DEF Clusters, Entries

\* A walk from the start of a chain gives the chain.
LEMMA WalkOfChain ==
    ASSUME NEW table \in Tables, NEW s, isChain(s, table)
    PROVE  walk(table, s[1]) = s
<1>0. Size \in Nat /\ Len(s) \in 1 .. Size
  BY FatAssumption DEF isChain
<1>a. s \in Seq(Clusters)
  BY DEF isChain
<1>1. \A i \in 1 .. Len(s) : s[i] \in Entries
  BY ChainFacts
<1>2. PICK w : isWalk(w, table) /\ walk(table, s[1]) = w[Size][s[1]]
  BY <1>0, <1>1, WalkIsWalk
<1> DEFINE S == {n \in 0 .. Size : \A i \in 1 .. Len(s) :
                    Len(s) - i <= n => w[n][s[i]] = SubSeq(s, i, Len(s))}
<1>3. SubSeq(s, Len(s), Len(s)) = <<s[Len(s)]>>
  <2> DEFINE q == SubSeq(s, Len(s), Len(s))
  <2>1. q \in Seq(Entries) /\ Len(q) = 1 /\ q[1] = s[Len(s)]
    <3>1. Len(s) \in Int /\ \A i \in Len(s) .. Len(s) : s[i] \in Entries
      BY <1>0, <1>1
    <3>2. /\ q \in Seq(Entries)
          /\ Len(q) = IF Len(s) <= Len(s) THEN Len(s) - Len(s) + 1 ELSE 0
          /\ \A i \in 1 .. Len(s) - Len(s) + 1 : q[i] = s[Len(s) + i - 1]
      BY <3>1, SubSeqProperties
    <3> HIDE DEF q
    <3> QED
      BY <1>0, <3>2
  <2> HIDE DEF q
  <2>2. q = <<q[1]>>
    BY <2>1
  <2> QED
    BY <2>1, <2>2 DEF q
<1>4. 0 \in S
  <2>1. ASSUME NEW i \in 1 .. Len(s), Len(s) - i <= 0
        PROVE  w[0][s[i]] = SubSeq(s, i, Len(s))
    <3>1. i = Len(s)
      BY <1>0, <2>1
    <3> QED
      BY <1>1, <1>2, <1>3, <3>1 DEF isWalk
  <2> QED
    BY <1>0, <2>1
<1>5. ASSUME NEW n \in 0 .. Size - 1, n \in S PROVE n + 1 \in S
  <2>1. n + 1 \in 1 .. Size /\ (n + 1) - 1 = n /\ n + 1 \in 0 .. Size
    BY <1>0
  <2>2. ASSUME NEW i \in 1 .. Len(s), Len(s) - i <= n + 1
        PROVE  w[n + 1][s[i]] = SubSeq(s, i, Len(s))
    <3>1. w[n + 1][s[i]] = IF isEOC(table[s[i]]) THEN <<s[i]>>
                           ELSE <<s[i]>> \o w[n][table[s[i]]]
      BY <1>1, <1>2, <2>1 DEF isWalk
    <3>2. CASE i = Len(s)
      BY <1>3, <3>1, <3>2, ChainFacts
    <3>3. CASE i # Len(s)
      <4>1. i + 1 \in 1 .. Len(s) /\ Len(s) - (i + 1) <= n /\ i \in 1 .. Len(s) - 1
        BY <1>0, <2>2, <3>3
      <4>2. table[s[i]] = s[i + 1]
        BY <4>1 DEF isChain
      <4>3. w[n + 1][s[i]] = <<s[i]>> \o SubSeq(s, i + 1, Len(s))
        BY <1>5, <3>1, <3>3, <4>1, <4>2, ChainFacts
      <4>4. SubSeq(s, i, Len(s)) = <<s[i]>> \o SubSeq(s, i + 1, Len(s))
        <5>1. i \in 1 .. Len(s) /\ Len(s) \in i .. Len(s)
          BY <1>0, <4>1
        <5> QED
          BY <1>a, <5>1, SubSeqRecursiveFirst
      <4> QED
        BY <4>3, <4>4
    <3> QED
      BY <3>2, <3>3
  <2> QED
    BY <2>1, <2>2
<1>6. Size \in S
  <2> HIDE DEF S
  <2>1. 0 .. Size \subseteq S
    BY <1>0, <1>4, <1>5, UpTo
  <2> QED
    BY <1>0, <2>1
<1>7. w[Size][s[1]] = SubSeq(s, 1, Len(s))
  BY <1>0, <1>6
<1> QED
  BY <1>a, <1>2, <1>7, SubSeqFull

LEMMA LinkedOfChain ==
    ASSUME NEW table \in Tables, NEW s, isChain(s, table)
    PROVE  linked(table, s[1]) = s
<1>1. 1 \in 1 .. Len(s)
  BY FatAssumption DEF isChain
<1>2. s[1] \in Clusters /\ table[s[1]] # 0
  BY <1>1, ChainFacts
<1>3. s[1] \notin {0, 1}
  BY <1>2 DEF Clusters
<1> QED
  BY <1>2, <1>3, WalkOfChain DEF linked

LEMMA NextFree ==
    ASSUME NEW table \in Tables
    PROVE  \/ freeClusters(table) = {} /\ nextFree(table) = 0
           \/ nextFree(table) \in Clusters /\ table[nextFree(table)] = 0
<1>1. freeClusters(table) \in SUBSET Nat
  BY FatAssumption DEF freeClusters, Clusters
<1>2. CASE freeClusters(table) # {}
  <2>1. nextFree(table) \in freeClusters(table)
    BY <1>1, <1>2, MinIsLeast DEF nextFree
  <2> QED
    BY <2>1 DEF freeClusters
<1> QED
  BY <1>2 DEF nextFree

\* FAT_link_free_cluster (tad_fat.c:99-110): the first free cluster becomes the
\* last of the chain.
LEMMA LinkFreeAppends ==
    ASSUME NEW table \in Tables, NEW s, isChain(s, table), distinct(s), Len(s) < Size,
           nextFree(table) # 0
    PROVE  LET c == nextFree(table)
               new == linkFree(table, s[1])
           IN  /\ c \in Clusters /\ table[c] = 0 /\ \A i \in 1 .. Len(s) : s[i] # c
               /\ new \in Tables
               /\ isChain(Append(s, c), new) /\ distinct(Append(s, c))
               /\ Len(Append(s, c)) = Len(s) + 1 /\ Append(s, c)[1] = s[1]
               /\ \A d \in Entries : d \notin {c, s[Len(s)]} => new[d] = table[d]
<1> DEFINE c == nextFree(table)
           new == linkFree(table, s[1])
           q == Append(s, c)
           n == Len(s)
<1>0. Size \in Nat /\ n \in 1 .. Size /\ s \in Seq(Clusters) /\ n \in Nat
  BY FatAssumption DEF isChain
<1>1. c \in Clusters /\ table[c] = 0
  BY NextFree
<1>2. \A i \in 1 .. n : s[i] # c /\ s[i] \in Clusters /\ s[i] \in Entries
  BY <1>1, ChainFacts
<1>3. c \in Entries /\ EOC \in 0 .. Size + 1 /\ c \in 0 .. Size + 1
  BY <1>0, <1>1 DEF Clusters, Entries, EOC
<1>4. new = [table EXCEPT ![s[n]] = c, ![c] = EOC]
  BY WalkOfChain DEF linkFree, lastOf
<1> HIDE DEF new, c
<1>5. q \in Seq(Clusters) /\ Len(q) = n + 1 /\ q[n + 1] = c
      /\ \A i \in 1 .. n : q[i] = s[i]
  BY <1>0, <1>1, AppendProperties
<1> HIDE DEF q
<1>6. new \in Tables /\ new[c] = EOC /\ new[s[n]] = c
      /\ \A d \in Entries : d \notin {c, s[n]} => new[d] = table[d]
  BY <1>0, <1>2, <1>3, <1>4 DEF Tables
<1>7. ASSUME NEW i \in 1 .. n PROVE new[q[i]] = q[i + 1]
  <2>1. CASE i = n
    BY <1>5, <1>6, <2>1
  <2>2. CASE i # n
    <3>1. i \in 1 .. n - 1 /\ i + 1 \in 1 .. n /\ n \in 1 .. n
      BY <1>0, <2>2
    <3>2. s[i] # s[n]
      BY <2>2, <3>1 DEF distinct
    <3>3. new[s[i]] = table[s[i]]
      BY <1>2, <1>6, <3>2
    <3> QED
      BY <1>5, <3>1, <3>3 DEF isChain
  <2> QED
    BY <2>1, <2>2
<1>8. isChain(q, new)
  BY <1>0, <1>5, <1>6, <1>7 DEF isChain, isEOC
<1>9. distinct(q)
  <2> SUFFICES ASSUME NEW i \in 1 .. n + 1, NEW j \in 1 .. n + 1, q[i] = q[j] PROVE i = j
    BY <1>5 DEF distinct
  <2>1. (i \in 1 .. n \/ i = n + 1) /\ (j \in 1 .. n \/ j = n + 1)
    BY <1>0
  <2> QED
    BY <1>2, <1>5, <2>1 DEF distinct
<1> QED
  BY <1>0, <1>1, <1>2, <1>5, <1>6, <1>8, <1>9 DEF new, c, q

\* FAT_remove_last_linked_cluster (tad_fat.c): the last cluster of the chain is
\* free; the one before it is the last, if there is one.
LEMMA RemoveLastShortens ==
    ASSUME NEW table \in Tables, NEW s, isChain(s, table), distinct(s)
    PROVE  LET new == removeLast(table, s[1])
               q == SubSeq(s, 1, Len(s) - 1)
           IN  /\ new \in Tables /\ new[s[Len(s)]] = 0
               /\ q \in Seq(Clusters) /\ Len(q) = Len(s) - 1 /\ distinct(q)
               /\ \A i \in 1 .. Len(s) - 1 : q[i] = s[i]
               /\ Len(s) = 1 => removed(table, s[1]) = 0
               /\ Len(s) > 1 => isChain(q, new) /\ removed(table, s[1]) # 0
               /\ \A d \in Entries :
                     (\A i \in 1 .. Len(s) : d # s[i]) => new[d] = table[d]
<1> DEFINE new == removeLast(table, s[1])
           n == Len(s)
           q == SubSeq(s, 1, n - 1)
<1>0. Size \in Nat /\ n \in 1 .. Size /\ n \in Nat
  BY FatAssumption DEF isChain
<1>1. \A i \in 1 .. n : s[i] \in Clusters /\ s[i] \in Entries
  BY ChainFacts
<1>2. /\ new = IF n = 1 THEN [table EXCEPT ![s[n]] = 0]
                ELSE [table EXCEPT ![s[n]] = 0, ![s[n - 1]] = EOC]
      /\ removed(table, s[1]) = IF isEOC(table[s[1]]) THEN 0 ELSE s[n]
  BY WalkOfChain DEF removeLast, removed, lastOf
<1> HIDE DEF new
<1>3. q \in Seq(Clusters) /\ Len(q) = n - 1 /\ \A i \in 1 .. n - 1 : q[i] = s[i]
  <2>1. n - 1 \in Int /\ 1 \in Int /\ \A i \in 1 .. n - 1 : s[i] \in Clusters
    BY <1>0, <1>1
  <2>2. /\ q \in Seq(Clusters)
        /\ Len(q) = IF 1 <= n - 1 THEN n - 1 - 1 + 1 ELSE 0
        /\ \A i \in 1 .. n - 1 - 1 + 1 : q[i] = s[1 + i - 1]
    BY <2>1, SubSeqProperties
  <2> HIDE DEF q, n
  <2> QED
    BY <1>0, <2>2
<1> HIDE DEF q
<1>4. distinct(q)
  BY <1>0, <1>3 DEF distinct
<1>5. isEOC(table[s[1]]) <=> n = 1
  <2>1. 1 \in 1 .. n
    BY <1>0
  <2> QED
    BY <2>1, ChainFacts
<1>6. EOC \in 0 .. Size + 1 /\ 0 \in 0 .. Size + 1
  BY <1>0 DEF EOC
<1>7. CASE n = 1
  <2>1. new \in Tables /\ new[s[n]] = 0 /\ \A d \in Entries : d # s[n] => new[d] = table[d]
    BY <1>0, <1>1, <1>2, <1>6, <1>7 DEF Tables
  <2> QED
    BY <1>0, <1>2, <1>3, <1>4, <1>5, <1>7, <2>1 DEF new, q
<1>8. CASE n # 1
  <2>1. n - 1 \in 1 .. n /\ n \in 1 .. n
    <3> HIDE DEF n
    <3> QED
      BY <1>0, <1>8
  <2>2. s[n] # s[n - 1]
    BY <1>0, <2>1 DEF distinct
  <2>3. /\ new \in Tables /\ new[s[n]] = 0 /\ new[s[n - 1]] = EOC
        /\ \A d \in Entries : d # s[n] /\ d # s[n - 1] => new[d] = table[d]
    BY <1>1, <1>2, <1>6, <1>8, <2>1, <2>2 DEF Tables
  <2>4. ASSUME NEW i \in 1 .. n - 2 PROVE new[q[i]] = q[i + 1]
    <3>1. i \in 1 .. n - 1 /\ i + 1 \in 1 .. n - 1 /\ i \in 1 .. n /\ i # n /\ i # n - 1
      BY <1>0
    <3>2. s[i] # s[n] /\ s[i] # s[n - 1]
      BY <2>1, <3>1 DEF distinct
    <3>3. new[s[i]] = table[s[i]]
      BY <1>1, <2>3, <3>1, <3>2
    <3> QED
      BY <1>3, <3>1, <3>3 DEF isChain
  <2>5. isChain(q, new)
    <3>1. Len(q) \in 1 .. Size /\ Len(q) - 1 = n - 2 /\ q[Len(q)] = s[n - 1]
      BY <1>0, <1>3, <1>8
    <3> QED
      BY <1>3, <2>3, <2>4, <3>1 DEF isChain, isEOC
  <2>6. removed(table, s[1]) # 0
    BY <1>1, <1>2, <1>5, <1>8, <2>1 DEF Clusters
  <2> QED
    BY <1>3, <1>4, <1>8, <2>1, <2>3, <2>5, <2>6 DEF new, q
<1> QED
  BY <1>7, <1>8
=============================================================================
