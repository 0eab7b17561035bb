------------------------- MODULE FileSystem_proofs --------------------------
(***************************************************************************)
(* Proofs about the directory tree, whatever the operations of however     *)
(* many threads and wherever the process dies, in three parts.             *)
(*   Marks: FAT_write_table writes all that changed.                       *)
(*   Types: no chain is followed and no entry stored beyond the table.     *)
(*   The tree: in every state, while operations are half done as well,     *)
(*   some view of the tree is sound (TreeInv), so that between operations  *)
(*   every chain belongs to one entry, has the length its size says, and   *)
(*   no cluster is lost; that an operation leaves the other entries as     *)
(*   they were; and that the device lacks nothing but what mkdir took.     *)
(***************************************************************************)
EXTENDS FileSystem, Fat_proofs

IsTable(f) == f = [c \in Entries |-> f[c]]

\* The strengthening: both tables are functions on the entries.
MarkInv == IsTable(table) /\ IsTable(diskTable) /\ MarksComplete

\* What a step of the table does to it: it assigns entries and marks theirs.
\* The cluster an operation was given is one of its arguments.
assigns(cs) ==
    /\ IsTable(table')
    /\ \A c \in Entries \ cs : table'[c] = table[c]
    /\ modified' = modified \cup touched(cs)

LEMMA AssignsKeepsMarks ==
    ASSUME MarkInv, NEW cs, assigns(cs), UNCHANGED diskTable
    PROVE  MarkInv'
<1>1. ASSUME NEW c \in Entries, table'[c] # diskTable[c]
      PROVE  sectorOf(c) \in modified'
  <2>1. CASE c \in cs
    BY <2>1 DEF assigns, touched
  <2>2. CASE c \notin cs
    BY <1>1, <2>2 DEF MarkInv, MarksComplete, assigns
  <2> QED
    BY <2>1, <2>2
<1> QED
  BY <1>1 DEF MarkInv, MarksComplete, assigns, IsTable

LEMMA InitInv == Init => MarkInv
  BY DEF Init, MarkInv, MarksComplete, IsTable

\* What leaves the tables alone.
LEMMA Frame ==
    ASSUME MarkInv, UNCHANGED <<table, modified, diskTable>>
    PROVE  MarkInv'
  BY DEF MarkInv, MarksComplete, IsTable

LEMMA LinkStep == ASSUME MarkInv, NEW t \in Threads, MkLink(t) PROVE MarkInv'
<1> DEFINE last == lastOf(walk(table, folder(parent(op[t].path))))
           c == nextFree(table)
<1> HIDE DEF last, c
<1>1. /\ table' = [table EXCEPT ![last] = c, ![c] = EOC]
      /\ modified' = modified \cup touched({last, c})
      /\ UNCHANGED diskTable
  BY DEF MkLink, linkFree, last, c
<1>2. assigns({last, c})
  BY <1>1 DEF assigns, MarkInv, IsTable
<1> QED
  BY <1>1, <1>2, AssignsKeepsMarks

LEMMA ExtendStep == ASSUME MarkInv, NEW t \in Threads, Extend(t) PROVE MarkInv'
<1> DEFINE last == lastOf(walk(table, reg[t].image.put.first))
           c == nextFree(table)
<1> HIDE DEF last, c
<1>1. /\ table' = [table EXCEPT ![last] = c, ![c] = EOC]
      /\ modified' = modified \cup touched({last, c})
      /\ UNCHANGED diskTable
  BY DEF Extend, linkFree, last, c
<1>2. assigns({last, c})
  BY <1>1 DEF assigns, MarkInv, IsTable
<1> QED
  BY <1>1, <1>2, AssignsKeepsMarks

LEMMA UseStep == ASSUME MarkInv, NEW t \in Threads, UseFree(t) PROVE MarkInv'
<1>1. assigns({reg[t].free})
  BY DEF UseFree, setUsed, assigns, MarkInv, IsTable
<1> QED
  BY <1>1, AssignsKeepsMarks DEF UseFree

LEMMA FreeStep == ASSUME MarkInv, NEW t \in Threads, FreeOne(t) PROVE MarkInv'
<1>1. assigns({Head(reg[t].clusters)})
  BY DEF FreeOne, setFree, assigns, MarkInv, IsTable
<1> QED
  BY <1>1, AssignsKeepsMarks DEF FreeOne

\* The last cluster of a chain is taken off: its entry and the one before it.
LEMMA ShrinkStep == ASSUME MarkInv, NEW t \in Threads, Shrink(t) PROVE MarkInv'
<1> DEFINE chain == walk(table, reg[t].image.put.first)
           before == chain[IF Len(chain) = 1 THEN 1 ELSE Len(chain) - 1]
           last == lastOf(chain)
<1> HIDE DEF chain, last
<1>1. /\ table' = IF Len(chain) = 1 THEN [table EXCEPT ![last] = 0]
                  ELSE [table EXCEPT ![last] = 0, ![chain[Len(chain) - 1]] = EOC]
      /\ modified' = modified \cup touched({last, before})
      /\ UNCHANGED diskTable
  BY DEF Shrink, removeLast, chain, last
<1>2. assigns({last, before})
  <2>1. CASE Len(chain) = 1
    BY <1>1, <2>1 DEF assigns, MarkInv, IsTable
  <2>2. CASE Len(chain) # 1
    BY <1>1, <2>2 DEF assigns, MarkInv, IsTable
  <2> QED
    BY <2>1, <2>2
<1> QED
  BY <1>1, <1>2, AssignsKeepsMarks

\* Saving copies every marked sector and unmarks it.
LEMMA SaveStep == ASSUME MarkInv, NEW t \in Threads, Save(t) PROVE MarkInv'
<1>1. diskTable' = [c \in Entries |-> IF sectorOf(c) \in modified THEN table[c]
                                      ELSE diskTable[c]]
  BY DEF Save, written
<1>2. UNCHANGED table
  BY DEF Save
<1>3. \A c \in Entries : table'[c] = diskTable'[c]
  BY <1>1, <1>2 DEF MarkInv, MarksComplete
<1>4. IsTable(table)' /\ IsTable(diskTable)'
  BY <1>1, <1>2 DEF MarkInv, IsTable
<1> QED
  BY <1>3, <1>4 DEF MarkInv, MarksComplete

\* A death forgets the table in memory; the next start reads the device's.
LEMMA StopStep == ASSUME MarkInv, Stop PROVE MarkInv'
  BY DEF Stop, MarkInv, MarksComplete, IsTable

LEMMA NextInv == MarkInv /\ [Next]_vars => MarkInv'
<1> SUFFICES ASSUME MarkInv, [Next]_vars
             PROVE  MarkInv'
  OBVIOUS
<1>1. ASSUME NEW t \in Threads,
             Begin(t) \/ MkSearch(t) \/ FindFree(t) \/ MkDots(t) \/ TruncateStart(t)
             \/ Clear(t) \/ ClearTail(t) \/ Reread(t) \/ RemoveStart(t)
             \/ RenameNothing(t) \/ RenameStart(t) \/ PlaceTarget(t) \/ Place(t)
      PROVE  MarkInv'
  BY <1>1, Frame DEF Begin, MkSearch, FindFree, MkDots, TruncateStart, Clear,
     ClearTail, Reread, RemoveStart, RenameNothing, RenameStart, PlaceTarget,
     Place, fatVars
<1>2. ASSUME NEW t \in Threads, MkLink(t) \/ UseFree(t) \/ Shrink(t) \/ Extend(t)
                                \/ FreeOne(t) \/ Save(t)
      PROVE  MarkInv'
  BY <1>2, LinkStep, UseStep, ShrinkStep, ExtendStep, FreeStep, SaveStep
<1>3. ASSUME NEW t \in Threads, Die(t)
      PROVE  MarkInv'
  BY <1>3, StopStep DEF Die
<1>4. CASE Crash
  BY <1>4, StopStep DEF Crash
<1>5. CASE Mount
  BY <1>5, Frame DEF Mount, fatVars
<1>6. CASE UNCHANGED vars
  BY <1>6, Frame DEF vars, fatVars
<1> QED
  BY <1>1, <1>2, <1>3, <1>4, <1>5, <1>6 DEF Next

\* FAT_write_table (tad_fat.c) leaves out no entry that an operation assigned,
\* however many threads share the table and whenever the process dies.
THEOREM NothingUnmarked == Spec => []MarksComplete
<1>1. MarkInv => MarksComplete
  BY DEF MarkInv
<1> QED
  BY InitInv, NextInv, <1>1, PTL DEF Spec

-----------------------------------------------------------------------------
(* What the operations of the table give, whatever is in it.                *)

\* Cluster numbers but for 1, which no cluster has.
Links == Entries \ {1}

Proper(tab) == tab \in Tables /\ \A c \in Entries : tab[c] # 1

LEMMA LinkFacts ==
    /\ Size \in Nat /\ Size > 2
    /\ 0 \in Links /\ 2 \in Links /\ Clusters \subseteq Links /\ Links \subseteq Entries
    /\ Clusters = Links \ {0} /\ Clusters \cup {0} = Links
  BY FatAssumption DEF Links, Entries, Clusters

LEMMA NextIsLink ==
    ASSUME NEW tab, Proper(tab), NEW d \in Links, ~ isEOC(tab[d])
    PROVE  tab[d] \in Links
  BY NextIsEntry DEF Proper, Links

\* A walk from a link meets links only.
LEMMA WalkType ==
    ASSUME NEW tab, Proper(tab), NEW c \in Links
    PROVE  /\ walk(tab, c) \in Seq(Links) /\ Len(walk(tab, c)) \in Nat \ {0}
           /\ \A i \in 1 .. Len(walk(tab, c)) : walk(tab, c)[i] \in Links
           /\ lastOf(walk(tab, c)) \in Links
<1>0. tab \in Tables /\ c \in Entries /\ Size \in Nat /\ 0 \in 0 .. Size /\ Size \in 0 .. Size
  BY FatAssumption DEF Proper, Links
<1>1. PICK w : isWalk(w, tab) /\ walk(tab, c) = w[Size][c]
  BY <1>0, WalkIsWalk
<1> DEFINE good(s) == s \in Seq(Links) /\ Len(s) # 0
           S == {n \in 0 .. Size : \A d \in Links : good(w[n][d])}
<1>2. \A d \in Links : <<d>> \in Seq(Links) /\ Len(<<d>>) = 1
  OBVIOUS
<1>3. 0 \in S
  <2>1. \A d \in Links : w[0][d] = <<d>>
    BY <1>1 DEF isWalk, Links
  <2>2. ASSUME NEW d \in Links PROVE good(w[0][d])
    <3>1. w[0][d] = <<d>>
      BY <2>1
    <3>2. good(<<d>>)
      BY <1>2
    <3> QED
      BY <3>1, <3>2
  <2> QED
    BY <1>0, <2>2
<1>4. ASSUME NEW n \in 0 .. Size - 1, n \in S PROVE n + 1 \in S
  <2>1. n + 1 \in 1 .. Size /\ (n + 1) - 1 = n /\ n + 1 \in 0 .. Size
    BY <1>0
  <2>2. ASSUME NEW d \in Links PROVE good(w[n + 1][d])
    <3>1. w[n + 1][d] = IF isEOC(tab[d]) THEN <<d>> ELSE <<d>> \o w[n][tab[d]]
      BY <1>1, <2>1 DEF isWalk, Links
    <3>2. CASE isEOC(tab[d])
      BY <1>2, <3>1, <3>2
    <3>3. CASE ~ isEOC(tab[d])
      <4>1. good(w[n][tab[d]])
        BY <1>4, <3>3, NextIsLink
      <4>2. good(<<d>> \o w[n][tab[d]])
        <5> DEFINE s == w[n][tab[d]]
        <5> HIDE DEF s
        <5>1. /\ <<d>> \o s \in Seq(Links) /\ Len(<<d>> \o s) = Len(<<d>>) + Len(s)
              /\ Len(s) \in Nat
          BY <1>2, <4>1, ConcatProperties DEF s
        <5> QED
          BY <1>2, <5>1 DEF s
      <4> QED
        BY <3>1, <3>3, <4>2
    <3> QED
      BY <3>2, <3>3
  <2> QED
    BY <2>1, <2>2
<1> HIDE DEF S, good
<1>5. good(walk(tab, c))
  <2>1. 0 .. Size \subseteq S
    BY <1>0, <1>3, <1>4, UpTo
  <2> QED
    BY <1>0, <1>1, <2>1 DEF S
<1> DEFINE s == walk(tab, c)
<1> HIDE DEF s
<1>6. s \in Seq(Links) /\ Len(s) # 0
  BY <1>5 DEF s, good
<1> QED
  BY <1>6 DEF lastOf, s

LEMMA LinkedType ==
    ASSUME NEW tab, Proper(tab), NEW c \in Links
    PROVE  /\ linked(tab, c) \in Seq(Links)
           /\ \A i \in DOMAIN linked(tab, c) : linked(tab, c)[i] \in Links
           /\ DOMAIN linked(tab, c) \subseteq Nat
  BY WalkType DEF linked

LEMMA NextFreeType ==
    ASSUME NEW tab, Proper(tab)
    PROVE  /\ nextFree(tab) \in Links
           /\ freeClusters(tab) # {} =>
                 nextFree(tab) \in Clusters /\ tab[nextFree(tab)] = 0
<1>1. tab \in Tables
  BY DEF Proper
<1>2. \/ freeClusters(tab) = {} /\ nextFree(tab) = 0
      \/ nextFree(tab) \in Clusters /\ tab[nextFree(tab)] = 0
  BY <1>1, NextFree
<1> QED
  BY <1>2, LinkFacts

\* An entry that gets a link or an end mark.
LEMMA PutEntry ==
    ASSUME NEW tab, Proper(tab), NEW c, NEW v, v \in Links \cup {EOC}
    PROVE  Proper([tab EXCEPT ![c] = v])
<1> DEFINE new == [tab EXCEPT ![c] = v]
<1>1. tab = [d \in Entries |-> tab[d]] /\ \A d \in Entries : tab[d] \in 0 .. Size + 1 /\ tab[d] # 1
  BY DEF Proper, Tables
<1>2. v \in 0 .. Size + 1 /\ v # 1
  BY FatAssumption DEF Links, Entries, EOC
<1>3. new = [d \in Entries |-> new[d]] /\ \A d \in Entries : new[d] \in {tab[d], v}
  BY <1>1
<1> HIDE DEF new
<1>4. \A d \in Entries : new[d] \in 0 .. Size + 1 /\ new[d] # 1
  BY <1>1, <1>2, <1>3
<1>5. new \in Tables
  BY <1>3, <1>4 DEF Tables
<1> QED
  BY <1>4, <1>5 DEF Proper, new

LEMMA SetFreeType ==
    ASSUME NEW tab, Proper(tab), NEW c
    PROVE  Proper(setFree(tab, c)) /\ Proper(setUsed(tab, c))
  BY PutEntry, LinkFacts DEF setFree, setUsed

LEMMA LinkFreeType ==
    ASSUME NEW tab, Proper(tab), NEW c \in Links
    PROVE  Proper(linkFree(tab, c))
<1> DEFINE last == lastOf(walk(tab, c))
           one == [tab EXCEPT ![last] = nextFree(tab)]
<1>1. Proper(one)
  BY PutEntry, NextFreeType
<1>2. linkFree(tab, c) = [one EXCEPT ![nextFree(tab)] = EOC]
  BY DEF linkFree
<1> HIDE DEF one
<1>3. Proper([one EXCEPT ![nextFree(tab)] = EOC])
  BY <1>1, PutEntry
<1> QED
  BY <1>2, <1>3

LEMMA RemoveLastType ==
    ASSUME NEW tab, Proper(tab), NEW c \in Links
    PROVE  Proper(removeLast(tab, c))
<1> DEFINE s == walk(tab, c)
           one == [tab EXCEPT ![lastOf(s)] = 0]
<1>1. Proper(one)
  BY PutEntry, LinkFacts
<1>2. Proper([one EXCEPT ![s[Len(s) - 1]] = EOC])
  <2> HIDE DEF one, s
  <2> QED
    BY <1>1, PutEntry
<1> QED
  BY <1>1, <1>2 DEF removeLast

-----------------------------------------------------------------------------
(* Reading directories.                                                     *)

Disks == [Clusters \cup {0} -> Contents]

\* What a search in a directory gives.
Found == [cluster : Links, slot : 0 .. SlotCount, entry : Slots]

LEMMA SlotFacts ==
    /\ SlotCount \in Nat \ {0}
    /\ End \in Slots /\ Deleted \in Slots /\ Dots \in Slots
    /\ Zeros \in Contents /\ NotFound \in Found /\ Root \in Found
    /\ \A i \in 1 .. SlotCount : Zeros[i] = End
<1>1. SlotCount \in Nat \ {0} /\ 0 \in Links /\ 2 \in Links /\ 0 \in 0 .. SlotCount
  BY FileSystemAssumption, LinkFacts
<1>2. End \in Slots /\ Deleted \in Slots /\ Dots \in Slots /\ slot("dir", NoName, 2, 0) \in Slots
  BY <1>1 DEF End, Deleted, Dots, slot, Slots, Links
<1> HIDE DEF End, Slots
<1>3. Zeros \in Contents /\ \A i \in 1 .. SlotCount : Zeros[i] = End
  BY <1>2 DEF Zeros, Contents
<1>4. NotFound \in Found /\ Root \in Found
  BY <1>1, <1>2 DEF NotFound, Root, Found
<1> QED
  BY <1>1, <1>2, <1>3, <1>4

\* A visible slot of a directory with the name, at a position of its chain.
named(content, chain, name, k, i) ==
    /\ k \in DOMAIN chain /\ i \in 1 .. SlotCount
    /\ content[chain[k]][i].name = name /\ i \in interpret(content[chain[k]])

\* The search gives the first such slot.
isFirst(hit, content, chain, name) ==
    \/ hit = NotFound /\ \A k, i : ~ named(content, chain, name, k, i)
    \/ \E k, i : /\ named(content, chain, name, k, i)
                 /\ hit = [cluster |-> chain[k], slot |-> i, entry |-> content[chain[k]][i]]
                 /\ \A l, j : named(content, chain, name, l, j) =>
                        k * SlotCount + i <= l * SlotCount + j

LEMMA FirstNamed ==
    ASSUME NEW tab, NEW content, NEW first, NEW name, Proper(tab), first \in Links
    PROVE  isFirst(entryIn(tab, content, first, name), content, linked(tab, first), name)
<1> DEFINE chain == linked(tab, first)
           is(k, i) == named(content, chain, name, k, i)
           all == {p \in (DOMAIN chain) \X (1 .. SlotCount) :
                      /\ content[chain[p[1]]][p[2]].name = name
                      /\ p[2] \in interpret(content[chain[p[1]]])}
           key(p) == p[1] * SlotCount + p[2]
           least(p) == \A q \in all : key(p) <= key(q)
           p == CHOOSE p \in all : least(p)
           keys == {key(q) : q \in all}
<1>1. DOMAIN chain \subseteq Nat /\ SlotCount \in Nat
  BY LinkedType, SlotFacts
<1>2. entryIn(tab, content, first, name) =
          IF all = {} THEN NotFound
          ELSE [cluster |-> chain[p[1]], slot |-> p[2], entry |-> content[chain[p[1]]][p[2]]]
  BY DEF entryIn
<1>3. \A k, i : is(k, i) <=> <<k, i>> \in all
  BY DEF named
<1>4. CASE all = {}
  <2> HIDE DEF all, p
  <2>1. entryIn(tab, content, first, name) = NotFound
    BY <1>2, <1>4
  <2>2. \A k, i : ~ is(k, i)
    BY <1>3, <1>4
  <2> QED
    BY <2>1, <2>2 DEF isFirst
<1>5. CASE all # {}
  <2>1. \A q \in all : q = <<q[1], q[2]>> /\ key(q) \in Nat
    <3>1. \A q \in all : q \in Nat \X Nat
      BY <1>1
    <3>2. \A q \in Nat \X Nat : q = <<q[1], q[2]>> /\ q[1] \in Nat /\ q[2] \in Nat
      OBVIOUS
    <3>3. \A a, b \in Nat : a * SlotCount + b \in Nat
      BY <1>1
    <3> HIDE DEF all
    <3> QED
      BY <3>1, <3>2, <3>3
  <2> HIDE DEF all, key
  <2>2. keys \in SUBSET Nat /\ keys # {}
    BY <1>5, <2>1
  <2>3. Min(keys) \in keys /\ \A y \in keys : Min(keys) <= y
    <3> HIDE DEF keys
    <3> QED
      BY <2>2, MinIsLeast
  <2>4. \E q \in all : least(q)
    BY <2>3
  <2> HIDE DEF least
  <2>5. p \in all /\ least(p)
    BY <2>4
  <2> HIDE DEF p
  <2>6. is(p[1], p[2])
    BY <1>3, <2>1, <2>5
  <2>7. \A l, j : is(l, j) => key(p) <= key(<<l, j>>)
    BY <1>3, <2>5 DEF least
  <2> QED
    BY <1>2, <1>5, <2>6, <2>7 DEF isFirst, key
<1> QED
  BY <1>4, <1>5

LEMMA EntryInType ==
    ASSUME NEW tab, NEW content \in Disks, NEW first \in Links, NEW name, Proper(tab)
    PROVE  entryIn(tab, content, first, name) \in Found
<1> DEFINE chain == linked(tab, first)
           hit == entryIn(tab, content, first, name)
<1>1. isFirst(hit, content, chain, name)
  BY FirstNamed
<1>2. \A i \in DOMAIN chain : chain[i] \in Links
  BY LinkedType
<1> HIDE DEF hit, chain
<1>3. CASE hit = NotFound
  BY <1>3, SlotFacts DEF hit
<1>4. ASSUME NEW k, NEW i, named(content, chain, name, k, i),
             hit = [cluster |-> chain[k], slot |-> i, entry |-> content[chain[k]][i]]
      PROVE  hit \in Found
  <2>1. chain[k] \in Links /\ i \in 1 .. SlotCount
    BY <1>2, <1>4 DEF named
  <2>2. content[chain[k]] \in Contents
    BY <2>1, LinkFacts DEF Disks
  <2>3. content[chain[k]][i] \in Slots
    BY <2>1, <2>2 DEF Contents
  <2>4. i \in 0 .. SlotCount
    BY <2>1, SlotFacts
  <2> QED
    BY <1>4, <2>1, <2>3, <2>4 DEF Found
<1> QED
  BY <1>1, <1>3, <1>4 DEF isFirst, hit

-----------------------------------------------------------------------------
(* Paths.                                                                   *)

\* One name further.
look(tab, content, hit, name) ==
    IF hit.entry.kind # "dir" THEN NotFound
    ELSE entryIn(tab, content, hit.entry.first, name)

LEMMA LookType ==
    ASSUME NEW tab, NEW content \in Disks, NEW hit \in Found, NEW name, Proper(tab)
    PROVE  look(tab, content, hit, name) \in Found
<1>1. hit.entry.first \in Links
  <2>1. hit.entry \in Slots
    BY DEF Found
  <2> QED
    BY <2>1 DEF Slots, Links
<1> QED
  BY <1>1, EntryInType, SlotFacts DEF look

\* What is found along a path, name by name.
isPath(f, tab, content, path) ==
    /\ f \in [0 .. Len(path) -> Found]
    /\ f[0] = Root
    /\ \A n \in 1 .. Len(path) : f[n] = look(tab, content, f[n - 1], path[n])

LEMMA PathsExist ==
    ASSUME NEW tab, NEW content \in Disks, NEW path \in Seq(Names), Proper(tab)
    PROVE  \E f : isPath(f, tab, content, path)
<1> DEFINE T == [n : Nat, hit : Found]
           turn(x) == [n |-> x.n + 1, hit |-> look(tab, content, x.hit, path[x.n + 1])]
           step == [x \in T |-> turn(x)]
           a == [n |-> 0, hit |-> Root]
           m == Len(path)
<1>0. m \in Nat
  OBVIOUS
<1>1. a \in T
  BY SlotFacts
<1>2. step \in [T -> T]
  <2>1. ASSUME NEW x \in T PROVE turn(x) \in T
    <3>1. x.n + 1 \in Nat /\ look(tab, content, x.hit, path[x.n + 1]) \in Found
      BY LookType
    <3> QED
      BY <3>1
  <2> HIDE DEF turn, T
  <2> QED
    BY <2>1
<1> HIDE DEF T, step, a, m
<1>3. PICK g : g \in [0 .. m -> T] /\ iterates(g, a, step, m)
  BY <1>0, <1>1, <1>2, Iterated
<1>4. \A n \in 1 .. m : n - 1 \in 0 .. m /\ g[n - 1] \in T /\ g[n] = turn(g[n - 1])
  <2> HIDE DEF turn
  <2>1. ASSUME NEW n \in 1 .. m
        PROVE  n - 1 \in 0 .. m /\ g[n - 1] \in T /\ g[n] = turn(g[n - 1])
    <3>1. n - 1 \in 0 .. m
      BY <1>0
    <3>2. g[n - 1] \in T /\ g[n] = step[g[n - 1]]
      BY <1>3, <3>1 DEF iterates
    <3> QED
      BY <3>1, <3>2 DEF step
  <2> QED
    BY <2>1
<1>5. \A n \in 0 .. m : g[n].n = n
  <2> DEFINE S == {n \in 0 .. m : g[n].n = n}
  <2>1. 0 \in S
    BY <1>0, <1>3 DEF a, iterates
  <2>2. ASSUME NEW n \in 0 .. m - 1, n \in S PROVE n + 1 \in S
    <3>1. n + 1 \in 1 .. m /\ n + 1 \in 0 .. m /\ (n + 1) - 1 = n
      BY <1>0
    <3>2. g[n + 1] = turn(g[n])
      BY <1>4, <3>1
    <3> QED
      BY <2>2, <3>1, <3>2
  <2> HIDE DEF S
  <2>3. 0 .. m \subseteq S
    BY <1>0, <2>1, <2>2, UpTo
  <2> QED
    BY <2>3 DEF S
<1> DEFINE f == [n \in 0 .. m |-> g[n].hit]
<1>6. f \in [0 .. m -> Found]
  <2>1. \A n \in 0 .. m : g[n].hit \in Found
    BY <1>3 DEF T
  <2> QED
    BY <2>1
<1>7. f[0] = Root
  BY <1>0, <1>3 DEF a, iterates
<1>8. ASSUME NEW n \in 1 .. m PROVE f[n] = look(tab, content, f[n - 1], path[n])
  <2>1. n - 1 \in 0 .. m /\ n \in 0 .. m /\ (n - 1) + 1 = n
    BY <1>0
  <2>2. g[n] = turn(g[n - 1]) /\ g[n - 1].n = n - 1
    BY <1>4, <1>5, <2>1
  <2> QED
    BY <2>1, <2>2
<1> HIDE DEF f
<1> QED
  BY <1>6, <1>7, <1>8 DEF isPath, m

LEMMA EntryAtIsPath ==
    ASSUME NEW tab, NEW content \in Disks, NEW path \in Seq(Names), Proper(tab)
    PROVE  \E f : isPath(f, tab, content, path) /\ entryAt(tab, content, path) = f[Len(path)]
<1> DEFINE m == Len(path)
           body(g) == [n \in 0 .. m |->
                          IF n = 0 THEN Root
                          ELSE IF g[n - 1].entry.kind # "dir" THEN NotFound
                          ELSE entryIn(tab, content, g[n - 1].entry.first, path[n])]
           found == CHOOSE g : g = body(g)
<1>0. m \in Nat /\ 0 \in 0 .. m /\ m \in 0 .. m
  OBVIOUS
<1>1. PICK f : isPath(f, tab, content, path)
  BY PathsExist
<1>2. f = body(f)
  <2> DEFINE line(n) == IF n = 0 THEN Root
                        ELSE IF f[n - 1].entry.kind # "dir" THEN NotFound
                        ELSE entryIn(tab, content, f[n - 1].entry.first, path[n])
  <2>1. ASSUME NEW n \in 0 .. m PROVE f[n] = line(n)
    <3>1. n = 0 \/ n \in 1 .. m
      BY <1>0
    <3> QED
      BY <1>1, <3>1 DEF isPath, look
  <2>2. f = [n \in 0 .. m |-> f[n]]
    BY <1>1 DEF isPath
  <2> HIDE DEF line
  <2>3. f = [n \in 0 .. m |-> line(n)]
    BY <2>1, <2>2
  <2> QED
    BY <2>3 DEF line
<1>3. found = body(found)
  <2> HIDE DEF body
  <2> QED
    BY <1>2
<1>4. entryAt(tab, content, path) = found[m]
  BY DEF entryAt
<1> HIDE DEF found, m
<1>5. \A n \in 0 .. m : found[n] = IF n = 0 THEN Root ELSE look(tab, content, found[n - 1], path[n])
  BY <1>3 DEF look
<1>6. 0 .. m \subseteq {n \in 0 .. m : found[n] = f[n]}
  <2> DEFINE S == {n \in 0 .. m : found[n] = f[n]}
  <2>1. 0 \in S
    BY <1>0, <1>1, <1>5 DEF isPath
  <2>2. ASSUME NEW n \in 0 .. m - 1, n \in S PROVE n + 1 \in S
    <3>1. n + 1 \in 1 .. m /\ n + 1 \in 0 .. m /\ (n + 1) - 1 = n /\ n + 1 # 0
      BY <1>0
    <3>2. found[n + 1] = look(tab, content, found[n], path[n + 1])
      BY <1>5, <3>1
    <3>3. f[n + 1] = look(tab, content, f[n], path[n + 1])
      BY <1>1, <3>1 DEF isPath, m
    <3>4. found[n] = f[n]
      BY <2>2
    <3> QED
      BY <3>1, <3>2, <3>3, <3>4
  <2> HIDE DEF S
  <2> QED
    BY <1>0, <2>1, <2>2, UpTo DEF S
<1>7. found[m] = f[m]
  BY <1>0, <1>6
<1> QED
  BY <1>1, <1>4, <1>7 DEF m

LEMMA EntryAtType ==
    ASSUME NEW tab, NEW content \in Disks, NEW path \in Seq(Names), Proper(tab)
    PROVE  entryAt(tab, content, path) \in Found
<1>1. PICK f : isPath(f, tab, content, path) /\ entryAt(tab, content, path) = f[Len(path)]
  BY EntryAtIsPath
<1>2. Len(path) \in 0 .. Len(path)
  OBVIOUS
<1> QED
  BY <1>1, <1>2 DEF isPath

-----------------------------------------------------------------------------
(* Types.                                                                   *)

\* Which operations pass through which place.
fits(place, o) ==
    /\ place = "idle" <=> o = None
    /\ place = "link" => o.kind \in {"create", "mkdir"}
    /\ place \in {"find", "use"} => o.kind \in {"mkdir", "truncate"}
    /\ place = "dots" => o.kind = "mkdir"
    /\ place \in {"shrink", "clear", "extend", "tail", "reread"} => o.kind = "truncate"
    /\ place = "free" => o.kind \in {"unlink", "rmdir"}
    /\ place = "save" => o.kind # "rename"
    /\ place = "target" => o.kind = "rename" /\ ~ sameFolder(o)

\* A loop over clusters has one left to do.
loops(place, o, r) ==
    /\ place \in {"shrink", "clear", "extend"} => r.count # 0
    /\ place \in {"find", "use"} /\ o.kind = "truncate" => r.count # 0
    /\ place = "free" => r.clusters # <<>>

TypeInv ==
    /\ TypeOK /\ Proper(table) /\ Proper(diskTable)
    /\ \A t \in Threads : fits(pc[t], op[t]) /\ loops(pc[t], op[t], reg[t])

LEMMA ThreadStep ==
    ASSUME TypeInv, NEW t \in Threads, NEW place, NEW r \in Regs,
           pc' = [pc EXCEPT ![t] = place], reg' = [reg EXCEPT ![t] = r],
           op' = IF place = "idle" THEN [op EXCEPT ![t] = None] ELSE op,
           place \in Places \ {"start"}, pc[t] # "idle",
           place # "idle" => fits(place, op[t]) /\ loops(place, op[t], r),
           Proper(table'), Proper(diskTable'), modified' \subseteq Sectors,
           disk' \in Disks, phase' = phase, damage' \subseteq Causes
    PROVE  TypeInv'
<1>1. pc' \in [Threads -> Places] /\ reg' \in [Threads -> Regs]
  BY DEF TypeInv, TypeOK
<1>2. op' \in [Threads -> Operations \cup {None}]
  BY DEF TypeInv, TypeOK
<1>3. \A u \in Threads : fits(pc[u], op[u]) /\ loops(pc[u], op[u], reg[u])
  BY DEF TypeInv
<1>4. /\ op[t] # None /\ pc'[t] = place /\ reg'[t] = r
      /\ op'[t] = IF place = "idle" THEN None ELSE op[t]
      /\ \A u \in Threads : u # t => pc'[u] = pc[u] /\ op'[u] = op[u] /\ reg'[u] = reg[u]
  BY <1>3 DEF TypeInv, TypeOK, fits
<1>5. ASSUME NEW u \in Threads PROVE fits(pc'[u], op'[u]) /\ loops(pc'[u], op'[u], reg'[u])
  <2>1. CASE u # t
    BY <1>3, <1>4, <2>1
  <2>2. CASE u = t /\ place # "idle"
    BY <1>4, <2>2
  <2>3. CASE u = t /\ place = "idle"
    BY <1>4, <2>3 DEF fits, loops
  <2> QED
    BY <2>1, <2>2, <2>3
<1>6. (\A u \in Threads : fits(pc[u], op[u]) /\ loops(pc[u], op[u], reg[u]))'
  BY <1>5 DEF fits, loops
<1>7. TypeOK'
  BY <1>1, <1>2 DEF TypeInv, TypeOK, Proper, Disks
<1> QED
  BY <1>6, <1>7 DEF TypeInv

LEMMA ImageType ==
    ASSUME disk \in Disks, NEW c \in Links, NEW i \in 0 .. SlotCount, NEW put \in Slots
    PROVE  image(c, i, put) \in Images
<1>1. (IF c = 0 THEN Zeros ELSE disk[c]) \in Contents
  BY SlotFacts, LinkFacts DEF Disks
<1> QED
  BY <1>1 DEF image, Images, Links

LEMMA NoRegType ==
    ASSUME disk \in Disks
    PROVE  NoReg \in Regs
<1>1. 0 \in Links /\ 0 \in 0 .. SlotCount /\ End \in Slots /\ <<>> \in Seq(Links) /\ 0 \in Nat
  BY SlotFacts, LinkFacts
<1>2. image(0, 0, End) \in Images
  BY <1>1, ImageType
<1> HIDE DEF Images
<1> QED
  BY <1>1, <1>2 DEF NoReg, Regs, Links

\* The parts of the registers and of an image.
LEMMA RegParts ==
    ASSUME NEW r \in Regs
    PROVE  /\ r.image \in Images /\ r.target \in Images /\ r.free \in Links
           /\ r.clusters \in Seq(Links) /\ r.count \in Nat
           /\ r = [image |-> r.image, target |-> r.target, free |-> r.free,
                   clusters |-> r.clusters, count |-> r.count]
  BY DEF Regs, Links

LEMMA ImageParts ==
    ASSUME NEW i \in Images
    PROVE  /\ i.cluster \in Links /\ i.slot \in 0 .. SlotCount /\ i.put \in Slots
           /\ i.seen \in Contents
           /\ i = [cluster |-> i.cluster, slot |-> i.slot, put |-> i.put, seen |-> i.seen]
  BY DEF Images, Links

LEMMA SlotParts ==
    ASSUME NEW s \in Slots
    PROVE  /\ s.first \in Links /\ s.size \in Nat /\ s.name \in Names \cup {NoName}
           /\ s.kind \in {"end", "deleted", "dots", "file", "dir"}
           /\ s = [kind |-> s.kind, name |-> s.name, first |-> s.first, size |-> s.size]
  BY DEF Slots, Links

LEMMA MakeReg ==
    ASSUME NEW i \in Images, NEW j \in Images, NEW f \in Links, NEW s \in Seq(Links), NEW n \in Nat
    PROVE  [image |-> i, target |-> j, free |-> f, clusters |-> s, count |-> n] \in Regs
  BY DEF Regs, Links

LEMMA MakeImage ==
    ASSUME NEW c \in Links, NEW i \in 0 .. SlotCount, NEW put \in Slots, NEW seen \in Contents
    PROVE  [cluster |-> c, slot |-> i, put |-> put, seen |-> seen] \in Images
  BY DEF Images, Links

\* Registers with one part changed.
LEMMA RegUpdates ==
    ASSUME NEW r \in Regs
    PROVE  /\ \A i \in Images : [r EXCEPT !.image = i] \in Regs /\ [r EXCEPT !.target = i] \in Regs
           /\ \A f \in Links : [r EXCEPT !.free = f] \in Regs
           /\ \A s \in Seq(Links) : [r EXCEPT !.clusters = s] \in Regs
           /\ \A n \in Nat : [r EXCEPT !.count = n] \in Regs
<1> HIDE DEF Images
<1> QED
  BY RegParts, MakeReg

LEMMA ImageUpdates ==
    ASSUME NEW i \in Images
    PROVE  /\ \A s \in Slots : [i EXCEPT !.put = s] \in Images
           /\ \A s \in Contents : [i EXCEPT !.seen = s] \in Images
<1> HIDE DEF Slots, Contents
<1> QED
  BY ImageParts, MakeImage

LEMMA ParentType ==
    ASSUME NEW path \in Seq(Names), path # <<>>
    PROVE  /\ parent(path) \in Seq(Names) /\ Len(parent(path)) = Len(path) - 1
           /\ Len(path) \in Nat \ {0} /\ path[Len(path)] \in Names
           /\ \A i \in 1 .. Len(path) - 1 : parent(path)[i] = path[i]
<1> DEFINE n == Len(path)
<1>1. n \in Nat \ {0}
  BY EmptySeq
<1>2. 1 \in 1 .. n + 1 /\ n - 1 \in 0 .. n
  BY <1>1
<1>3. /\ SubSeq(path, 1, n - 1) \in Seq(Names)
      /\ Len(SubSeq(path, 1, n - 1)) = n - 1
      /\ \A i \in 1 .. n - 1 : SubSeq(path, 1, n - 1)[i] = path[i]
  <2> DEFINE q == SubSeq(path, 1, n - 1)
  <2>1. \A i \in 1 .. n - 1 : path[i] \in Names
    BY <1>1
  <2>2. /\ q \in Seq(Names) /\ Len(q) = IF 1 <= n - 1 THEN n - 1 - 1 + 1 ELSE 0
        /\ \A i \in 1 .. n - 1 - 1 + 1 : q[i] = path[1 + i - 1]
    BY <1>1, <2>1, SubSeqProperties
  <2> HIDE DEF q, n
  <2>3. Len(q) = n - 1 /\ \A i \in 1 .. n - 1 : i \in 1 .. n - 1 - 1 + 1 /\ 1 + i - 1 = i
    BY <1>1, <2>2
  <2> QED
    BY <2>2, <2>3 DEF q
<1> QED
  BY <1>1, <1>3 DEF parent

LEMMA OpFacts ==
    ASSUME TypeInv, NEW t \in Threads, pc[t] # "idle"
    PROVE  /\ op[t] \in Calls /\ op[t].path \in Seq(Names) /\ op[t].path # <<>>
           /\ op[t].to \in Seq(Names) /\ op[t].size \in Nat
           /\ op[t].kind = "rename" => op[t].to # <<>>
<1>1. op[t] \in Operations
  BY DEF TypeInv, TypeOK, fits
<1>2. op[t] \in Calls
  BY <1>1, FileSystemAssumption DEF Operations
<1> QED
  BY <1>2 DEF Calls

LEMMA StateFacts ==
    ASSUME TypeInv
    PROVE  /\ disk \in Disks /\ Proper(table) /\ Proper(diskTable) /\ modified \subseteq Sectors
           /\ damage \subseteq Causes
           /\ \A t \in Threads : /\ reg[t] \in Regs /\ fits(pc[t], op[t])
                                 /\ loops(pc[t], op[t], reg[t])
           /\ reg = [t \in Threads |-> reg[t]] /\ pc = [t \in Threads |-> pc[t]]
           /\ op = [t \in Threads |-> op[t]]
  BY DEF TypeInv, TypeOK, Disks

LEMMA Lookup ==
    ASSUME TypeInv, NEW path \in Seq(Names)
    PROVE  /\ getFileEntry(path) \in Found /\ getFileEntry(path).cluster \in Links
           /\ getFileEntry(path).slot \in 0 .. SlotCount
           /\ getFileEntry(path).entry \in Slots
           /\ folder(path) \in Links
  BY StateFacts, EntryAtType, SlotParts DEF getFileEntry, folder, Found

\* The place of a hole.
LEMMA HoleType ==
    ASSUME NEW content, holes(content) # {}
    PROVE  Min(holes(content)) \in holes(content) /\ Min(holes(content)) \in 1 .. SlotCount
<1>1. holes(content) \in SUBSET Nat /\ holes(content) \subseteq 1 .. SlotCount
  BY SlotFacts DEF holes
<1> QED
  BY <1>1, MinIsLeast

LEMMA TouchedType ==
    ASSUME TypeInv, NEW cs \in SUBSET Entries
    PROVE  modified \cup touched(cs) \subseteq Sectors
  BY StateFacts DEF touched, Sectors

LEMMA BecauseType ==
    ASSUME TypeInv, NEW cause \in Causes, NEW b, because(cause, b)
    PROVE  damage' \subseteq Causes
  BY StateFacts DEF because

LEMMA MkSearchType == ASSUME TypeInv, NEW t \in Threads, MkSearch(t) PROVE TypeInv'
<1> DEFINE chain == linked(table, folder(parent(op[t].path)))
           open == {k \in DOMAIN chain : holes(disk[chain[k]]) # {}}
           k == Min(open)
           name == op[t].path[Len(op[t].path)]
           kind == IF op[t].kind = "mkdir" THEN "dir" ELSE "file"
           put == slot(kind, name, 0, 0)
           i == image(chain[k], Min(holes(disk[chain[k]])), put)
           r == [reg[t] EXCEPT !.image.put = put]
           q == [reg[t] EXCEPT !.image = i]
<1>0. /\ pc[t] = "start" /\ op[t].kind \in {"create", "mkdir"}
      /\ UNCHANGED <<phase, table, modified, diskTable, disk, damage>>
  BY DEF MkSearch, at, fatVars
<1>1. parent(op[t].path) \in Seq(Names) /\ name \in Names
  BY <1>0, OpFacts, ParentType
<1>2. put \in Slots
  BY <1>1, LinkFacts DEF slot, Slots, Links
<1>3. CASE open = {}
  <2>1. r \in Regs
    <3> HIDE DEF put
    <3>1. reg[t] \in Regs
      BY StateFacts
    <3>2. [reg[t].image EXCEPT !.put = put] \in Images
      BY <1>2, <3>1, RegParts, ImageParts, MakeImage
    <3> QED
      BY <3>1, <3>2, RegParts, MakeReg
  <2>2. reg' = [reg EXCEPT ![t] = r] /\ pc' = [pc EXCEPT ![t] = "link"] /\ op' = op
    BY <1>3 DEF MkSearch, goto
  <2>3. fits("link", op[t]) /\ loops("link", op[t], r)
    BY <1>0, OpFacts DEF fits, loops, None
  <2> HIDE DEF r
  <2> QED
    BY <1>0, <2>1, <2>2, <2>3, StateFacts, ThreadStep DEF Places
<1>4. CASE open # {}
  <2>0. k \in open
    <3>1. open \in SUBSET Nat
      BY <1>1, Lookup, LinkedType, StateFacts
    <3> HIDE DEF open
    <3> QED
      BY <1>4, <3>1, MinIsLeast
  <2>1. q \in Regs
    <3>1. chain[k] \in Links
      BY <1>1, <2>0, Lookup, LinkedType, StateFacts
    <3>2. Min(holes(disk[chain[k]])) \in 0 .. SlotCount
      <4>1. holes(disk[chain[k]]) # {}
        BY <2>0
      <4> HIDE DEF chain, k
      <4>2. Min(holes(disk[chain[k]])) \in 1 .. SlotCount
        BY <4>1, HoleType
      <4> QED
        BY <4>2, SlotFacts
    <3>3. i \in Images
      <4> HIDE DEF put, chain, k
      <4> QED
        BY <1>2, <3>1, <3>2, ImageType, StateFacts
    <3> HIDE DEF i
    <3>4. reg[t] \in Regs
      BY StateFacts
    <3> QED
      BY <3>3, <3>4, RegParts, MakeReg
  <2> DEFINE place == IF kind = "dir" THEN "find" ELSE "place"
  <2>2. reg' = [reg EXCEPT ![t] = q] /\ pc' = [pc EXCEPT ![t] = place] /\ op' = op
    BY <1>4 DEF MkSearch, goto
  <2>3. fits(place, op[t]) /\ loops(place, op[t], q)
    BY <1>0, OpFacts DEF fits, loops, None
  <2>4. place \in Places \ {"start"} /\ place # "idle"
    BY DEF Places
  <2> HIDE DEF q, place
  <2> QED
    BY <1>0, <2>1, <2>2, <2>3, <2>4, StateFacts, ThreadStep
<1> QED
  BY <1>3, <1>4

LEMMA MkLinkType == ASSUME TypeInv, NEW t \in Threads, MkLink(t) PROVE TypeInv'
<1> DEFINE first == folder(parent(op[t].path))
           c == nextFree(table)
           i == image(c, 1, reg[t].image.put)
           r == [[reg[t] EXCEPT !.image = i] EXCEPT !.count = 1]
           place == IF op[t].kind = "mkdir" THEN "find" ELSE "place"
<1>0. /\ pc[t] = "link" /\ op[t].kind \in {"create", "mkdir"}
      /\ UNCHANGED <<phase, diskTable, disk>> /\ freeClusters(table) # {}
  BY StateFacts DEF MkLink, at, fits
<1>1. first \in Links
  <2>1. parent(op[t].path) \in Seq(Names)
    BY <1>0, OpFacts, ParentType
  <2> QED
    BY <2>1, Lookup
<1>2. c \in Clusters /\ c \in Links /\ 1 \in 0 .. SlotCount
  BY <1>0, NextFreeType, StateFacts, LinkFacts, SlotFacts
<1> HIDE DEF first, c
<1>3. Proper(table')
  <2>1. table' = linkFree(table, first)
    BY DEF MkLink, first
  <2> QED
    BY <1>1, <2>1, LinkFreeType, StateFacts
<1>4. modified' \subseteq Sectors
  <2>1. {lastOf(walk(table, first)), c} \in SUBSET Entries
    BY <1>1, <1>2, WalkType, StateFacts, LinkFacts
  <2>2. modified' = modified \cup touched({lastOf(walk(table, first)), c})
    BY DEF MkLink, first, c
  <2> QED
    BY <2>1, <2>2, TouchedType
<1>5. damage' \subseteq Causes
  <2>1. because("stale", showsOld(disk[c]))
    BY DEF MkLink, c
  <2> QED
    BY <2>1, BecauseType DEF Causes
<1>6. r \in Regs
  <2>1. reg[t] \in Regs
    BY StateFacts
  <2>2. i \in Images
    BY <1>2, <2>1, RegParts, ImageParts, ImageType, StateFacts
  <2> HIDE DEF i
  <2>3. [reg[t] EXCEPT !.image = i] \in Regs
    BY <2>1, <2>2, RegUpdates
  <2> QED
    BY <2>3, RegUpdates
<1>7. reg' = [reg EXCEPT ![t] = r] /\ pc' = [pc EXCEPT ![t] = place] /\ op' = op
  <2>1. reg' = [reg EXCEPT ![t].image = image(c, 1, @.put), ![t].count = 1]
    BY DEF MkLink, c
  <2>2. reg' = [reg EXCEPT ![t] = r]
    BY <2>1
  <2> QED
    BY <2>2 DEF MkLink, goto
<1>8. fits(place, op[t]) /\ loops(place, op[t], r)
  BY <1>0, OpFacts DEF fits, loops, None
<1>9. place \in Places \ {"start"} /\ place # "idle" /\ pc[t] # "idle"
  BY <1>0 DEF Places
<1> HIDE DEF r, place
<1> QED
  BY <1>0, <1>3, <1>4, <1>5, <1>6, <1>7, <1>8, <1>9, StateFacts, ThreadStep

LEMMA FindFreeType == ASSUME TypeInv, NEW t \in Threads, FindFree(t) PROVE TypeInv'
<1> DEFINE r == [reg[t] EXCEPT !.free = nextFree(table)]
<1>0. pc[t] = "find" /\ UNCHANGED <<phase, table, modified, diskTable, disk>>
  BY DEF FindFree, at, fatVars
<1>1. r \in Regs
  <2>1. reg[t] \in Regs /\ nextFree(table) \in Links
    BY StateFacts, NextFreeType
  <2> QED
    BY <2>1, RegUpdates
<1>2. reg' = [reg EXCEPT ![t] = r] /\ pc' = [pc EXCEPT ![t] = "use"] /\ op' = op
  BY DEF FindFree, goto
<1>3. fits("use", op[t]) /\ loops("use", op[t], r)
  BY <1>0, StateFacts, RegParts DEF fits, loops
<1>4. damage' \subseteq Causes
  <2>1. because("full", nextFree(table) = 0)
    BY DEF FindFree
  <2> QED
    BY <2>1, BecauseType DEF Causes
<1> HIDE DEF r
<1> QED
  BY <1>0, <1>1, <1>2, <1>3, <1>4, StateFacts, ThreadStep DEF Places

LEMMA UseFreeType == ASSUME TypeInv, NEW t \in Threads, UseFree(t) PROVE TypeInv'
<1> DEFINE put == [reg[t].image.put EXCEPT !.first = reg[t].free]
           r == [reg[t] EXCEPT !.image = [reg[t].image EXCEPT !.put = put]]
           place == IF op[t].kind = "mkdir" THEN "dots" ELSE "clear"
<1>0. pc[t] = "use" /\ UNCHANGED <<phase, diskTable, disk>>
  BY DEF UseFree, at
<1>a. reg[t] \in Regs /\ reg[t].image \in Images /\ reg[t].image.put \in Slots /\ reg[t].free \in Links
  BY StateFacts, RegParts, ImageParts
<1>1. r \in Regs
  <2>1. put \in Slots
    BY <1>a, SlotParts DEF Slots, Links
  <2> HIDE DEF put
  <2>2. [reg[t].image EXCEPT !.put = put] \in Images
    BY <1>a, <2>1, ImageParts, MakeImage
  <2> QED
    BY <1>a, <2>2, RegParts, MakeReg
<1>2. reg' = [reg EXCEPT ![t] = r] /\ pc' = [pc EXCEPT ![t] = place] /\ op' = op
  BY DEF UseFree, goto
<1>3. fits(place, op[t]) /\ loops(place, op[t], r)
  BY <1>0, <1>a, StateFacts, RegParts DEF fits, loops
<1>4. damage' \subseteq Causes
  <2>1. because("race", reg[t].free # 0 /\ table[reg[t].free] # 0)
    BY DEF UseFree
  <2> QED
    BY <2>1, BecauseType DEF Causes
<1>5. Proper(table') /\ modified' \subseteq Sectors
  BY <1>a, StateFacts, SetFreeType, TouchedType DEF UseFree, Links
<1>6. place \in Places \ {"start"} /\ place # "idle" /\ pc[t] # "idle"
  BY <1>0 DEF Places
<1> HIDE DEF r, place
<1> QED
  BY <1>0, <1>1, <1>2, <1>3, <1>4, <1>5, <1>6, StateFacts, ThreadStep

\* A cluster written with slots.
LEMMA DiskPut ==
    ASSUME disk \in Disks, NEW c, NEW content \in Contents, disk' = [disk EXCEPT ![c] = content]
    PROVE  disk' \in Disks
  BY DEF Disks

LEMMA MkDotsType == ASSUME TypeInv, NEW t \in Threads, MkDots(t) PROVE TypeInv'
<1> DEFINE c == reg[t].free
           new == [disk[c] EXCEPT ![1] = Dots]
<1>0. /\ pc[t] = "dots" /\ UNCHANGED <<phase, table, modified, diskTable, reg>>
      /\ disk' = [disk EXCEPT ![c] = new] /\ pc' = [pc EXCEPT ![t] = "place"] /\ op' = op
  BY DEF MkDots, at, goto, fatVars
<1>1. disk' \in Disks
  <2>1. c \in Links
    BY StateFacts, RegParts
  <2>2. disk[c] \in Contents
    BY <2>1, StateFacts, LinkFacts DEF Disks
  <2>3. new \in Contents
    BY <2>2, SlotFacts DEF Contents
  <2> HIDE DEF new
  <2> QED
    BY <1>0, <2>3, StateFacts, DiskPut
<1>2. damage' \subseteq Causes
  <2>1. because("stale", showsOld(new))
    BY DEF MkDots
  <2> QED
    BY <2>1, BecauseType DEF Causes
<1>3. reg' = [reg EXCEPT ![t] = reg[t]] /\ reg[t] \in Regs
  BY <1>0, StateFacts
<1>4. fits("place", op[t]) /\ loops("place", op[t], reg[t])
  BY <1>0, StateFacts DEF fits, loops
<1> QED
  BY <1>0, <1>1, <1>2, <1>3, <1>4, StateFacts, ThreadStep DEF Places

LEMMA ClustersForType ==
    ASSUME NEW size \in Nat
    PROVE  clustersFor(size) \in Nat
<1>1. SlotCount \in Nat \ {0} /\ size + SlotCount - 1 \in Nat
  BY FileSystemAssumption
<1>2. \A a \in Nat, b \in Nat \ {0} : a \div b \in Nat
  OBVIOUS
<1> QED
  BY <1>1, <1>2 DEF clustersFor

LEMMA TruncateStartType == ASSUME TypeInv, NEW t \in Threads, TruncateStart(t) PROVE TypeInv'
<1> DEFINE e == getFileEntry(op[t].path)
           actual == clustersFor(e.entry.size)
           needed == clustersFor(op[t].size)
           i == image(e.cluster, e.slot, e.entry)
           n == IF needed < actual THEN actual - needed ELSE needed - actual
           r == [[reg[t] EXCEPT !.image = i] EXCEPT !.count = n]
           place == IF needed < actual THEN "shrink"
                    ELSE IF needed = actual THEN
                            IF e.entry.size > op[t].size THEN "tail" ELSE "reread"
                    ELSE IF actual = 0 THEN "find" ELSE "extend"
<1>0. /\ pc[t] = "start" /\ op[t].kind = "truncate"
      /\ UNCHANGED <<phase, table, modified, diskTable, disk, damage>>
      /\ reg' = [reg EXCEPT ![t].image = i, ![t].count = n]
      /\ pc' = [pc EXCEPT ![t] = place] /\ op' = op
  BY DEF TruncateStart, at, fatVars, goto
<1>1. op[t].path \in Seq(Names) /\ op[t].size \in Nat /\ op[t] # None
  BY <1>0, OpFacts DEF None
<1>2. /\ e.cluster \in Links /\ e.slot \in 0 .. SlotCount /\ e.entry \in Slots
      /\ e.entry.size \in Nat
  BY <1>1, Lookup, SlotParts
<1>3. actual \in Nat /\ needed \in Nat
  BY <1>1, <1>2, ClustersForType
<1>4. i \in Images
  <2> HIDE DEF e
  <2> QED
    BY <1>2, ImageType, StateFacts
<1> HIDE DEF e, actual, needed, i
<1>5. /\ n \in Nat
      /\ place \in {"shrink", "tail", "reread", "find", "extend"}
      /\ place \in {"shrink", "find", "extend"} => n # 0
  BY <1>3
<1> HIDE DEF n, place
<1>6. r \in Regs
  <2>1. [reg[t] EXCEPT !.image = i] \in Regs
    BY <1>4, StateFacts, RegUpdates
  <2> QED
    BY <1>5, <2>1, RegUpdates
<1>7. reg' = [reg EXCEPT ![t] = r]
  BY <1>0
<1>8. fits(place, op[t]) /\ loops(place, op[t], r)
  <2>1. r.count = n
    BY StateFacts, RegParts
  <2> QED
    BY <1>0, <1>1, <1>5, <2>1 DEF fits, loops
<1> HIDE DEF r
<1> QED
  BY <1>0, <1>5, <1>6, <1>7, <1>8, StateFacts, ThreadStep DEF Places

LEMMA ShrinkType == ASSUME TypeInv, NEW t \in Threads, Shrink(t) PROVE TypeInv'
<1> DEFINE first == reg[t].image.put.first
           chain == walk(table, first)
           cs == {lastOf(chain), chain[IF Len(chain) = 1 THEN 1 ELSE Len(chain) - 1]}
           put == [reg[t].image.put EXCEPT
                      !.first = IF reg[t].count = 1 /\ removed(table, first) = 0 THEN 0 ELSE @]
           i == [reg[t].image EXCEPT !.put = put]
           n == reg[t].count - 1
           r == [[reg[t] EXCEPT !.count = n] EXCEPT !.image = i]
           place == IF reg[t].count = 1 THEN "reread" ELSE "shrink"
<1>0. /\ pc[t] = "shrink" /\ UNCHANGED <<phase, diskTable, disk, damage>>
      /\ table' = removeLast(table, first) /\ modified' = modified \cup touched(cs)
      /\ reg' = [reg EXCEPT ![t] = r]
      /\ pc' = [pc EXCEPT ![t] = place] /\ op' = op
  BY DEF Shrink, at, goto
<1>1. /\ reg[t] \in Regs /\ reg[t].image \in Images /\ reg[t].image.put \in Slots
      /\ first \in Links /\ reg[t].count \in Nat \ {0}
  BY <1>0, StateFacts, RegParts, ImageParts, SlotParts DEF loops
<1>2. n \in Nat /\ (reg[t].count # 1 => n # 0)
  BY <1>1
<1>3. cs \in SUBSET Entries
  <2>1. /\ Len(chain) \in Nat \ {0} /\ lastOf(chain) \in Links
        /\ \A j \in 1 .. Len(chain) : chain[j] \in Links
    BY <1>1, WalkType, StateFacts
  <2> HIDE DEF chain
  <2>2. (IF Len(chain) = 1 THEN 1 ELSE Len(chain) - 1) \in 1 .. Len(chain)
    <3>1. \A m \in Nat \ {0} : (IF m = 1 THEN 1 ELSE m - 1) \in 1 .. m
      OBVIOUS
    <3> QED
      BY <2>1, <3>1
  <2> QED
    BY <2>1, <2>2, LinkFacts
<1>4. put \in Slots
  <2> HIDE DEF first
  <2> QED
    BY <1>1, LinkFacts, SlotParts DEF Slots, Links
<1>5. r \in Regs
  <2> HIDE DEF put
  <2>1. i \in Images
    BY <1>1, <1>4, ImageUpdates
  <2> HIDE DEF i, n
  <2>2. [reg[t] EXCEPT !.count = n] \in Regs
    BY <1>1, <1>2, RegUpdates
  <2> QED
    BY <2>1, <2>2, RegUpdates
<1>6. fits(place, op[t]) /\ loops(place, op[t], r)
  <2>1. r.count = n /\ op[t].kind = "truncate" /\ op[t] # None
    BY <1>0, <1>1, RegParts, StateFacts DEF fits
  <2> HIDE DEF r
  <2> QED
    BY <1>2, <2>1 DEF fits, loops
<1>7. place \in Places \ {"start"} /\ place # "idle"
  BY DEF Places
<1>8. Proper(table') /\ modified' \subseteq Sectors
  <2> HIDE DEF first, cs
  <2> QED
    BY <1>0, <1>1, <1>3, RemoveLastType, TouchedType, StateFacts
<1> HIDE DEF r, place
<1> QED
  BY <1>0, <1>5, <1>6, <1>7, <1>8, StateFacts, ThreadStep

LEMMA ClearType == ASSUME TypeInv, NEW t \in Threads, Clear(t) PROVE TypeInv'
<1> DEFINE n == reg[t].count - 1
           r == [reg[t] EXCEPT !.count = n]
           place == IF reg[t].count = 1 THEN "reread" ELSE "extend"
<1>0. /\ pc[t] = "clear" /\ UNCHANGED <<phase, table, modified, diskTable, damage>>
      /\ disk' = [disk EXCEPT ![reg[t].free] = Zeros]
      /\ reg' = [reg EXCEPT ![t] = r]
      /\ pc' = [pc EXCEPT ![t] = place] /\ op' = op
  BY DEF Clear, at, fatVars, goto
<1>1. reg[t] \in Regs /\ reg[t].count \in Nat \ {0}
  BY <1>0, StateFacts, RegParts DEF loops
<1>2. n \in Nat /\ (reg[t].count # 1 => n # 0)
  BY <1>1
<1>3. r \in Regs /\ r.count = n
  BY <1>1, <1>2, RegUpdates, RegParts
<1>4. disk' \in Disks
  BY <1>0, SlotFacts, StateFacts, DiskPut
<1> HIDE DEF r
<1>5. fits(place, op[t]) /\ loops(place, op[t], r)
  BY <1>0, <1>2, <1>3, StateFacts DEF fits, loops
<1>6. place \in Places \ {"start"} /\ place # "idle"
  BY DEF Places
<1> HIDE DEF place
<1> QED
  BY <1>0, <1>3, <1>4, <1>5, <1>6, StateFacts, ThreadStep

LEMMA ExtendType == ASSUME TypeInv, NEW t \in Threads, Extend(t) PROVE TypeInv'
<1> DEFINE first == reg[t].image.put.first
           c == nextFree(table)
           r == [reg[t] EXCEPT !.free = c]
           cs == {lastOf(walk(table, first)), c}
<1>0. /\ pc[t] = "extend" /\ UNCHANGED <<phase, diskTable, disk, damage>>
      /\ table' = linkFree(table, first) /\ modified' = modified \cup touched(cs)
      /\ reg' = [reg EXCEPT ![t] = r]
      /\ pc' = [pc EXCEPT ![t] = "clear"] /\ op' = op
  BY DEF Extend, at, goto
<1>1. reg[t] \in Regs /\ first \in Links /\ c \in Links /\ reg[t].count # 0
  BY <1>0, StateFacts, RegParts, ImageParts, SlotParts, NextFreeType DEF loops
<1>2. cs \in SUBSET Entries
  BY <1>1, WalkType, StateFacts, LinkFacts
<1>3. r \in Regs /\ r.count = reg[t].count
  <2> HIDE DEF c
  <2> QED
    BY <1>1, RegUpdates, RegParts
<1>4. Proper(table') /\ modified' \subseteq Sectors
  <2> HIDE DEF first, cs
  <2> QED
    BY <1>0, <1>1, <1>2, LinkFreeType, TouchedType, StateFacts
<1> HIDE DEF r
<1>5. fits("clear", op[t]) /\ loops("clear", op[t], r)
  BY <1>0, <1>1, <1>3, StateFacts DEF fits, loops
<1> QED
  BY <1>0, <1>3, <1>4, <1>5, StateFacts, ThreadStep DEF Places

LEMMA ClearTailType == ASSUME TypeInv, NEW t \in Threads, ClearTail(t) PROVE TypeInv'
<1> DEFINE c == lastLinked(table, reg[t].image.put.first)
           new == [i \in 1 .. SlotCount |->
                      IF i > op[t].size % SlotCount THEN End ELSE disk[c][i]]
<1>0. /\ pc[t] = "tail" /\ UNCHANGED <<phase, table, modified, diskTable, damage, reg>>
      /\ disk' = [disk EXCEPT ![c] = new]
      /\ pc' = [pc EXCEPT ![t] = "reread"] /\ op' = op
  BY DEF ClearTail, at, fatVars, goto
<1>1. disk' \in Disks
  <2>1. CASE c \in Clusters \cup {0}
    <3>1. disk[c] \in Contents
      BY <2>1, StateFacts DEF Disks
    <3>2. new \in Contents
      BY <3>1, SlotFacts DEF Contents
    <3> HIDE DEF new
    <3> QED
      BY <1>0, <3>2, StateFacts, DiskPut
  <2>2. CASE c \notin Clusters \cup {0}
    <3> HIDE DEF new, c
    <3>1. disk = [d \in Clusters \cup {0} |-> disk[d]]
      BY StateFacts DEF Disks
    <3>2. disk' = disk
      BY <1>0, <2>2, <3>1
    <3> QED
      BY <3>2, StateFacts
  <2> QED
    BY <2>1, <2>2
<1>2. reg' = [reg EXCEPT ![t] = reg[t]] /\ reg[t] \in Regs
  BY <1>0, StateFacts
<1>3. fits("reread", op[t]) /\ loops("reread", op[t], reg[t])
  BY <1>0, StateFacts DEF fits, loops
<1> QED
  BY <1>0, <1>1, <1>2, <1>3, StateFacts, ThreadStep DEF Places

LEMMA RereadType == ASSUME TypeInv, NEW t \in Threads, Reread(t) PROVE TypeInv'
<1> DEFINE i == [[reg[t].image EXCEPT !.seen = disk[reg[t].image.cluster]]
                    EXCEPT !.put = [reg[t].image.put EXCEPT !.size = op[t].size]]
           r == [reg[t] EXCEPT !.image = i]
<1>0. /\ pc[t] = "reread" /\ UNCHANGED <<phase, table, modified, diskTable, disk, damage>>
      /\ reg' = [reg EXCEPT ![t] = r]
      /\ pc' = [pc EXCEPT ![t] = "place"] /\ op' = op
  <2>1. reg' = [reg EXCEPT ![t].image.seen = disk[reg[t].image.cluster],
                           ![t].image.put.size = op[t].size]
    BY DEF Reread
  <2>2. reg' = [reg EXCEPT ![t] = r]
    BY <2>1, ZenonT(60)
  <2> QED
    BY <2>2 DEF Reread, at, fatVars, goto
<1>1. /\ reg[t] \in Regs /\ reg[t].image \in Images /\ reg[t].image.put \in Slots
      /\ reg[t].image.cluster \in Links /\ op[t].size \in Nat
  BY <1>0, StateFacts, RegParts, ImageParts, OpFacts
<1>2. i \in Images
  <2>1. [reg[t].image.put EXCEPT !.size = op[t].size] \in Slots
    BY <1>1, SlotParts DEF Slots, Links
  <2>2. disk[reg[t].image.cluster] \in Contents
    BY <1>1, StateFacts, LinkFacts DEF Disks
  <2>3. [reg[t].image EXCEPT !.seen = disk[reg[t].image.cluster]] \in Images
    BY <1>1, <2>2, ImageUpdates
  <2> QED
    BY <2>1, <2>3, ImageUpdates
<1> HIDE DEF i
<1>3. r \in Regs
  BY <1>1, <1>2, RegUpdates
<1> HIDE DEF r
<1>4. fits("place", op[t]) /\ loops("place", op[t], r)
  BY <1>0, StateFacts DEF fits, loops
<1> QED
  BY <1>0, <1>3, <1>4, StateFacts, ThreadStep DEF Places

LEMMA RemoveStartType == ASSUME TypeInv, NEW t \in Threads, RemoveStart(t) PROVE TypeInv'
<1> DEFINE e == getFileEntry(op[t].path)
           clusters == linked(table, e.entry.first)
           i == image(e.cluster, e.slot, Deleted)
           r == [[reg[t] EXCEPT !.image = i] EXCEPT !.clusters = clusters]
           place == IF clusters = <<>> THEN "save" ELSE "free"
<1>0. /\ pc[t] = "start" /\ op[t].kind \in {"unlink", "rmdir"}
      /\ UNCHANGED <<phase, table, modified, diskTable, disk>>
      /\ reg' = [reg EXCEPT ![t] = r]
      /\ pc' = [pc EXCEPT ![t] = place] /\ op' = op
      /\ because("orphans", /\ e.entry.kind = "dir"
                            /\ \E k \in DOMAIN clusters : interpret(disk[clusters[k]]) # {})
  BY DEF RemoveStart, at, fatVars, goto
<1>1. op[t].path \in Seq(Names) /\ op[t] # None
  BY <1>0, OpFacts DEF None
<1>2. /\ e.cluster \in Links /\ e.slot \in 0 .. SlotCount /\ e.entry.first \in Links
  BY <1>1, Lookup, SlotParts
<1> HIDE DEF e
<1>3. clusters \in Seq(Links) /\ i \in Images
  BY <1>2, LinkedType, ImageType, StateFacts, SlotFacts
<1>4. damage' \subseteq Causes
  <2> HIDE DEF clusters
  <2> QED
    BY <1>0, BecauseType DEF Causes
<1> HIDE DEF clusters, i
<1>5. r \in Regs /\ r.clusters = clusters
  <2>1. reg[t] \in Regs
    BY StateFacts
  <2>2. [reg[t] EXCEPT !.image = i] \in Regs
    BY <1>3, <2>1, RegUpdates
  <2> QED
    BY <1>3, <2>1, <2>2, RegUpdates, RegParts
<1> HIDE DEF r
<1>6. fits(place, op[t]) /\ loops(place, op[t], r)
  BY <1>0, <1>1, <1>5 DEF fits, loops
<1>7. place \in Places \ {"start"} /\ place # "idle"
  BY DEF Places
<1> HIDE DEF place
<1> QED
  BY <1>0, <1>4, <1>5, <1>6, <1>7, StateFacts, ThreadStep

LEMMA HeadTail ==
    ASSUME NEW S, NEW s \in Seq(S), s # <<>>
    PROVE  /\ Head(s) \in S /\ Tail(s) \in Seq(S) /\ Len(s) \in Nat \ {0}
           /\ Head(s) = s[1] /\ Len(Tail(s)) = Len(s) - 1
           /\ \A i \in 1 .. Len(s) - 1 : Tail(s)[i] = s[i + 1]
           /\ Len(s) = 1 <=> Tail(s) = <<>>
<1>1. Head(s) \in S /\ Tail(s) \in Seq(S) /\ Len(Tail(s)) = Len(s) - 1 /\ Head(s) = s[1]
  BY HeadTailProperties
<1>2. Len(s) \in Nat \ {0}
  BY EmptySeq
<1>3. \A i \in 1 .. Len(s) - 1 : Tail(s)[i] = s[i + 1]
  BY <1>2
<1>4. Len(s) = 1 <=> Tail(s) = <<>>
  <2>1. \A q \in Seq(S) : q = <<>> <=> Len(q) = 0
    BY EmptySeq
  <2> DEFINE q == Tail(s)
  <2>2. q = <<>> <=> Len(q) = 0
    BY <1>1, <2>1
  <2> HIDE DEF q
  <2>3. Len(q) = Len(s) - 1
    BY <1>1 DEF q
  <2>4. Len(s) = 1 <=> q = <<>>
    BY <1>2, <2>2, <2>3
  <2> QED
    BY <2>4 DEF q
<1> QED
  BY <1>1, <1>2, <1>3, <1>4

LEMMA FreeOneType == ASSUME TypeInv, NEW t \in Threads, FreeOne(t) PROVE TypeInv'
<1> DEFINE s == reg[t].clusters
           r == [reg[t] EXCEPT !.clusters = Tail(s)]
           place == IF Len(s) = 1 THEN "save" ELSE "free"
<1>0. /\ pc[t] = "free" /\ UNCHANGED <<phase, diskTable, disk, damage>>
      /\ table' = setFree(table, Head(s)) /\ modified' = modified \cup touched({Head(s)})
      /\ reg' = [reg EXCEPT ![t] = r]
      /\ pc' = [pc EXCEPT ![t] = place] /\ op' = op
  BY DEF FreeOne, at, goto
<1>1. s \in Seq(Links) /\ s # <<>> /\ reg[t] \in Regs
  BY <1>0, StateFacts, RegParts DEF loops
<1>2. Head(s) \in Links /\ Tail(s) \in Seq(Links) /\ (Len(s) # 1 => Tail(s) # <<>>)
  BY <1>1, HeadTail
<1> HIDE DEF s
<1>3. r \in Regs /\ r.clusters = Tail(s)
  <2> DEFINE q == Tail(s)
  <2>1. q \in Seq(Links)
    BY <1>2
  <2> HIDE DEF q
  <2>2. [reg[t] EXCEPT !.clusters = q] \in Regs /\ [reg[t] EXCEPT !.clusters = q].clusters = q
    BY <1>1, <2>1, RegUpdates, RegParts
  <2> QED
    BY <2>2 DEF q
<1>4. Proper(table') /\ modified' \subseteq Sectors
  BY <1>0, <1>2, SetFreeType, TouchedType, StateFacts, LinkFacts
<1> HIDE DEF r
<1>5. fits(place, op[t]) /\ loops(place, op[t], r)
  BY <1>0, <1>2, <1>3, StateFacts DEF fits, loops
<1>6. place \in Places \ {"start"} /\ place # "idle"
  BY DEF Places
<1> HIDE DEF place
<1> QED
  BY <1>0, <1>3, <1>4, <1>5, <1>6, StateFacts, ThreadStep

LEMMA RenameNothingType ==
    ASSUME TypeInv, NEW t \in Threads, RenameNothing(t) PROVE TypeInv'
<1>1. /\ pc[t] = "start" /\ UNCHANGED <<phase, table, modified, diskTable, disk, reg, damage>>
      /\ pc' = [pc EXCEPT ![t] = "idle"] /\ op' = [op EXCEPT ![t] = None]
  BY DEF RenameNothing, at, fatVars, goto
<1>2. reg' = [reg EXCEPT ![t] = reg[t]] /\ reg[t] \in Regs
  BY <1>1, StateFacts
<1> QED
  BY <1>1, <1>2, StateFacts, ThreadStep DEF Places

LEMMA RenameStartType == ASSUME TypeInv, NEW t \in Threads, RenameStart(t) PROVE TypeInv'
<1> DEFINE e == getFileEntry(op[t].path)
           renamed == [e.entry EXCEPT !.name = op[t].to[Len(op[t].to)]]
           c == folder(parent(op[t].to))
           free == holes(disk[c])
           m == IF free = {} THEN 0 ELSE Min(free)
           within == image(e.cluster, e.slot, renamed)
           gone == image(e.cluster, e.slot, Deleted)
           target == image(c, m, renamed)
           r == [reg[t] EXCEPT !.image = within]
           q == [[reg[t] EXCEPT !.image = gone] EXCEPT !.target = target]
<1>0. /\ pc[t] = "start" /\ op[t].kind = "rename"
      /\ UNCHANGED <<phase, table, modified, diskTable, disk>>
      /\ reg' = [reg EXCEPT ![t] = IF sameFolder(op[t]) THEN r ELSE q]
      /\ pc' = [pc EXCEPT ![t] = "place"] /\ op' = op
      /\ damage' = damage \/ because("dropped", free = {})
  BY DEF RenameStart, at, fatVars, goto
<1>1. /\ op[t].path \in Seq(Names) /\ op[t] # None
      /\ op[t].to[Len(op[t].to)] \in Names /\ parent(op[t].to) \in Seq(Names)
  BY <1>0, OpFacts, ParentType DEF None
<1>2. /\ e.cluster \in Links /\ e.slot \in 0 .. SlotCount /\ e.entry \in Slots /\ c \in Links
  BY <1>1, Lookup
<1>3. renamed \in Slots
  BY <1>1, <1>2, SlotParts DEF Slots, Links
<1>4. m \in 0 .. SlotCount
  <2> HIDE DEF c
  <2> QED
    BY HoleType, SlotFacts
<1>5. damage' \subseteq Causes
  <2> HIDE DEF free
  <2> QED
    BY <1>0, BecauseType, StateFacts DEF Causes
<1> HIDE DEF e, renamed, c, m
<1>6. within \in Images /\ gone \in Images /\ target \in Images
  BY <1>2, <1>3, <1>4, ImageType, StateFacts, SlotFacts
<1> HIDE DEF within, gone, target
<1>7. r \in Regs /\ q \in Regs
  <2>1. reg[t] \in Regs
    BY StateFacts
  <2>2. r \in Regs /\ [reg[t] EXCEPT !.image = gone] \in Regs
    BY <1>6, <2>1, RegUpdates
  <2> QED
    BY <1>6, <2>2, RegUpdates
<1> DEFINE x == IF sameFolder(op[t]) THEN r ELSE q
<1>8. x \in Regs
  BY <1>7
<1> HIDE DEF r, q
<1>9. fits("place", op[t]) /\ loops("place", op[t], x)
  BY <1>0, <1>1 DEF fits, loops
<1> HIDE DEF x
<1>10. reg' = [reg EXCEPT ![t] = x]
  BY <1>0 DEF x
<1> QED
  BY <1>0, <1>5, <1>8, <1>9, <1>10, StateFacts, ThreadStep DEF Places

\* A cluster goes back with one slot changed.
LEMMA ChangedType ==
    ASSUME TypeInv, NEW i \in Images
    PROVE  /\ changed(i) \in Contents
           /\ [disk EXCEPT ![i.cluster] = changed(i)] \in Disks
<1>1. \A j \in 1 .. SlotCount : i.seen[j] \in Slots /\ i.put \in Slots
  BY ImageParts DEF Contents
<1>2. changed(i) \in Contents
  BY <1>1 DEF changed, Contents
<1> QED
  BY <1>2, StateFacts DEF Disks

LEMMA PlaceTargetType == ASSUME TypeInv, NEW t \in Threads, PlaceTarget(t) PROVE TypeInv'
<1> DEFINE i == reg[t].target
<1>0. /\ pc[t] = "target" /\ UNCHANGED <<phase, table, modified, diskTable>>
      /\ disk' = [disk EXCEPT ![i.cluster] = changed(i)]
      /\ reg' = [reg EXCEPT ![t] = NoReg]
      /\ pc' = [pc EXCEPT ![t] = "idle"] /\ op' = [op EXCEPT ![t] = None]
      /\ because("stalecopy", disk[i.cluster] # i.seen)
  BY DEF PlaceTarget, at, fatVars, goto
<1>1. i \in Images
  BY StateFacts, RegParts
<1> HIDE DEF i
<1>2. disk' \in Disks
  BY <1>0, <1>1, ChangedType
<1>3. damage' \subseteq Causes
  BY <1>0, BecauseType DEF Causes
<1>4. NoReg \in Regs
  BY StateFacts, NoRegType
<1> QED
  BY <1>0, <1>2, <1>3, <1>4, StateFacts, ThreadStep DEF Places

LEMMA PlaceType == ASSUME TypeInv, NEW t \in Threads, Place(t) PROVE TypeInv'
<1> DEFINE i == reg[t].image
           place == afterPlace(t)
           r == IF place = "idle" THEN NoReg ELSE reg[t]
<1>0. /\ pc[t] = "place" /\ UNCHANGED <<phase, table, modified, diskTable>>
      /\ disk' = [disk EXCEPT ![i.cluster] = changed(i)]
      /\ reg' = IF place = "idle" THEN [reg EXCEPT ![t] = NoReg] ELSE reg
      /\ pc' = [pc EXCEPT ![t] = place]
      /\ op' = IF place = "idle" THEN [op EXCEPT ![t] = None] ELSE op
      /\ because("stalecopy", disk[i.cluster] # i.seen)
  BY DEF Place, at, fatVars, goto
<1>1. i \in Images /\ op[t] # None
  BY <1>0, StateFacts, RegParts DEF fits
<1> HIDE DEF i
<1>2. disk' \in Disks
  BY <1>0, <1>1, ChangedType
<1>3. damage' \subseteq Causes
  BY <1>0, BecauseType DEF Causes
<1>4. r \in Regs
  BY StateFacts, NoRegType
<1>5. reg' = [reg EXCEPT ![t] = r]
  BY <1>0, StateFacts
<1>6. /\ place \in {"save", "target", "idle"}
      /\ place = "save" => op[t].kind # "rename"
      /\ place = "target" => op[t].kind = "rename" /\ ~ sameFolder(op[t])
  BY DEF afterPlace
<1> HIDE DEF r, place
<1>7. place # "idle" => fits(place, op[t]) /\ loops(place, op[t], r)
  BY <1>1, <1>6 DEF fits, loops
<1> QED
  BY <1>0, <1>2, <1>3, <1>4, <1>5, <1>6, <1>7, StateFacts, ThreadStep DEF Places

LEMMA SaveType == ASSUME TypeInv, NEW t \in Threads, Save(t) PROVE TypeInv'
<1> DEFINE removing == op[t].kind \in {"unlink", "rmdir"}
           place == IF removing THEN "place" ELSE "idle"
           r == IF removing THEN reg[t] ELSE NoReg
<1>0. /\ pc[t] = "save" /\ UNCHANGED <<phase, table, disk, damage>>
      /\ diskTable' = written(modified) /\ modified' = {}
      /\ reg' = IF removing THEN reg ELSE [reg EXCEPT ![t] = NoReg]
      /\ pc' = [pc EXCEPT ![t] = place]
      /\ op' = IF place = "idle" THEN [op EXCEPT ![t] = None] ELSE op
  BY DEF Save, at, goto
<1>1. Proper(diskTable')
  <2>1. /\ \A c \in Entries : table[c] \in 0 .. Size + 1 /\ diskTable[c] \in 0 .. Size + 1
        /\ \A c \in Entries : table[c] # 1 /\ diskTable[c] # 1
    BY StateFacts DEF Proper, Tables
  <2> QED
    BY <1>0, <2>1 DEF written, Proper, Tables
<1>2. r \in Regs /\ reg' = [reg EXCEPT ![t] = r]
  BY <1>0, StateFacts, NoRegType
<1>3. place # "idle" => fits(place, op[t]) /\ loops(place, op[t], r)
  BY DEF fits, loops, None
<1>4. place \in Places \ {"start"}
  BY DEF Places
<1> HIDE DEF place, r
<1> QED
  BY <1>0, <1>1, <1>2, <1>3, <1>4, StateFacts, ThreadStep

LEMMA BeginType == ASSUME TypeInv, NEW t \in Threads, Begin(t) PROVE TypeInv'
<1>1. PICK o \in OperationsOf[t] : op' = [op EXCEPT ![t] = o]
  BY DEF Begin
<1>2. /\ pc' = [pc EXCEPT ![t] = "start"]
      /\ UNCHANGED <<phase, table, modified, diskTable, disk, reg, damage>>
  BY DEF Begin, fatVars
<1>3. o \in Operations /\ o # None
  <2>1. OperationsOf[t] \subseteq Calls
    BY FileSystemAssumption
  <2> QED
    BY <1>1, <2>1 DEF Operations, Calls, None
<1>4. \A u \in Threads : fits(pc'[u], op'[u]) /\ loops(pc'[u], op'[u], reg'[u])
  <2>1. /\ pc'[t] = "start" /\ op'[t] = o
        /\ \A u \in Threads : u # t => pc'[u] = pc[u] /\ op'[u] = op[u]
    BY <1>1, <1>2, StateFacts
  <2>2. fits("start", o) /\ loops("start", o, reg[t])
    BY <1>3 DEF fits, loops
  <2> QED
    BY <1>2, <2>1, <2>2, StateFacts
<1>5. (\A u \in Threads : fits(pc[u], op[u]) /\ loops(pc[u], op[u], reg[u]))'
  BY <1>4 DEF fits, loops
<1>6. TypeOK'
  BY <1>1, <1>2, <1>3 DEF TypeInv, TypeOK, Places
<1> QED
  BY <1>2, <1>5, <1>6 DEF TypeInv

LEMMA StopType == ASSUME TypeInv, Stop PROVE TypeInv'
<1>1. /\ phase' = "down" /\ table' = diskTable /\ modified' = {}
      /\ pc' = [t \in Threads |-> "idle"] /\ op' = [t \in Threads |-> None]
      /\ reg' = [t \in Threads |-> NoReg] /\ UNCHANGED <<diskTable, disk>>
  BY DEF Stop
<1>2. damage' \subseteq Causes
  BY BecauseType DEF Stop, Causes
<1>3. NoReg \in Regs
  BY StateFacts, NoRegType
<1>4. TypeOK'
  BY <1>1, <1>2, <1>3, StateFacts DEF TypeInv, TypeOK, Proper, Places
<1>5. ASSUME NEW u \in Threads PROVE fits(pc'[u], op'[u]) /\ loops(pc'[u], op'[u], reg'[u])
  BY <1>1 DEF fits, loops
<1>6. (\A u \in Threads : fits(pc[u], op[u]) /\ loops(pc[u], op[u], reg[u]))'
  BY <1>5 DEF fits, loops
<1> QED
  BY <1>1, <1>4, <1>6, StateFacts DEF TypeInv

LEMMA InitType == Init => TypeInv
<1> SUFFICES ASSUME Init PROVE TypeInv
  OBVIOUS
<1>1. Proper(table)
  BY FatAssumption DEF Init, Proper, Tables, Entries, Media, EOC
<1>2. disk \in Disks
  BY FileSystemAssumption, SlotFacts DEF Init, Disks
<1>3. NoReg \in Regs
  BY <1>2, NoRegType
<1>4. TypeOK
  BY <1>1, <1>2, <1>3 DEF Init, TypeOK, Proper, Places, Disks
<1>5. ASSUME NEW u \in Threads PROVE fits(pc[u], op[u]) /\ loops(pc[u], op[u], reg[u])
  BY DEF Init, fits, loops
<1> QED
  BY <1>1, <1>4, <1>5 DEF Init, TypeInv

LEMMA NextType == TypeInv /\ [Next]_vars => TypeInv'
<1> SUFFICES ASSUME TypeInv, [Next]_vars PROVE TypeInv'
  OBVIOUS
<1>1. ASSUME Mount PROVE TypeInv'
  BY <1>1 DEF Mount, fatVars, TypeInv, TypeOK, fits, loops
<1>2. ASSUME UNCHANGED vars PROVE TypeInv'
  BY <1>2 DEF vars, TypeInv, TypeOK, fits, loops
<1>3. ASSUME Crash \/ \E t \in Threads : Die(t) PROVE TypeInv'
  BY <1>3, StopType DEF Crash, Die
<1> QED
  BY <1>1, <1>2, <1>3, BeginType, MkSearchType, MkLinkType, FindFreeType, UseFreeType,
     MkDotsType, TruncateStartType, ShrinkType, ClearType, ExtendType, ClearTailType,
     RereadType, RemoveStartType, FreeOneType, RenameNothingType, RenameStartType,
     PlaceTargetType, PlaceType, SaveType DEF Next

\* The table holds links and end marks only, whatever operations overlap and
\* wherever the process dies, and directory clusters hold slots: no step of
\* tad_fat.c or pfs_fat32.c follows or stores an entry beyond the table.
THEOREM TypeCorrect == Spec => []TypeOK
<1>1. TypeInv => TypeOK
  BY DEF TypeInv
<1> QED
  BY InitType, NextType, <1>1, PTL DEF Spec

-----------------------------------------------------------------------------
(* The tree: what holds of it in every state, while operations are half    *)
(* done as well, which strengthens ChainsSound, SizesMatch, NothingLost and *)
(* MediaKept.  A view of the tree says which paths are nodes of it, where  *)
(* their entries are and which clusters they own.  Sound relates a view to *)
(* the table, the clusters and the local variables of the threads.         *)

Paths == Seq(Names)

\* A view of the tree:
\*   dirs, files   paths of the directories and of the files,
\*   doomed        of what an unlink or rmdir is removing,
\*   held          of the files whose clusters a truncate is changing,
\*   carried       of what owns clusters but has no entry: a directory that a
\*                 mkdir has not placed, a file on its way to another directory,
\*   spot          the cluster and the slot with the entry of a path,
\*   chain         the clusters a path owns.
nodes(v) == v.dirs \cup v.files \cup v.doomed
absent(v, p) == p \notin nodes(v) \cup v.carried
entryOf(content, v, p) == content[v.spot[p][1]][v.spot[p][2]]

onChain(c, s) == \E k \in 1 .. Len(s) : s[k] = c
headOf(s) == IF s = <<>> THEN 0 ELSE s[1]

\* The entry and the clusters of a file agree.
owns(e, s) == e.first = headOf(s) /\ Len(s) = clustersFor(e.size)

-----------------------------------------------------------------------------
\* Each path owns a chain of the table or nothing, and no cluster is owned twice.
ChainsOf(tab, v) ==
    /\ tab[0] = Media
    /\ \A p \in Paths : v.chain[p] = <<>> \/ isChain(v.chain[p], tab)
    /\ \A p, q \in Paths :
         \A i \in 1 .. Len(v.chain[p]), j \in 1 .. Len(v.chain[q]) :
            v.chain[p][i] = v.chain[q][j] => p = q /\ i = j

\* Nodes are in directories, and only nodes and what is carried own clusters.
NodesOf(v) ==
    /\ nodes(v) \cup v.carried \subseteq Paths
    /\ v.dirs \cap v.files = {} /\ v.dirs \cap v.doomed = {} /\ v.files \cap v.doomed = {}
    /\ v.carried \cap nodes(v) = {} /\ v.held \subseteq v.files
    /\ <<>> \in v.dirs /\ v.chain[<<>>] # <<>> /\ v.chain[<<>>][1] = 2
    /\ \A p \in nodes(v) : p # <<>> => parent(p) \in v.dirs
    /\ \A p \in Paths : absent(v, p) => v.chain[p] = <<>>

\* The entry of a node is where the view says, and can be seen there.
EntriesOf(content, v) ==
    /\ \A p \in nodes(v) : p # <<>> =>
         /\ onChain(v.spot[p][1], v.chain[parent(p)])
         /\ v.spot[p][2] \in interpret(content[v.spot[p][1]])
         /\ entryOf(content, v, p).name = lastOf(p)
    /\ \A p \in v.dirs : p # <<>> =>
         /\ entryOf(content, v, p).kind = "dir" /\ v.chain[p] # <<>>
         /\ entryOf(content, v, p).first = v.chain[p][1]
    /\ \A p \in v.files :
         /\ entryOf(content, v, p).kind = "file"
         /\ p \notin v.held => owns(entryOf(content, v, p), v.chain[p])

\* A directory has no entry but those of nodes.
isOfNode(content, v, d, c, i) ==
    LET p == Append(d, content[c][i].name)
    IN  p \in nodes(v) /\ v.spot[p] = <<c, i>>

NoOthers(content, v) ==
    \A d \in v.dirs, c \in Clusters, i \in 1 .. SlotCount :
        onChain(c, v.chain[d]) /\ content[c][i].kind \in {"file", "dir"} =>
            isOfNode(content, v, d, c, i)

-----------------------------------------------------------------------------
(* What a thread knows where it is: a place, its operation o and its local *)
(* variables r.                                                            *)

isAt(i, v, p) == v.spot[p][1] = i.cluster /\ v.spot[p][2] = i.slot

\* The slot of an image is one an entry of the directory may go into.
room(i, v, d) ==
    /\ onChain(i.cluster, v.chain[d])
    /\ i.slot \in 1 .. SlotCount /\ i.seen[i.slot].kind \notin {"file", "dir"}
    /\ \A j \in 1 .. i.slot - 1 : i.seen[j].kind # "end"

Making(place, o, r, content, v) ==
    LET kind == IF o.kind = "mkdir" THEN "dir" ELSE "file"
        owner == o.kind = "mkdir" /\ place \in {"dots", "place"}
    IN  place # "save" =>
          /\ parent(o.path) \in v.dirs
          /\ IF owner THEN o.path \in v.carried /\ v.chain[o.path] = <<r.free>>
             ELSE absent(v, o.path)
          /\ place # "start" =>
                r.image.put = slot(kind, lastOf(o.path), IF owner THEN r.free ELSE 0, 0)
          /\ place \notin {"start", "link"} => room(r.image, v, parent(o.path))
          /\ place = "use" => r.free # 0
          /\ owner /\ place = "place" => ~ showsOld(content[r.free])

Truncating(place, o, r, v) ==
    LET s == v.chain[o.path]
        wanted == clustersFor(o.size)
    IN  /\ o.path \in v.files
        /\ o.path \in v.held <=> place \notin {"start", "save"}
        /\ o.path \in v.held =>
              /\ isAt(r.image, v, o.path)
              /\ r.image.put.kind = "file" /\ r.image.put.name = lastOf(o.path)
        /\ place \in {"find", "use"} => s = <<>> /\ r.count = wanted
        /\ place = "use" => r.free # 0
        /\ place \in {"clear", "extend", "shrink", "tail"} =>
              s # <<>> /\ r.image.put.first = s[1]
        /\ place = "clear" => onChain(r.free, s) /\ Len(s) + r.count = wanted + 1
        /\ place = "extend" => Len(s) + r.count = wanted
        /\ place = "shrink" => Len(s) = wanted + r.count
        /\ place \in {"tail", "reread", "place"} => Len(s) = wanted
        /\ place \in {"reread", "place"} => r.image.put.first = headOf(s)
        /\ place = "place" => r.image.put.size = o.size

Removing(place, o, r, v) ==
    IF place = "start"
    THEN IF o.kind = "rmdir" THEN o.path \in v.dirs ELSE o.path \in v.files \ v.held
    ELSE /\ o.path \in v.doomed /\ isAt(r.image, v, o.path) /\ r.image.put = Deleted
         /\ v.chain[o.path] = IF place = "free" THEN r.clusters ELSE <<>>

\* The entry a rename writes.
renames(put, o, v) ==
    put.kind = "file" /\ put.name = lastOf(o.to) /\ owns(put, v.chain[o.path])

Renaming(place, o, r, v) ==
    /\ parent(o.to) \in v.dirs
    /\ IF place = "target" THEN o.path \in v.carried ELSE o.path \in v.files \ v.held
    /\ place # "start" =>
         /\ absent(v, o.to)
         /\ place = "place" => isAt(r.image, v, o.path)
         /\ IF sameFolder(o) THEN renames(r.image.put, o, v)
            ELSE /\ place = "place" => r.image.put = Deleted
                 /\ renames(r.target.put, o, v)
                 /\ r.target.slot = 0 \/ room(r.target, v, parent(o.to))

Doing(place, o, r, content, v) ==
    /\ o.kind \in {"create", "mkdir"} => Making(place, o, r, content, v)
    /\ o.kind = "truncate" => Truncating(place, o, r, v)
    /\ o.kind \in {"unlink", "rmdir"} => Removing(place, o, r, v)
    /\ o.kind = "rename" => Renaming(place, o, r, v)

\* A cluster in use belongs to some path.
Covers(tab, v) ==
    \A c \in Clusters : tab[c] # 0 => \E p \in Paths : onChain(c, v.chain[p])

\* What is held, doomed or carried is so by an operation under way.
busy(place, o) ==
    place \notin {"idle", "start"} /\ (place = "save" => o.kind \in {"unlink", "rmdir"})
isBy(places, ops, kinds, p) ==
    \E t \in Threads : ops[t].kind \in kinds /\ ops[t].path = p /\ busy(places[t], ops[t])
Holders(places, ops, v) ==
    /\ \A p \in v.held : isBy(places, ops, {"truncate"}, p)
    /\ \A p \in v.doomed : isBy(places, ops, {"unlink", "rmdir"}, p)
    /\ \A p \in v.carried : isBy(places, ops, {"mkdir", "rename"}, p)

Sound(tab, content, places, ops, regs, v) ==
    /\ ChainsOf(tab, v) /\ NodesOf(v) /\ EntriesOf(content, v) /\ NoOthers(content, v)
    /\ Holders(places, ops, v)
    /\ \A t \in Threads : Doing(places[t], ops[t], regs[t], content, v)

\* A directory removed with entries in it, or a dropped one, loses clusters only.
calm == damage \subseteq {"orphans", "dropped"}

\* No two operations under way exclude each other.
Exclusive == \A t, u \in Threads : t # u => ~ excludes(op[t], op[u])

\* A rename that found the directory it goes to full loses the file.
Dropping ==
    \A t \in Threads :
        /\ op[t].kind = "rename" /\ ~ sameFolder(op[t])
        /\ pc[t] \in {"place", "target"} /\ reg[t].target.slot = 0
        => "dropped" \in damage

isViewed(v) ==
    Sound(table, disk, pc, op, reg, v) /\ (damage = {} => Covers(table, v))

-----------------------------------------------------------------------------
(* Paths.                                                                   *)

LEMMA AppendPath ==
    ASSUME NEW p \in Paths, NEW n \in Names
    PROVE  /\ Append(p, n) \in Paths /\ Append(p, n) # <<>>
           /\ parent(Append(p, n)) = p /\ lastOf(Append(p, n)) = n
<1> DEFINE q == Append(p, n)
           k == Len(p)
<1>1. /\ q \in Seq(Names) /\ q # <<>> /\ Len(q) = k + 1 /\ k \in Nat
      /\ \A i \in 1 .. k : q[i] = p[i]
      /\ q[k + 1] = n
  BY AppendProperties DEF Paths
<1> HIDE DEF q
<1>2. /\ parent(q) \in Seq(Names) /\ Len(parent(q)) = Len(q) - 1
      /\ \A i \in 1 .. Len(q) - 1 : parent(q)[i] = q[i]
  BY <1>1, ParentType
<1>3. Len(parent(q)) = Len(p) /\ \A i \in 1 .. Len(parent(q)) : parent(q)[i] = p[i]
  BY <1>1, <1>2 DEF k
<1>4. parent(q) = p
  BY <1>2, <1>3, SeqEqual DEF Paths
<1> QED
  BY <1>1, <1>4 DEF q, lastOf, Paths

LEMMA SplitPath ==
    ASSUME NEW p \in Paths, p # <<>>
    PROVE  /\ parent(p) \in Paths /\ lastOf(p) \in Names
           /\ p = Append(parent(p), lastOf(p))
<1>1. PICK q \in Seq(Names), n \in Names : p = Append(q, n)
  BY SequenceEmptyOrAppend DEF Paths
<1>2. parent(p) = q /\ lastOf(p) = n
  BY <1>1, AppendPath DEF Paths
<1> QED
  BY <1>1, <1>2 DEF Paths

\* Equal directory and name: the same path.
LEMMA SamePath ==
    ASSUME NEW p \in Paths, NEW q \in Paths, p # <<>>, q # <<>>,
           parent(p) = parent(q), lastOf(p) = lastOf(q)
    PROVE  p = q
  BY SplitPath

LEMMA PrefixFacts ==
    ASSUME NEW p \in Paths, p # <<>>
    PROVE  prefixes(p) = prefixes(parent(p)) \cup {p}
<1> DEFINE n == Len(p)
<1>1. n \in Nat \ {0} /\ Len(parent(p)) = n - 1 /\ parent(p) = SubSeq(p, 1, n - 1)
  BY ParentType DEF Paths, parent
<1>2. p = SubSeq(p, 1, n)
  BY SubSeqFull DEF Paths
<1>3. p \in prefixes(p)
  <2>1. n \in 1 .. Len(p) /\ SubSeq(p, 1, n) \in prefixes(p)
    BY <1>1 DEF prefixes
  <2> QED
    BY <1>2, <2>1
<1>4. ASSUME NEW k \in 1 .. n - 1
      PROVE  SubSeq(parent(p), 1, k) = SubSeq(p, 1, k)
  <2>1. k \in Nat /\ n - 1 \in Int /\ k \in Int /\ 1 \in Int
    BY <1>1
  <2>2. /\ SubSeq(p, 1, k) \in Seq(Names) /\ Len(SubSeq(p, 1, k)) = k
        /\ \A i \in 1 .. k : SubSeq(p, 1, k)[i] = p[i]
    <3>1. \A i \in 1 .. k : p[i] \in Names
      BY <1>1, <2>1 DEF Paths
    <3> QED
      BY <2>1, <3>1, SubSeqProperties
  <2>3. /\ SubSeq(parent(p), 1, k) \in Seq(Names) /\ Len(SubSeq(parent(p), 1, k)) = k
        /\ \A i \in 1 .. k : SubSeq(parent(p), 1, k)[i] = parent(p)[i]
    <3>1. \A i \in 1 .. k : parent(p)[i] \in Names
      BY <1>1, <2>1, ParentType DEF Paths
    <3> QED
      BY <2>1, <3>1, SubSeqProperties
  <2>4. \A i \in 1 .. k : parent(p)[i] = p[i]
    BY <1>1, <2>1, ParentType DEF Paths
  <2> QED
    BY <2>2, <2>3, <2>4, SeqEqual
<1>5. ASSUME NEW q \in prefixes(parent(p))
      PROVE  q \in prefixes(p)
  <2>1. PICK k \in 1 .. n - 1 : q = SubSeq(parent(p), 1, k)
    BY <1>1 DEF prefixes
  <2>2. q = SubSeq(p, 1, k) /\ k \in 1 .. n
    BY <1>1, <1>4, <2>1
  <2> QED
    BY <2>2 DEF prefixes
<1>6. ASSUME NEW q \in prefixes(p), q # p
      PROVE  q \in prefixes(parent(p))
  <2>1. PICK k \in 1 .. n : q = SubSeq(p, 1, k)
    BY DEF prefixes
  <2>2. k # n
    <3> DEFINE start(m) == SubSeq(p, 1, m)
    <3>1. p = start(n) /\ q = start(k)
      BY <1>2, <2>1
    <3> HIDE DEF start
    <3> QED
      BY <1>6, <3>1
  <2>3. k \in 1 .. n - 1
    BY <1>1, <2>1, <2>2
  <2>4. q = SubSeq(parent(p), 1, k) /\ k \in 1 .. Len(parent(p))
    BY <1>1, <1>4, <2>1, <2>3
  <2> QED
    BY <2>4 DEF prefixes
<1> QED
  BY <1>3, <1>5, <1>6

-----------------------------------------------------------------------------
(* Looking up a path finds the node it names.                               *)

hitOf(content, v, p) ==
    [cluster |-> v.spot[p][1], slot |-> v.spot[p][2], entry |-> entryOf(content, v, p)]

LEMMA ChainOfPath ==
    ASSUME NEW tab, Proper(tab), NEW v, ChainsOf(tab, v), NEW p \in Paths, v.chain[p] # <<>>
    PROVE  /\ isChain(v.chain[p], tab) /\ distinct(v.chain[p])
           /\ v.chain[p] \in Seq(Clusters) /\ Len(v.chain[p]) \in 1 .. Size
           /\ v.chain[p][1] \in Clusters /\ v.chain[p][1] \in Links
           /\ linked(tab, v.chain[p][1]) = v.chain[p]
           /\ walk(tab, v.chain[p][1]) = v.chain[p]
<1> DEFINE s == v.chain[p]
<1>1. isChain(s, tab)
  BY DEF ChainsOf
<1>2. \A i, j \in 1 .. Len(s) : s[i] = s[j] => i = j
  BY DEF ChainsOf
<1>3. s \in Seq(Clusters) /\ Len(s) \in 1 .. Size
  BY <1>1 DEF isChain
<1> HIDE DEF s
<1>4. tab \in Tables
  BY DEF Proper
<1>5. Len(s) \in Nat /\ 1 \in 1 .. Len(s)
  BY <1>3
<1>6. s[1] \in Clusters
  BY <1>1, <1>4, <1>5, ChainFacts
<1>7. distinct(s)
  BY <1>2 DEF distinct
<1>8. linked(tab, s[1]) = s /\ walk(tab, s[1]) = s
  BY <1>1, <1>4, LinkedOfChain, WalkOfChain
<1> QED
  BY <1>1, <1>3, <1>6, <1>7, <1>8, LinkFacts DEF s

LEMMA FindInFolder ==
    ASSUME NEW tab, Proper(tab), NEW content, NEW v, ChainsOf(tab, v), NodesOf(v),
           EntriesOf(content, v), NoOthers(content, v),
           NEW d \in v.dirs, NEW name \in Names
    PROVE  entryIn(tab, content, v.chain[d][1], name) =
               IF Append(d, name) \in nodes(v) THEN hitOf(content, v, Append(d, name))
               ELSE NotFound
<1> DEFINE s == v.chain[d]
           q == Append(d, name)
           hit == entryIn(tab, content, v.chain[d][1], name)
<1>1. d \in Paths
  BY DEF NodesOf, nodes
<1>2. s # <<>>
  BY DEF NodesOf, EntriesOf
<1>3. linked(tab, s[1]) = s /\ s[1] \in Links /\ s \in Seq(Clusters)
  BY <1>1, <1>2, ChainOfPath
<1>4. isFirst(hit, content, s, name)
  BY <1>3, FirstNamed
<1>5. q # <<>> /\ parent(q) = d /\ lastOf(q) = name
  BY <1>1, AppendPath
<1> HIDE DEF s, hit, q
<1>6. ASSUME NEW k, NEW i, named(content, s, name, k, i)
      PROVE  /\ q \in nodes(v) /\ v.spot[q] = <<s[k], i>>
             /\ hitOf(content, v, q) =
                    [cluster |-> s[k], slot |-> i, entry |-> content[s[k]][i]]
  <2>1. k \in 1 .. Len(s) /\ i \in 1 .. SlotCount
    BY <1>3, <1>6 DEF named
  <2>2. content[s[k]][i].kind \in {"file", "dir"} /\ content[s[k]][i].name = name
    BY <1>6 DEF named, interpret
  <2>3. q \in nodes(v) /\ v.spot[q] = <<s[k], i>>
    <3> DEFINE c == s[k]
    <3>1. c \in Clusters /\ onChain(c, v.chain[d])
      BY <1>3, <2>1 DEF onChain, s
    <3> HIDE DEF c
    <3>2. isOfNode(content, v, d, c, i)
      BY <2>1, <2>2, <3>1 DEF NoOthers, c
    <3> QED
      BY <2>2, <3>2 DEF isOfNode, q, c
  <2> QED
    BY <2>3 DEF hitOf, entryOf
<1>7. ASSUME q \in nodes(v)
      PROVE  \E k, i : named(content, s, name, k, i)
  <2> DEFINE c == v.spot[q][1]
             i == v.spot[q][2]
  <2>1. onChain(c, s) /\ i \in interpret(content[c]) /\ content[c][i].name = name
    BY <1>5, <1>7 DEF EntriesOf, entryOf, s
  <2>2. PICK k \in 1 .. Len(s) : s[k] = c
    BY <2>1 DEF onChain
  <2> HIDE DEF c, i
  <2>3. k \in DOMAIN s /\ i \in 1 .. SlotCount
    BY <1>3, <2>1 DEF interpret
  <2>4. named(content, s, name, k, i)
    BY <2>1, <2>2, <2>3 DEF named
  <2> QED
    BY <2>4
<1>8. CASE hit = NotFound /\ \A k, i : ~ named(content, s, name, k, i)
  BY <1>7, <1>8 DEF hit, q
<1>9. CASE \E k, i : /\ named(content, s, name, k, i)
                     /\ hit = [cluster |-> s[k], slot |-> i, entry |-> content[s[k]][i]]
  BY <1>6, <1>9 DEF hit, q
<1> QED
  BY <1>4, <1>8, <1>9 DEF isFirst

\* What a lookup of a path must give.
answer(content, v, p) ==
    IF p = <<>> THEN Root ELSE IF p \in nodes(v) THEN hitOf(content, v, p) ELSE NotFound

\* One name further; what is being removed is no way to anything.
LEMMA LookFurther ==
    ASSUME NEW tab, Proper(tab), NEW content, NEW v, ChainsOf(tab, v), NodesOf(v),
           EntriesOf(content, v), NoOthers(content, v),
           NEW p \in Paths, p \notin v.doomed, NEW name \in Names
    PROVE  look(tab, content, answer(content, v, p), name) = answer(content, v, Append(p, name))
<1> DEFINE q == Append(p, name)
           hit == answer(content, v, p)
<1>1. q \in Paths /\ q # <<>> /\ parent(q) = p /\ lastOf(q) = name
  BY AppendPath
<1>2. answer(content, v, q) = IF q \in nodes(v) THEN hitOf(content, v, q) ELSE NotFound
  BY <1>1 DEF answer
<1>3. CASE p \in v.dirs
  <2>1. hit.entry.kind = "dir" /\ hit.entry.first = v.chain[p][1]
    <3>1. CASE p = <<>>
      BY <3>1 DEF answer, Root, slot, NodesOf
    <3>2. CASE p # <<>>
      <4>1. p \in nodes(v) /\ hit = hitOf(content, v, p)
        BY <1>3, <3>2 DEF answer, nodes
      <4>2. hit.entry = entryOf(content, v, p)
        BY <4>1 DEF hitOf
      <4> QED
        BY <1>3, <3>2, <4>2 DEF EntriesOf
    <3> QED
      BY <3>1, <3>2
  <2>2. look(tab, content, hit, name) = entryIn(tab, content, v.chain[p][1], name)
    BY <2>1 DEF look
  <2> QED
    BY <1>2, <1>3, <2>2, FindInFolder
<1>4. CASE p \notin v.dirs
  <2>1. q \notin nodes(v)
    BY <1>1, <1>4 DEF NodesOf
  <2>2. hit.entry.kind # "dir"
    <3>1. p # <<>>
      BY <1>4 DEF NodesOf
    <3>2. CASE p \in v.files
      <4>1. hit.entry = entryOf(content, v, p)
        BY <3>1, <3>2 DEF answer, hitOf, nodes
      <4>2. entryOf(content, v, p).kind = "file"
        BY <3>2 DEF EntriesOf
      <4> QED
        BY <4>1, <4>2
    <3>3. CASE p \notin v.files
      <4>1. hit = NotFound
        BY <1>4, <3>1, <3>3 DEF answer, nodes
      <4>2. hit.entry.kind = "end"
        BY <4>1 DEF NotFound, End, slot
      <4> QED
        BY <4>2
    <3> QED
      BY <3>2, <3>3
  <2> QED
    BY <1>2, <2>1, <2>2 DEF look
<1> QED
  BY <1>3, <1>4

LEMMA FindNode ==
    ASSUME NEW tab, Proper(tab), NEW content \in Disks, NEW v, ChainsOf(tab, v), NodesOf(v),
           EntriesOf(content, v), NoOthers(content, v),
           NEW path \in Paths, \A q \in prefixes(path) : q \notin v.doomed
    PROVE  entryAt(tab, content, path) = answer(content, v, path)
<1> DEFINE m == Len(path)
           upTo(n) == SubSeq(path, 1, n)
<1>1. PICK f : isPath(f, tab, content, path) /\ entryAt(tab, content, path) = f[m]
  BY EntryAtIsPath DEF Paths
<1>2. m \in Nat /\ 0 \in 0 .. m /\ m \in 0 .. m /\ \A i \in 1 .. m : path[i] \in Names
  BY DEF Paths
<1> DEFINE S == {n \in 0 .. m : f[n] = answer(content, v, upTo(n))}
<1>3. 0 \in S
  <2>1. upTo(0) = <<>>
    BY SubSeqEmpty
  <2>2. f[0] = Root
    BY <1>1 DEF isPath
  <2> QED
    BY <1>2, <2>1, <2>2 DEF answer
<1>4. ASSUME NEW n \in 0 .. m - 1, n \in S PROVE n + 1 \in S
  <2>1. n + 1 \in 1 .. m /\ n + 1 \in 0 .. m /\ (n + 1) - 1 = n /\ n \in Nat /\ n \in Int
        /\ n \in 0 .. m
    BY <1>2
  <2>2. f[n + 1] = look(tab, content, f[n], path[n + 1])
    BY <1>1, <2>1 DEF isPath
  <2>3. /\ upTo(n) \in Paths /\ Len(upTo(n)) = n
        /\ \A i \in 1 .. n : upTo(n)[i] = path[i]
    <3>1. \A i \in 1 .. n : path[i] \in Names
      BY <1>2, <2>1
    <3>2. /\ SubSeq(path, 1, n) \in Seq(Names)
          /\ Len(SubSeq(path, 1, n)) = IF 1 <= n THEN n - 1 + 1 ELSE 0
          /\ \A i \in 1 .. n - 1 + 1 : SubSeq(path, 1, n)[i] = path[1 + i - 1]
      BY <2>1, <3>1, SubSeqProperties
    <3>3. Len(SubSeq(path, 1, n)) = n /\ \A i \in 1 .. n : SubSeq(path, 1, n)[i] = path[i]
      BY <2>1, <3>2
    <3> QED
      BY <3>2, <3>3 DEF Paths
  <2>4. upTo(n) \notin v.doomed
    <3>1. CASE n = 0
      <4>1. upTo(n) = <<>>
        BY <3>1, SubSeqEmpty
      <4> QED
        BY <4>1 DEF NodesOf
    <3>2. CASE n # 0
      <4>1. n \in 1 .. Len(path)
        BY <2>1, <3>2, <1>2
      <4> QED
        BY <4>1 DEF prefixes
    <3> QED
      BY <3>1, <3>2
  <2>5. upTo(n + 1) = Append(upTo(n), path[n + 1])
    <3>1. n + 1 \in 1 .. Len(path) /\ 1 \in 1 .. Len(path) /\ n + 1 \in 1 .. Len(path)
      BY <1>2, <2>1
    <3>2. path \in Seq(Names)
      BY DEF Paths
    <3>3. SubSeq(path, 1, n + 1) = SubSeq(path, 1, (n + 1) - 1) \o << path[n + 1] >>
      BY <3>1, <3>2, SubSeqRecursiveSecond
    <3>4. path[n + 1] \in Names /\ upTo(n) \in Seq(Names)
      BY <1>2, <2>3, <3>1 DEF Paths
    <3>5. Append(upTo(n), path[n + 1]) = upTo(n) \o << path[n + 1] >>
      BY <3>4, AppendIsConcat
    <3> QED
      BY <2>1, <3>3, <3>5
  <2>6. path[n + 1] \in Names
    BY <1>2, <2>1
  <2>7. f[n] = answer(content, v, upTo(n))
    BY <1>4
  <2>8. look(tab, content, answer(content, v, upTo(n)), path[n + 1]) =
            answer(content, v, Append(upTo(n), path[n + 1]))
    <3> DEFINE p == upTo(n)
               name == path[n + 1]
    <3>1. p \in Paths /\ p \notin v.doomed /\ name \in Names
      BY <2>3, <2>4, <2>6
    <3> HIDE DEF p, name
    <3>2. look(tab, content, answer(content, v, p), name) = answer(content, v, Append(p, name))
      BY <3>1, LookFurther
    <3> QED
      BY <3>2 DEF p, name
  <2>9. f[n + 1] = answer(content, v, upTo(n + 1))
    BY <2>2, <2>5, <2>7, <2>8
  <2> QED
    BY <2>1, <2>9
<1>5. m \in S
  <2> HIDE DEF S
  <2>1. S = S /\ \A n \in 0 .. m - 1 : n \in S => n + 1 \in S
    BY <1>4
  <2>2. 0 .. m \subseteq S
    BY <1>2, <1>3, <2>1, UpTo
  <2> QED
    BY <1>2, <2>2
<1>6. upTo(m) = path
  BY SubSeqFull DEF Paths
<1> QED
  BY <1>1, <1>5, <1>6

-----------------------------------------------------------------------------
(* What the operations of the table do to the chains of a view.             *)

LEMMA ShortChain ==
    ASSUME NEW s \in Seq(Clusters), distinct(s)
    PROVE  Len(s) < Size
<1> DEFINE n == Len(s)
           f == [i \in 1 .. n |-> s[i]]
<1>1. n \in Nat /\ Size \in Nat /\ Size > 2 /\ 1 \in Int /\ n \in Int /\ 2 \in Int /\ Size - 1 \in Int
  BY FatAssumption
<1>2. IsFiniteSet(1 .. n) /\ Cardinality(1 .. n) = IF 1 > n THEN 0 ELSE n - 1 + 1
  BY <1>1, FS_Interval
<1>3. IsFiniteSet(Clusters) /\ Cardinality(Clusters) = IF 2 > Size - 1 THEN 0 ELSE Size - 1 - 2 + 1
  BY <1>1, FS_Interval DEF Clusters
<1>4. f \in Injection(1 .. n, Clusters)
  <2>1. \A i \in 1 .. n : s[i] \in Clusters
    OBVIOUS
  <2>2. \A i, j \in 1 .. n : s[i] = s[j] => i = j
    BY DEF distinct
  <2> HIDE DEF n
  <2>3. f \in [1 .. n -> Clusters]
    BY <2>1
  <2>4. \A i, j \in 1 .. n : f[i] = f[j] => i = j
    BY <2>2
  <2> HIDE DEF f
  <2> QED
    BY <2>3, <2>4 DEF Injection, IsInjective
<1> HIDE DEF f
<1>5. Cardinality(1 .. n) <= Cardinality(Clusters)
  BY <1>3, <1>4, FS_Injection
<1>6. Cardinality(1 .. n) = n
  BY <1>1, <1>2
<1>7. Cardinality(Clusters) = Size - 2
  BY <1>1, <1>3
<1> HIDE DEF n
<1> QED
  BY <1>1, <1>5, <1>6, <1>7 DEF n

\* A chain of which no entry changes stays one.
LEMMA KeepChain ==
    ASSUME NEW tab, NEW tab2, NEW s, isChain(s, tab),
           \A c \in Clusters : onChain(c, s) => tab2[c] = tab[c]
    PROVE  isChain(s, tab2)
<1>1. s \in Seq(Clusters) /\ Len(s) \in 1 .. Size /\ Len(s) \in Nat
  BY FatAssumption DEF isChain
<1>2. \A i \in 1 .. Len(s) : s[i] \in Clusters /\ tab2[s[i]] = tab[s[i]]
  BY <1>1 DEF onChain
<1>3. Len(s) \in 1 .. Len(s) /\ \A i \in 1 .. Len(s) - 1 : i \in 1 .. Len(s)
  BY <1>1
<1> QED
  BY <1>1, <1>2, <1>3 DEF isChain

\* No two paths own a cluster, and what they own is used.
LEMMA OneOwner ==
    ASSUME NEW tab, NEW v, ChainsOf(tab, v), NEW p \in Paths, NEW q \in Paths, NEW c,
           onChain(c, v.chain[p]), onChain(c, v.chain[q])
    PROVE  p = q
  BY DEF ChainsOf, onChain

LEMMA OwnedIsUsed ==
    ASSUME NEW tab, Proper(tab), NEW v, ChainsOf(tab, v), NEW p \in Paths, NEW c,
           onChain(c, v.chain[p])
    PROVE  c \in Clusters /\ tab[c] # 0
<1>1. v.chain[p] # <<>>
  BY DEF onChain
<1>2. isChain(v.chain[p], tab) /\ tab \in Tables
  BY <1>1 DEF ChainsOf, Proper
<1> QED
  BY <1>2, ChainFacts DEF onChain

\* One path gets another chain, in a table that only its entries change.
LEMMA ChangeChain ==
    ASSUME NEW tab, Proper(tab), NEW tab2, NEW v, ChainsOf(tab, v), NEW p \in Paths, NEW s, NEW w,
           \A q \in Paths : w.chain[q] = IF q = p THEN s ELSE v.chain[q],
           s = <<>> \/ isChain(s, tab2), distinct(s), tab2[0] = tab[0],
           \A c \in Clusters : tab2[c] # tab[c] => onChain(c, v.chain[p]) \/ onChain(c, s),
           \A q \in Paths : q # p => \A c \in Clusters : onChain(c, s) => ~ onChain(c, v.chain[q]),
           \A c \in Clusters : onChain(c, v.chain[p]) => onChain(c, s) \/ tab2[c] = 0
    PROVE  /\ ChainsOf(tab2, w)
           /\ Covers(tab, v) => Covers(tab2, w)
<1>1. tab2[0] = Media
  BY DEF ChainsOf
<1>2. ASSUME NEW q \in Paths PROVE w.chain[q] = <<>> \/ isChain(w.chain[q], tab2)
  <2>1. CASE q = p
    BY <2>1
  <2>2. CASE q # p /\ v.chain[q] # <<>>
    <3>1. isChain(v.chain[q], tab)
      BY <2>2 DEF ChainsOf
    <3>2. \A c \in Clusters : onChain(c, v.chain[q]) => tab2[c] = tab[c]
      BY <2>2, OneOwner
    <3> QED
      BY <2>2, <3>1, <3>2, KeepChain
  <2> QED
    BY <2>1, <2>2
<1>3. ASSUME NEW q \in Paths, NEW r \in Paths, NEW i \in 1 .. Len(w.chain[q]),
             NEW j \in 1 .. Len(w.chain[r]), w.chain[q][i] = w.chain[r][j]
      PROVE  q = r /\ i = j
  <2>1. \A k \in 1 .. Len(s) : s[k] \in Clusters /\ onChain(s[k], s)
    <3>1. CASE s = <<>>
      BY <3>1
    <3>2. CASE s # <<>>
      <4>1. s \in Seq(Clusters)
        BY <3>2 DEF isChain
      <4> QED
        BY <4>1 DEF onChain
    <3> QED
      BY <3>1, <3>2
  <2>2. CASE q = p /\ r = p
    BY <1>3, <2>2 DEF distinct
  <2>3. CASE q # p /\ r # p
    BY <1>3, <2>3 DEF ChainsOf
  <2>4. CASE q = p /\ r # p
    <3>1. onChain(s[i], s) /\ onChain(s[i], v.chain[r])
      BY <1>3, <2>4 DEF onChain
    <3> QED
      BY <1>3, <2>1, <2>4, <3>1
  <2>5. CASE q # p /\ r = p
    <3>1. onChain(s[j], s) /\ onChain(s[j], v.chain[q])
      BY <1>3, <2>5 DEF onChain
    <3> QED
      BY <1>3, <2>1, <2>5, <3>1
  <2> QED
    BY <2>2, <2>3, <2>4, <2>5
<1>4. ASSUME Covers(tab, v), NEW c \in Clusters, tab2[c] # 0
      PROVE  \E q \in Paths : onChain(c, w.chain[q])
  <2>1. CASE onChain(c, s)
    BY <2>1
  <2>2. CASE ~ onChain(c, s)
    <3>1. tab[c] # 0 /\ ~ onChain(c, v.chain[p])
      BY <1>4, <2>2
    <3>2. PICK q \in Paths : onChain(c, v.chain[q])
      BY <1>4, <3>1 DEF Covers
    <3> QED
      BY <3>1, <3>2
  <2> QED
    BY <2>1, <2>2
<1>5. ChainsOf(tab2, w)
  BY <1>1, <1>2, <1>3 DEF ChainsOf
<1>6. Covers(tab, v) => Covers(tab2, w)
  BY <1>4 DEF Covers
<1> QED
  BY <1>5, <1>6

LEMMA AppendChain ==
    ASSUME NEW s \in Seq(Clusters), NEW c \in Clusters
    PROVE  \A d : onChain(d, Append(s, c)) <=> onChain(d, s) \/ d = c
<1> DEFINE q == Append(s, c)
           n == Len(s)
<1>1. n \in Nat /\ Len(q) = n + 1 /\ q[n + 1] = c /\ \A i \in 1 .. n : q[i] = s[i]
  BY AppendProperties
<1> HIDE DEF q
<1>2. \A k \in 1 .. n + 1 : k \in 1 .. n \/ k = n + 1
  BY <1>1
<1>3. \A k \in 1 .. n : k \in 1 .. n + 1
  BY <1>1
<1>4. n + 1 \in 1 .. n + 1
  BY <1>1
<1> HIDE DEF n
<1>5. ASSUME NEW d PROVE onChain(d, q) <=> onChain(d, s) \/ d = c
  BY <1>1, <1>2, <1>3, <1>4 DEF onChain, n
<1> QED
  BY <1>5 DEF q

\* FAT_link_free_cluster on the chain of a path.
LEMMA LinkToPath ==
    ASSUME NEW tab, Proper(tab), NEW v, ChainsOf(tab, v), NEW p \in Paths, v.chain[p] # <<>>,
           nextFree(tab) # 0, NEW w,
           \A q \in Paths : w.chain[q] = IF q = p THEN Append(v.chain[p], nextFree(tab))
                                         ELSE v.chain[q]
    PROVE  /\ ChainsOf(linkFree(tab, v.chain[p][1]), w)
           /\ Covers(tab, v) => Covers(linkFree(tab, v.chain[p][1]), w)
           /\ nextFree(tab) \in Clusters /\ tab[nextFree(tab)] = 0
           /\ \A q \in Paths : ~ onChain(nextFree(tab), v.chain[q])
           /\ Append(v.chain[p], nextFree(tab))[1] = v.chain[p][1]
           /\ Len(Append(v.chain[p], nextFree(tab))) = Len(v.chain[p]) + 1
<1> DEFINE s == v.chain[p]
           c == nextFree(tab)
           new == linkFree(tab, s[1])
           q == Append(s, c)
<1>1. isChain(s, tab) /\ distinct(s) /\ s \in Seq(Clusters) /\ tab \in Tables
  BY ChainOfPath DEF Proper
<1>2. Len(s) < Size
  BY <1>1, ShortChain
<1> HIDE DEF s
<1>3. /\ c \in Clusters /\ tab[c] = 0 /\ new \in Tables
      /\ isChain(q, new) /\ distinct(q) /\ Len(q) = Len(s) + 1 /\ q[1] = s[1]
      /\ \A d \in Entries : d \notin {c, s[Len(s)]} => new[d] = tab[d]
  BY <1>1, <1>2, LinkFreeAppends
<1> HIDE DEF q, new, c
<1>4. \A d : onChain(d, q) <=> onChain(d, s) \/ d = c
  BY <1>1, <1>3, AppendChain DEF q
<1>5. Len(s) \in Nat /\ s # <<>> /\ Len(s) \in 1 .. Len(s) /\ s[Len(s)] \in Clusters
  BY <1>1 DEF isChain, s
<1>6. onChain(s[Len(s)], s)
  BY <1>5 DEF onChain
<1>7. \A r \in Paths : ~ onChain(c, v.chain[r])
  BY <1>3, OwnedIsUsed
<1>8. new[0] = tab[0] /\ \A d \in Clusters : new[d] # tab[d] => onChain(d, s)\/ onChain(d, q)
  <2>1. 0 \in Entries /\ 0 \notin Clusters /\ Clusters \subseteq Entries
    BY FatAssumption DEF Entries, Clusters
  <2> QED
    BY <1>3, <1>4, <1>5, <1>6, <2>1
<1>9. \A r \in Paths : r # p => \A d \in Clusters : onChain(d, q) => ~ onChain(d, v.chain[r])
  BY <1>4, <1>7, OneOwner DEF s
<1>10. \A r \in Paths : w.chain[r] = IF r = p THEN q ELSE v.chain[r]
  BY DEF q, s, c
<1>11. ChainsOf(new, w) /\ (Covers(tab, v) => Covers(new, w))
  BY <1>3, <1>4, <1>8, <1>9, <1>10, ChangeChain DEF s
<1> QED
  BY <1>3, <1>7, <1>11 DEF q, new, c, s

\* FAT_set_used_cluster on a free cluster, for a path that owns none.
LEMMA UseForPath ==
    ASSUME NEW tab, Proper(tab), NEW v, ChainsOf(tab, v), NEW p \in Paths, v.chain[p] = <<>>,
           NEW c \in Clusters, tab[c] = 0, NEW w,
           \A q \in Paths : w.chain[q] = IF q = p THEN <<c>> ELSE v.chain[q]
    PROVE  /\ ChainsOf(setUsed(tab, c), w)
           /\ Covers(tab, v) => Covers(setUsed(tab, c), w)
<1> DEFINE new == setUsed(tab, c)
           s == <<c>>
<1>1. /\ tab \in [Entries -> 0 .. Size + 1] /\ 0 \in Entries /\ c \in Entries /\ c # 0
      /\ Clusters \subseteq Entries /\ 1 \in 1 .. Size
  BY FatAssumption DEF Entries, Clusters, Proper, Tables
<1>2. new[c] = EOC /\ \A d \in Entries : d # c => new[d] = tab[d]
  BY <1>1 DEF setUsed
<1>3. s \in Seq(Clusters) /\ Len(s) = 1 /\ s[1] = c /\ 1 .. Len(s) - 1 = {} /\ 1 .. Len(s) = {1}
  OBVIOUS
<1> HIDE DEF s, new
<1>4. isChain(s, new)
  BY <1>1, <1>2, <1>3 DEF isChain, isEOC
<1>5. distinct(s)
  BY <1>3 DEF distinct
<1>6. \A d : onChain(d, s) <=> d = c
  BY <1>3 DEF onChain
<1>7. \A r \in Paths : ~ onChain(c, v.chain[r])
  BY OwnedIsUsed
<1>8. \A d : ~ onChain(d, v.chain[p])
  BY DEF onChain
<1>9. \A r \in Paths : w.chain[r] = IF r = p THEN s ELSE v.chain[r]
  BY DEF s
<1>10. new[0] = tab[0] /\ \A d \in Clusters : new[d] # tab[d] => onChain(d, s)
  BY <1>1, <1>2, <1>6
<1>11. \A r \in Paths : r # p => \A d \in Clusters : onChain(d, s) => ~ onChain(d, v.chain[r])
  BY <1>6, <1>7
<1> QED
  BY <1>4, <1>5, <1>8, <1>9, <1>10, <1>11, ChangeChain DEF new

\* FAT_remove_last_linked_cluster on the chain of a path.
LEMMA ShrinkPath ==
    ASSUME NEW tab, Proper(tab), NEW v, ChainsOf(tab, v), NEW p \in Paths, v.chain[p] # <<>>,
           NEW w,
           \A q \in Paths : w.chain[q] = IF q = p THEN SubSeq(v.chain[p], 1, Len(v.chain[p]) - 1)
                                         ELSE v.chain[q]
    PROVE  LET s == v.chain[p]
               r == w.chain[p]
               new == removeLast(tab, s[1])
           IN  /\ ChainsOf(new, w)
               /\ Covers(tab, v) => Covers(new, w)
               /\ Len(s) \in Nat \ {0} /\ Len(r) = Len(s) - 1
               /\ Len(s) = 1 => removed(tab, s[1]) = 0
               /\ Len(s) > 1 => removed(tab, s[1]) # 0 /\ r # <<>> /\ r[1] = s[1]
<1> DEFINE s == v.chain[p]
           new == removeLast(tab, s[1])
           q == SubSeq(s, 1, Len(s) - 1)
<1>1. isChain(s, tab) /\ distinct(s) /\ s \in Seq(Clusters) /\ Len(s) \in 1 .. Size /\ tab \in Tables
  BY ChainOfPath DEF Proper
<1>2. w.chain[p] = q /\ \A r \in Paths : w.chain[r] = IF r = p THEN q ELSE v.chain[r]
  OBVIOUS
<1> HIDE DEF s
<1>3. /\ new \in Tables /\ new[s[Len(s)]] = 0
      /\ q \in Seq(Clusters) /\ Len(q) = Len(s) - 1 /\ distinct(q)
      /\ \A i \in 1 .. Len(s) - 1 : q[i] = s[i]
      /\ Len(s) = 1 => removed(tab, s[1]) = 0
      /\ Len(s) > 1 => isChain(q, new) /\ removed(tab, s[1]) # 0
      /\ \A d \in Entries :
            (\A i \in 1 .. Len(s) : d # s[i]) => new[d] = tab[d]
  BY <1>1, RemoveLastShortens
<1> HIDE DEF q, new
<1>4. Len(s) \in Nat \ {0} /\ Len(s) \in 1 .. Len(s) /\ (Len(s) = 1 \/ Len(s) > 1)
  <2> DEFINE n == Len(s)
  <2>1. n \in 1 .. Size /\ Size \in Nat
    BY <1>1, FatAssumption
  <2> HIDE DEF n
  <2>2. n \in Nat \ {0} /\ n \in 1 .. n /\ (n = 1 \/ n > 1)
    BY <2>1
  <2> QED
    BY <2>2 DEF n
<1>5. \A i \in 1 .. Len(q) : i \in 1 .. Len(s) /\ i \in 1 .. Len(s) - 1
  BY <1>3, <1>4
<1>6. \A i \in 1 .. Len(s) : i \in 1 .. Len(q) \/ i = Len(s)
  BY <1>3, <1>4
<1>7. \A d : onChain(d, q) => onChain(d, s)
  BY <1>3, <1>5 DEF onChain
<1>8. \A d : onChain(d, s) => onChain(d, q) \/ new[d] = 0
  BY <1>3, <1>5, <1>6 DEF onChain
<1>9. new[0] = tab[0] /\ \A d \in Clusters : new[d] # tab[d] => onChain(d, s) \/ onChain(d, q)
  <2>1. 0 \in Entries /\ 0 \notin Clusters /\ Clusters \subseteq Entries
    BY FatAssumption DEF Entries, Clusters
  <2>2. \A i \in 1 .. Len(s) : s[i] \in Clusters
    BY <1>1, ChainFacts
  <2> QED
    BY <1>3, <2>1, <2>2 DEF onChain
<1>10. \A r \in Paths : r # p => \A d \in Clusters : onChain(d, q) => ~ onChain(d, v.chain[r])
  BY <1>7, OneOwner DEF s
<1>11. q = <<>> \/ isChain(q, new)
  BY <1>3, <1>4
<1>12. ChainsOf(new, w) /\ (Covers(tab, v) => Covers(new, w))
  BY <1>2, <1>3, <1>8, <1>9, <1>10, <1>11, ChangeChain DEF s
<1>13. Len(s) > 1 => q # <<>> /\ q[1] = s[1]
  <2>1. Len(s) > 1 => 1 \in 1 .. Len(s) - 1 /\ Len(q) # 0
    BY <1>3, <1>4
  <2> QED
    BY <1>3, <2>1
<1> QED
  BY <1>2, <1>3, <1>4, <1>12, <1>13 DEF s, new

\* FAT_set_free_cluster on the first cluster of a path.
LEMMA BeheadPath ==
    ASSUME NEW tab, Proper(tab), NEW v, ChainsOf(tab, v), NEW p \in Paths, v.chain[p] # <<>>,
           NEW w,
           \A q \in Paths : w.chain[q] = IF q = p THEN Tail(v.chain[p]) ELSE v.chain[q]
    PROVE  /\ ChainsOf(setFree(tab, Head(v.chain[p])), w)
           /\ Covers(tab, v) => Covers(setFree(tab, Head(v.chain[p])), w)
<1> DEFINE s == v.chain[p]
           new == setFree(tab, Head(s))
           q == Tail(s)
<1>1. /\ isChain(s, tab) /\ distinct(s) /\ s \in Seq(Clusters) /\ s # <<>>
      /\ Len(s) \in 1 .. Size /\ tab \in Tables
  BY ChainOfPath DEF Proper
<1>2. w.chain[p] = q /\ \A r \in Paths : w.chain[r] = IF r = p THEN q ELSE v.chain[r]
  OBVIOUS
<1> HIDE DEF s
<1>3. /\ Head(s) \in Clusters /\ q \in Seq(Clusters) /\ Len(s) \in Nat \ {0}
      /\ Head(s) = s[1] /\ Len(q) = Len(s) - 1
      /\ \A i \in 1 .. Len(s) - 1 : q[i] = s[i + 1]
      /\ Len(s) = 1 <=> q = <<>>
  BY <1>1, HeadTail
<1> HIDE DEF q
<1>4. new[s[1]] = 0 /\ \A d \in Entries : d # s[1] => new[d] = tab[d]
  <2>1. s[1] \in Entries /\ tab \in [Entries -> 0 .. Size + 1]
    <3>1. Clusters \subseteq Entries
      BY FatAssumption DEF Clusters, Entries
    <3> QED
      BY <1>1, <1>3, <3>1 DEF Tables
  <2> QED
    BY <1>3, <2>1 DEF setFree
<1> HIDE DEF new
<1>5. \A i \in 1 .. Len(q) : i + 1 \in 1 .. Len(s) /\ i \in 1 .. Len(s) - 1 /\ i + 1 # 1 /\ i \in Nat
  BY <1>3
<1>6. \A i \in 1 .. Len(s) : i = 1 \/ (i - 1 \in 1 .. Len(q) /\ i - 1 + 1 = i /\ i - 1 \in 1 .. Len(s) - 1)
  BY <1>3
<1>7. 0 \in Entries /\ 0 \notin Clusters /\ Clusters \subseteq Entries /\ 1 \in 1 .. Len(s)
  BY <1>3, FatAssumption DEF Entries, Clusters
<1>8. \A i \in 1 .. Len(q) : q[i] = s[i + 1] /\ q[i] # s[1]
  BY <1>1, <1>3, <1>5, <1>7 DEF distinct
<1>9. \A d : onChain(d, q) => onChain(d, s)
  BY <1>5, <1>8 DEF onChain
<1>10. \A d : onChain(d, s) => onChain(d, q) \/ new[d] = 0
  <2>1. ASSUME NEW d, NEW i \in 1 .. Len(s), s[i] = d PROVE onChain(d, q) \/ new[d] = 0
    <3>1. CASE i = 1
      BY <1>4, <2>1, <3>1
    <3>2. CASE i # 1
      <4>1. i - 1 \in 1 .. Len(q) /\ i - 1 + 1 = i
        BY <1>6, <3>2
      <4>2. q[i - 1] = d
        BY <1>8, <2>1, <4>1
      <4> QED
        BY <4>1, <4>2 DEF onChain
    <3> QED
      BY <3>1, <3>2
  <2> QED
    BY <2>1 DEF onChain
<1>11. new[0] = tab[0] /\ \A d \in Clusters : new[d] # tab[d] => onChain(d, s)
  BY <1>3, <1>4, <1>7 DEF onChain
<1>12. distinct(q)
  <2>1. ASSUME NEW i \in 1 .. Len(q), NEW j \in 1 .. Len(q), q[i] = q[j] PROVE i = j
    <3>1. s[i + 1] = s[j + 1]
      BY <1>8, <2>1
    <3>2. i + 1 = j + 1
      BY <1>1, <1>5, <3>1 DEF distinct
    <3> QED
      BY <1>5, <3>2
  <2> QED
    BY <2>1 DEF distinct
<1>13. q = <<>> \/ isChain(q, new)
  <2>1. CASE Len(s) = 1
    BY <1>3, <2>1
  <2>2. CASE Len(s) # 1
    <3>1. Len(q) \in 1 .. Size /\ Len(q) \in 1 .. Len(q) /\ Len(q) + 1 = Len(s)
      BY <1>1, <1>3, <2>2, FatAssumption
    <3>2. \A i \in 1 .. Len(q) : q[i] \in Entries /\ new[q[i]] = tab[s[i + 1]]
      <4>1. \A i \in 1 .. Len(q) : q[i] \in Clusters
        BY <1>3
      <4> QED
        BY <1>4, <1>7, <1>8, <4>1
    <3>3. isEOC(new[q[Len(q)]])
      BY <1>1, <3>1, <3>2 DEF isChain
    <3>4. ASSUME NEW i \in 1 .. Len(q) - 1 PROVE new[q[i]] = q[i + 1]
      <4>1. i \in 1 .. Len(q) /\ i + 1 \in 1 .. Len(q) /\ i + 1 \in 1 .. Len(s) - 1
        BY <1>3, <3>1
      <4>2. tab[s[i + 1]] = s[(i + 1) + 1]
        BY <1>1, <4>1 DEF isChain
      <4> QED
        BY <1>8, <3>2, <4>1, <4>2
    <3> QED
      BY <1>3, <3>1, <3>3, <3>4 DEF isChain
  <2> QED
    BY <2>1, <2>2
<1>14. \A r \in Paths : r # p => \A d \in Clusters : onChain(d, q) => ~ onChain(d, v.chain[r])
  BY <1>9, OneOwner DEF s
<1>15. ChainsOf(new, w) /\ (Covers(tab, v) => Covers(new, w))
  BY <1>2, <1>10, <1>11, <1>12, <1>13, <1>14, ChangeChain DEF s
<1> QED
  BY <1>15 DEF new, s

\* The chain of a path becomes that of another one.
LEMMA MoveChain ==
    ASSUME NEW tab, NEW v, ChainsOf(tab, v), NEW p \in Paths, NEW q \in Paths,
           v.chain[q] = <<>>, NEW w,
           \A r \in Paths : w.chain[r] = IF r = q THEN v.chain[p] ELSE IF r = p THEN <<>>
                                         ELSE v.chain[r]
    PROVE  /\ ChainsOf(tab, w)
           /\ Covers(tab, v) => Covers(tab, w)
<1> DEFINE was(r) == IF r = q THEN p ELSE r
<1>1. \A r \in Paths : was(r) \in Paths /\ (w.chain[r] = <<>> \/ w.chain[r] = v.chain[was(r)])
  OBVIOUS
<1>2. \A r \in Paths : r # q /\ r = p => w.chain[r] = <<>>
  OBVIOUS
<1>3. \A r, x \in Paths : w.chain[r] # <<>> /\ w.chain[x] # <<>> /\ was(r) = was(x) => r = x
  OBVIOUS
<1>4. \A r \in Paths : \E x \in Paths : v.chain[r] # <<>> => w.chain[x] = v.chain[r]
  OBVIOUS
<1> HIDE DEF was
<1>5. \A r \in Paths : w.chain[r] = <<>> \/ isChain(w.chain[r], tab)
  BY <1>1 DEF ChainsOf
<1>6. ASSUME NEW r \in Paths, NEW x \in Paths, NEW i \in 1 .. Len(w.chain[r]),
             NEW j \in 1 .. Len(w.chain[x]), w.chain[r][i] = w.chain[x][j]
      PROVE  r = x /\ i = j
  <2>1. w.chain[r] # <<>> /\ w.chain[x] # <<>>
    OBVIOUS
  <2>2. w.chain[r] = v.chain[was(r)] /\ w.chain[x] = v.chain[was(x)]
    BY <1>1, <2>1
  <2>3. was(r) = was(x) /\ i = j
    BY <1>1, <1>6, <2>2 DEF ChainsOf
  <2> QED
    BY <1>3, <2>1, <2>3
<1>7. ChainsOf(tab, w)
  BY <1>5, <1>6 DEF ChainsOf
<1>8. ASSUME Covers(tab, v), NEW c \in Clusters, tab[c] # 0
      PROVE  \E x \in Paths : onChain(c, w.chain[x])
  <2>1. PICK r \in Paths : onChain(c, v.chain[r])
    BY <1>8 DEF Covers
  <2>2. v.chain[r] # <<>>
    BY <2>1 DEF onChain
  <2> QED
    BY <1>4, <2>1, <2>2
<1> QED
  BY <1>7, <1>8 DEF Covers

\* Some paths lose what they owned.
LEMMA DropChains ==
    ASSUME NEW tab, NEW v, ChainsOf(tab, v), NEW w,
           \A r \in Paths : w.chain[r] = <<>> \/ w.chain[r] = v.chain[r]
    PROVE  ChainsOf(tab, w)
<1>1. \A r \in Paths : w.chain[r] = <<>> \/ isChain(w.chain[r], tab)
  BY DEF ChainsOf
<1>2. ASSUME NEW r \in Paths, NEW x \in Paths, NEW i \in 1 .. Len(w.chain[r]),
             NEW j \in 1 .. Len(w.chain[x]), w.chain[r][i] = w.chain[x][j]
      PROVE  r = x /\ i = j
  <2>1. w.chain[r] # <<>> /\ w.chain[x] # <<>>
    OBVIOUS
  <2>2. w.chain[r] = v.chain[r] /\ w.chain[x] = v.chain[x]
    BY <2>1
  <2> QED
    BY <1>2, <2>2 DEF ChainsOf
<1> QED
  BY <1>1, <1>2 DEF ChainsOf

-----------------------------------------------------------------------------
(* What the writes of clusters do to the entries of a view.                 *)

LEMMA Visible ==
    ASSUME NEW content, NEW i, i \in interpret(content)
    PROVE  /\ i \in 1 .. SlotCount /\ content[i].kind \in {"file", "dir"}
           /\ \A j \in 1 .. i : content[j].kind # "end"
  BY DEF interpret

LEMMA SpotOfNode ==
    ASSUME NEW content, NEW v, NodesOf(v), EntriesOf(content, v), NEW p \in nodes(v), p # <<>>
    PROVE  /\ p \in Paths /\ parent(p) \in v.dirs /\ parent(p) \in Paths
           /\ onChain(v.spot[p][1], v.chain[parent(p)])
           /\ v.spot[p][2] \in 1 .. SlotCount
           /\ v.spot[p][2] \in interpret(content[v.spot[p][1]])
           /\ entryOf(content, v, p).kind \in {"file", "dir"}
           /\ entryOf(content, v, p).name = lastOf(p)
<1>1. p \in Paths /\ parent(p) \in v.dirs
  BY DEF NodesOf
<1>2. parent(p) \in Paths
  BY <1>1, SplitPath
<1>3. /\ onChain(v.spot[p][1], v.chain[parent(p)])
      /\ v.spot[p][2] \in interpret(content[v.spot[p][1]])
      /\ entryOf(content, v, p).name = lastOf(p)
  BY DEF EntriesOf
<1>4. v.spot[p][2] \in 1 .. SlotCount /\ entryOf(content, v, p).kind \in {"file", "dir"}
  BY <1>3, Visible DEF entryOf
<1> QED
  BY <1>1, <1>2, <1>3, <1>4

\* Two nodes with their entries in one slot are one.
LEMMA OneSpot ==
    ASSUME NEW tab, NEW content, NEW v, ChainsOf(tab, v), NodesOf(v), EntriesOf(content, v),
           NEW p \in nodes(v), NEW q \in nodes(v), p # <<>>, q # <<>>,
           v.spot[p][1] = v.spot[q][1], v.spot[p][2] = v.spot[q][2]
    PROVE  p = q
<1>1. parent(p) = parent(q)
  BY SpotOfNode, OneOwner
<1>2. lastOf(p) = lastOf(q)
  BY SpotOfNode DEF entryOf
<1> QED
  BY <1>1, <1>2, SpotOfNode, SamePath

\* The same nodes, and the clusters of directories are not written.
LEMMA EntriesKept ==
    ASSUME NEW content, NEW content2, NEW v, NodesOf(v), EntriesOf(content, v), NoOthers(content, v),
           NEW w, w.dirs = v.dirs, w.files = v.files, w.doomed = v.doomed,
           \A p \in nodes(v) : w.spot[p] = v.spot[p],
           \A d \in v.dirs : w.chain[d] = v.chain[d],
           \A d \in v.dirs : \A c : onChain(c, v.chain[d]) => content2[c] = content[c],
           \A p \in v.files : p \notin w.held => owns(entryOf(content, v, p), w.chain[p])
    PROVE  EntriesOf(content2, w) /\ NoOthers(content2, w)
<1>1. nodes(w) = nodes(v)
  BY DEF nodes
<1>2. ASSUME NEW p \in nodes(v), p # <<>>
      PROVE  /\ entryOf(content2, w, p) = entryOf(content, v, p) /\ w.spot[p] = v.spot[p]
             /\ content2[v.spot[p][1]] = content[v.spot[p][1]]
             /\ w.chain[parent(p)] = v.chain[parent(p)]
  BY <1>2, SpotOfNode DEF entryOf
<1>3. \A p \in v.dirs : p \in nodes(v)
  BY DEF nodes
<1>4. \A p \in v.files : p \in nodes(v) /\ p # <<>>
  BY DEF nodes, NodesOf
<1>5. EntriesOf(content2, w)
  <2>1. ASSUME NEW p \in nodes(w), p # <<>>
        PROVE  /\ onChain(w.spot[p][1], w.chain[parent(p)])
               /\ w.spot[p][2] \in interpret(content2[w.spot[p][1]])
               /\ entryOf(content2, w, p).name = lastOf(p)
    BY <1>1, <1>2, <2>1, SpotOfNode
  <2>2. ASSUME NEW p \in w.dirs, p # <<>>
        PROVE  /\ entryOf(content2, w, p).kind = "dir" /\ w.chain[p] # <<>>
               /\ entryOf(content2, w, p).first = w.chain[p][1]
    BY <1>2, <1>3, <2>2 DEF EntriesOf
  <2>3. ASSUME NEW p \in w.files
        PROVE  /\ entryOf(content2, w, p).kind = "file"
               /\ p \notin w.held => owns(entryOf(content2, w, p), w.chain[p])
    BY <1>2, <1>4, <2>3 DEF EntriesOf
  <2> QED
    BY <2>1, <2>2, <2>3 DEF EntriesOf
<1>6. ASSUME NEW d \in w.dirs, NEW c \in Clusters, NEW i \in 1 .. SlotCount,
             onChain(c, w.chain[d]), content2[c][i].kind \in {"file", "dir"}
      PROVE  isOfNode(content2, w, d, c, i)
  <2>1. onChain(c, v.chain[d]) /\ content2[c] = content[c]
    BY <1>6
  <2>2. isOfNode(content, v, d, c, i)
    BY <1>6, <2>1 DEF NoOthers
  <2> QED
    BY <1>1, <2>1, <2>2 DEF isOfNode
<1>7. NoOthers(content2, w)
  BY <1>6 DEF NoOthers
<1> QED
  BY <1>5, <1>7

\* A directory gets a cluster that shows nothing.
LEMMA EntriesGrow ==
    ASSUME NEW content, NEW v, NodesOf(v), EntriesOf(content, v), NoOthers(content, v),
           NEW w, w.dirs = v.dirs, w.files = v.files, w.doomed = v.doomed, w.held = v.held,
           w.spot = v.spot, NEW d \in v.dirs, NEW c \in Clusters, ~ showsOld(content[c]),
           v.chain[d] \in Seq(Clusters), v.chain[d] # <<>>, w.chain[d] = Append(v.chain[d], c),
           \A p \in Paths : p # d => w.chain[p] = v.chain[p]
    PROVE  EntriesOf(content, w) /\ NoOthers(content, w)
<1> DEFINE s == v.chain[d]
           r == w.chain[d]
           n == Len(s)
<1>1. /\ n \in Nat /\ n # 0 /\ Len(r) = n + 1 /\ r[n + 1] = c
      /\ \A i \in 1 .. n : r[i] = s[i]
  BY AppendProperties
<1>2. \A x : onChain(x, r) <=> onChain(x, s) \/ x = c
  BY AppendChain
<1>3. nodes(w) = nodes(v) /\ d \in nodes(v) /\ v.files \subseteq nodes(v) /\ nodes(v) \subseteq Paths
      /\ v.dirs \subseteq Paths
  BY DEF nodes, NodesOf
<1>4. r # <<>> /\ r[1] = s[1]
  <2>1. 1 \in 1 .. n /\ Len(r) # 0
    BY <1>1
  <2> QED
    BY <1>1, <2>1
<1> HIDE DEF r, s, n
<1>5. \A p : entryOf(content, w, p) = entryOf(content, v, p)
  BY DEF entryOf
<1>6. EntriesOf(content, w)
  <2>1. ASSUME NEW p \in nodes(w), p # <<>>
        PROVE  /\ onChain(w.spot[p][1], w.chain[parent(p)])
               /\ w.spot[p][2] \in interpret(content[w.spot[p][1]])
               /\ entryOf(content, w, p).name = lastOf(p)
    <3>1. p \in nodes(v)
      BY <1>3
    <3>2. /\ onChain(v.spot[p][1], v.chain[parent(p)]) /\ parent(p) \in Paths
          /\ v.spot[p][2] \in interpret(content[v.spot[p][1]])
          /\ entryOf(content, v, p).name = lastOf(p)
      BY <2>1, <3>1, SpotOfNode
    <3>3. onChain(v.spot[p][1], w.chain[parent(p)])
      BY <1>2, <3>2 DEF r, s
    <3> QED
      BY <1>5, <3>2, <3>3
  <2>2. ASSUME NEW p \in w.dirs, p # <<>>
        PROVE  /\ entryOf(content, w, p).kind = "dir" /\ w.chain[p] # <<>>
               /\ entryOf(content, w, p).first = w.chain[p][1]
    <3>1. /\ entryOf(content, v, p).kind = "dir" /\ v.chain[p] # <<>>
          /\ entryOf(content, v, p).first = v.chain[p][1]
      BY <2>2 DEF EntriesOf
    <3>2. CASE p = d
      BY <1>4, <1>5, <3>1, <3>2 DEF r, s
    <3>3. CASE p # d
      BY <1>3, <1>5, <3>1, <3>3
    <3> QED
      BY <3>2, <3>3
  <2>3. ASSUME NEW p \in w.files
        PROVE  /\ entryOf(content, w, p).kind = "file"
               /\ p \notin w.held => owns(entryOf(content, w, p), w.chain[p])
    <3>1. p # d /\ p \in Paths
      BY <1>3 DEF NodesOf
    <3> QED
      BY <1>5, <3>1 DEF EntriesOf
  <2> QED
    BY <2>1, <2>2, <2>3 DEF EntriesOf
<1>7. ASSUME NEW e \in w.dirs, NEW x \in Clusters, NEW i \in 1 .. SlotCount,
             onChain(x, w.chain[e]), content[x][i].kind \in {"file", "dir"}
      PROVE  isOfNode(content, w, e, x, i)
  <2>1. x # c
    BY <1>7 DEF showsOld
  <2>2. onChain(x, v.chain[e])
    BY <1>2, <1>3, <1>7, <2>1 DEF r, s
  <2>3. isOfNode(content, v, e, x, i)
    BY <1>7, <2>2 DEF NoOthers
  <2> QED
    BY <1>3, <2>3 DEF isOfNode
<1>8. NoOthers(content, w)
  BY <1>7 DEF NoOthers
<1> QED
  BY <1>6, <1>8

\* One slot of one cluster is written.
writes(content, content2, c, i, put) ==
    \A x \in Clusters, j \in 1 .. SlotCount :
        content2[x][j] = IF x = c /\ j = i THEN put ELSE content[x][j]

\* What could be seen still can, unless it was in the slot.
LEMMA StillVisible ==
    ASSUME NEW content, NEW content2, NEW c, NEW i, NEW put, writes(content, content2, c, i, put),
           put.kind # "end", NEW x \in Clusters, NEW j \in interpret(content[x]), ~ (x = c /\ j = i)
    PROVE  j \in interpret(content2[x]) /\ content2[x][j] = content[x][j]
<1>0. SlotCount \in Nat
  BY SlotFacts
<1>1. j \in 1 .. SlotCount /\ \A k \in 1 .. j : k \in 1 .. SlotCount
  BY <1>0, Visible
<1>2. content2[x][j] = content[x][j]
  BY <1>1 DEF writes
<1>3. \A k \in 1 .. j : content2[x][k].kind # "end"
  BY <1>1, Visible DEF writes
<1>4. content[x][j].kind \in {"file", "dir"}
  BY Visible
<1> QED
  BY <1>1, <1>2, <1>3, <1>4 DEF interpret

LEMMA NowVisible ==
    ASSUME NEW content, NEW content2, NEW c \in Clusters, NEW i \in 1 .. SlotCount, NEW put,
           writes(content, content2, c, i, put), put.kind \in {"file", "dir"},
           \A j \in 1 .. i - 1 : content[c][j].kind # "end"
    PROVE  i \in interpret(content2[c]) /\ content2[c][i] = put
<1>1. \A j \in 1 .. i : j \in 1 .. SlotCount /\ (j = i \/ j \in 1 .. i - 1)
  BY SlotFacts
<1>2. content2[c][i] = put
  BY DEF writes
<1>3. ASSUME NEW j \in 1 .. i PROVE content2[c][j].kind # "end"
  <2>1. CASE j = i
    BY <1>2, <2>1
  <2>2. CASE j # i
    BY <1>1, <2>2 DEF writes
  <2> QED
    BY <2>1, <2>2
<1> QED
  BY <1>2, <1>3 DEF interpret

vacates(content, content2, v, p, w) ==
    /\ p \in v.files \cup v.doomed
    /\ w.dirs = v.dirs /\ w.files = v.files \ {p} /\ w.doomed = v.doomed \ {p}
    /\ w.held = v.held \ {p}
    /\ \A q \in nodes(v) : q # p => w.spot[q] = v.spot[q]
    /\ \A q \in Paths : q # p => w.chain[q] = v.chain[q]
    /\ writes(content, content2, v.spot[p][1], v.spot[p][2], Deleted)

\* The entry of a file, or of what is being removed, is deleted.
LEMMA Vacate ==
    ASSUME NEW tab, Proper(tab), NEW content, NEW content2, NEW v, ChainsOf(tab, v), NodesOf(v),
           EntriesOf(content, v), NoOthers(content, v),
           NEW p, NEW w, vacates(content, content2, v, p, w)
    PROVE  EntriesOf(content2, w) /\ NoOthers(content2, w)
<1>0. vacates(content, content2, v, p, w)
  OBVIOUS
<1> USE <1>0 DEF vacates
<1> DEFINE c == v.spot[p][1]
           i == v.spot[p][2]
<1>1. p \in nodes(v) /\ p # <<>> /\ p \notin v.dirs /\ p \in Paths
  BY DEF nodes, NodesOf
<1>2. nodes(w) = nodes(v) \ {p} /\ Deleted.kind = "deleted"
  BY <1>1 DEF nodes, Deleted, slot
<1>3. \A d \in v.dirs : d \in Paths /\ w.chain[d] = v.chain[d] /\ d \in nodes(w)
  BY <1>1, <1>2 DEF NodesOf, nodes
<1>4. ASSUME NEW q \in nodes(w), q # <<>>
      PROVE  /\ w.spot[q] = v.spot[q]
             /\ w.spot[q][2] \in interpret(content2[w.spot[q][1]])
             /\ entryOf(content2, w, q) = entryOf(content, v, q)
  <2>1. q \in nodes(v) /\ q # p /\ w.spot[q] = v.spot[q]
    BY <1>2
  <2>2. /\ v.spot[q][2] \in interpret(content[v.spot[q][1]]) /\ parent(q) \in Paths
        /\ onChain(v.spot[q][1], v.chain[parent(q)])
    BY <1>4, <2>1, SpotOfNode
  <2>3. v.spot[q][1] \in Clusters
    BY <2>2, OwnedIsUsed
  <2>4. ~ (v.spot[q][1] = c /\ v.spot[q][2] = i)
    BY <1>1, <1>4, <2>1, OneSpot
  <2>5. /\ v.spot[q][2] \in interpret(content2[v.spot[q][1]])
        /\ content2[v.spot[q][1]][v.spot[q][2]] = content[v.spot[q][1]][v.spot[q][2]]
    BY <1>2, <2>2, <2>3, <2>4, StillVisible
  <2> QED
    BY <2>1, <2>5 DEF entryOf
<1>5. EntriesOf(content2, w)
  <2>1. ASSUME NEW q \in nodes(w), q # <<>>
        PROVE  /\ onChain(w.spot[q][1], w.chain[parent(q)])
               /\ w.spot[q][2] \in interpret(content2[w.spot[q][1]])
               /\ entryOf(content2, w, q).name = lastOf(q)
    BY <1>2, <1>3, <1>4, <2>1, SpotOfNode
  <2>2. ASSUME NEW q \in w.dirs, q # <<>>
        PROVE  /\ entryOf(content2, w, q).kind = "dir" /\ w.chain[q] # <<>>
               /\ entryOf(content2, w, q).first = w.chain[q][1]
    BY <1>3, <1>4, <2>2 DEF EntriesOf
  <2>3. ASSUME NEW q \in w.files
        PROVE  /\ entryOf(content2, w, q).kind = "file"
               /\ q \notin w.held => owns(entryOf(content2, w, q), w.chain[q])
    <3>1. q \in nodes(w) /\ q # <<>> /\ q # p /\ q \in Paths /\ q \in v.files
      BY <1>2, <2>3 DEF nodes, NodesOf
    <3> QED
      BY <1>4, <3>1 DEF EntriesOf
  <2> QED
    BY <2>1, <2>2, <2>3 DEF EntriesOf
<1>6. ASSUME NEW d \in w.dirs, NEW x \in Clusters, NEW j \in 1 .. SlotCount,
             onChain(x, w.chain[d]), content2[x][j].kind \in {"file", "dir"}
      PROVE  isOfNode(content2, w, d, x, j)
  <2>1. ~ (x = c /\ j = i) /\ content2[x][j] = content[x][j]
    BY <1>2, <1>6 DEF writes
  <2>2. isOfNode(content, v, d, x, j)
    BY <1>3, <1>6, <2>1 DEF NoOthers
  <2> DEFINE q == Append(d, content[x][j].name)
  <2>3. q \in nodes(v) /\ v.spot[q] = <<x, j>>
    BY <2>2 DEF isOfNode
  <2>4. q = Append(d, content2[x][j].name)
    BY <2>1
  <2> HIDE DEF q
  <2>5. q # p
    BY <2>1, <2>3
  <2>6. q \in nodes(w) /\ w.spot[q] = <<x, j>>
    BY <1>2, <2>3, <2>5
  <2> QED
    BY <2>4, <2>6 DEF isOfNode
<1>7. NoOthers(content2, w)
  BY <1>6 DEF NoOthers
<1> QED
  BY <1>5, <1>7

fills(content, content2, v, p, c, i, put, w) ==
    /\ p \in Paths /\ p # <<>> /\ p \notin nodes(v) /\ parent(p) \in v.dirs
    /\ c \in Clusters /\ onChain(c, v.chain[parent(p)])
    /\ i \in 1 .. SlotCount /\ content[c][i].kind \notin {"file", "dir"}
    /\ \A j \in 1 .. i - 1 : content[c][j].kind # "end"
    /\ put.name = lastOf(p) /\ writes(content, content2, c, i, put)
    /\ w.doomed = v.doomed /\ w.held = v.held /\ w.spot[p] = <<c, i>>
    /\ \A q \in nodes(v) : w.spot[q] = v.spot[q]
    /\ \A q \in Paths : q # p => w.chain[q] = v.chain[q]
    /\ \/ /\ put.kind = "file" /\ w.files = v.files \cup {p} /\ w.dirs = v.dirs
          /\ owns(put, w.chain[p])
       \/ /\ put.kind = "dir" /\ w.dirs = v.dirs \cup {p} /\ w.files = v.files
          /\ w.chain[p] # <<>> /\ put.first = w.chain[p][1]
          /\ \A x \in Clusters : onChain(x, w.chain[p]) => x # c /\ ~ showsOld(content[x])

\* An entry goes into an unused slot of a directory.
LEMMA Fill ==
    ASSUME NEW tab, Proper(tab), NEW content, NEW content2, NEW v, ChainsOf(tab, v), NodesOf(v),
           EntriesOf(content, v), NoOthers(content, v),
           NEW p, NEW c, NEW i, NEW put, NEW w, fills(content, content2, v, p, c, i, put, w)
    PROVE  EntriesOf(content2, w) /\ NoOthers(content2, w)
<1>0. fills(content, content2, v, p, c, i, put, w)
  OBVIOUS
<1> USE <1>0 DEF fills
<1>1. nodes(w) = nodes(v) \cup {p} /\ put.kind \in {"file", "dir"} /\ put.kind # "end"
  BY DEF nodes
<1>2. \A d \in v.dirs : d \in Paths /\ w.chain[d] = v.chain[d] /\ d # p /\ d \in w.dirs /\ d \in nodes(v)
  BY <1>1 DEF NodesOf, nodes
<1>3. i \in interpret(content2[c]) /\ content2[c][i] = put
  BY <1>1, NowVisible
<1>4. w.spot[p][1] = c /\ w.spot[p][2] = i /\ entryOf(content2, w, p) = put
  BY <1>3 DEF entryOf
<1>5. ASSUME NEW q \in nodes(v), q # <<>>
      PROVE  /\ w.spot[q] = v.spot[q] /\ parent(q) \in v.dirs
             /\ w.spot[q][2] \in interpret(content2[w.spot[q][1]])
             /\ entryOf(content2, w, q) = entryOf(content, v, q)
  <2>1. w.spot[q] = v.spot[q]
    OBVIOUS
  <2>2. /\ v.spot[q][2] \in interpret(content[v.spot[q][1]])
        /\ parent(q) \in Paths /\ parent(q) \in v.dirs
        /\ entryOf(content, v, q).kind \in {"file", "dir"}
        /\ onChain(v.spot[q][1], v.chain[parent(q)])
    BY <1>5, SpotOfNode
  <2>3. v.spot[q][1] \in Clusters
    BY <2>2, OwnedIsUsed
  <2>4. ~ (v.spot[q][1] = c /\ v.spot[q][2] = i)
    BY <2>2 DEF entryOf
  <2>5. /\ v.spot[q][2] \in interpret(content2[v.spot[q][1]])
        /\ content2[v.spot[q][1]][v.spot[q][2]] = content[v.spot[q][1]][v.spot[q][2]]
    BY <1>1, <2>2, <2>3, <2>4, StillVisible
  <2> QED
    BY <2>1, <2>2, <2>5 DEF entryOf
<1>6. EntriesOf(content2, w)
  <2>1. ASSUME NEW q \in nodes(w), q # <<>>
        PROVE  /\ onChain(w.spot[q][1], w.chain[parent(q)])
               /\ w.spot[q][2] \in interpret(content2[w.spot[q][1]])
               /\ entryOf(content2, w, q).name = lastOf(q)
    <3>1. CASE q = p
      BY <1>2, <1>3, <1>4, <3>1
    <3>2. CASE q # p
      BY <1>1, <1>2, <1>5, <2>1, <3>2, SpotOfNode
    <3> QED
      BY <3>1, <3>2
  <2>2. ASSUME NEW q \in w.dirs, q # <<>>
        PROVE  /\ entryOf(content2, w, q).kind = "dir" /\ w.chain[q] # <<>>
               /\ entryOf(content2, w, q).first = w.chain[q][1]
    <3>1. CASE q = p
      <4>1. p \notin v.dirs
        BY DEF nodes
      <4> QED
        BY <1>4, <2>2, <3>1, <4>1
    <3>2. CASE q # p
      <4>1. q \in v.dirs
        BY <2>2, <3>2
      <4> QED
        BY <1>2, <1>5, <2>2, <4>1 DEF EntriesOf
    <3> QED
      BY <3>1, <3>2
  <2>3. ASSUME NEW q \in w.files
        PROVE  /\ entryOf(content2, w, q).kind = "file"
               /\ q \notin w.held => owns(entryOf(content2, w, q), w.chain[q])
    <3>1. CASE q = p
      <4>1. p \notin v.files
        BY DEF nodes
      <4> QED
        BY <1>4, <2>3, <3>1, <4>1
    <3>2. CASE q # p
      <4>1. q \in v.files /\ q \in nodes(v) /\ q # <<>> /\ q \in Paths
        BY <2>3, <3>2 DEF nodes, NodesOf
      <4> QED
        BY <1>5, <3>2, <4>1 DEF EntriesOf
    <3> QED
      BY <3>1, <3>2
  <2> QED
    BY <2>1, <2>2, <2>3 DEF EntriesOf
<1>7. ASSUME NEW d \in w.dirs, NEW x \in Clusters, NEW j \in 1 .. SlotCount,
             onChain(x, w.chain[d]), content2[x][j].kind \in {"file", "dir"}
      PROVE  isOfNode(content2, w, d, x, j)
  <2>1. CASE d = p
    <3>1. x # c /\ ~ showsOld(content[x])
      <4>1. p \notin v.dirs
        BY DEF nodes
      <4> QED
        BY <1>7, <2>1, <4>1
    <3> QED
      BY <1>7, <3>1 DEF writes, showsOld
  <2>2. CASE d # p /\ x = c /\ j = i
    <3>1. d \in v.dirs
      BY <2>2
    <3>2. d = parent(p)
      BY <1>2, <1>7, <2>2, <3>1, OneOwner
    <3>3. Append(d, content2[x][j].name) = p
      BY <1>3, <2>2, <3>2, SplitPath
    <3> QED
      BY <1>1, <2>2, <3>3 DEF isOfNode
  <2>3. CASE d # p /\ ~ (x = c /\ j = i)
    <3>1. content2[x][j] = content[x][j] /\ d \in v.dirs
      BY <2>3 DEF writes
    <3>2. isOfNode(content, v, d, x, j)
      BY <1>2, <1>7, <3>1 DEF NoOthers
    <3> DEFINE q == Append(d, content[x][j].name)
    <3>3. q \in nodes(v) /\ v.spot[q] = <<x, j>>
      BY <3>2 DEF isOfNode
    <3>4. q = Append(d, content2[x][j].name)
      BY <3>1
    <3> HIDE DEF q
    <3> QED
      BY <1>1, <3>3, <3>4 DEF isOfNode
  <2> QED
    BY <2>1, <2>2, <2>3
<1>8. NoOthers(content2, w)
  BY <1>7 DEF NoOthers
<1> QED
  BY <1>6, <1>8

\* A node is doomed, and what lies under it is no part of the tree any more.
LEMMA Doom ==
    ASSUME NEW tab, NEW content, NEW v, ChainsOf(tab, v), NodesOf(v), EntriesOf(content, v),
           NoOthers(content, v),
           NEW p \in v.dirs \cup v.files, p # <<>>,
           NEW A \in SUBSET Paths, p \in A, <<>> \notin A, parent(p) \notin A,
           \A q \in A : q = p \/ parent(q) \in A,
           \A q \in nodes(v) : q # <<>> /\ parent(q) \in A => q \in A,
           NEW w, w.dirs = v.dirs \ A, w.files = v.files \ A, w.doomed = (v.doomed \ A) \cup {p},
           w.held = v.held \ A, w.carried = v.carried \ A, w.spot = v.spot,
           \A q \in Paths : w.chain[q] = IF q \in A \ {p} THEN <<>> ELSE v.chain[q]
    PROVE  NodesOf(w) /\ EntriesOf(content, w) /\ NoOthers(content, w)
<1>1. nodes(w) = (nodes(v) \ A) \cup {p} /\ p \in nodes(v) /\ p \in Paths /\ nodes(v) \subseteq Paths
  BY DEF nodes, NodesOf
<1>2. NodesOf(w)
  <2>1. /\ nodes(w) \cup w.carried \subseteq Paths
        /\ w.dirs \cap w.files = {} /\ w.dirs \cap w.doomed = {} /\ w.files \cap w.doomed = {}
        /\ w.carried \cap nodes(w) = {} /\ w.held \subseteq w.files
    BY <1>1 DEF NodesOf
  <2>2. <<>> \in w.dirs /\ w.chain[<<>>] # <<>> /\ w.chain[<<>>][1] = 2
    <3>1. <<>> \in v.dirs /\ <<>> \in Paths
      BY DEF NodesOf, nodes
    <3> QED
      BY <3>1 DEF NodesOf
  <2>3. ASSUME NEW q \in nodes(w), q # <<>> PROVE parent(q) \in w.dirs
    <3>1. q \in nodes(v) /\ parent(q) \in v.dirs
      BY <1>1, <2>3 DEF NodesOf
    <3> QED
      BY <1>1, <2>3, <3>1
  <2>4. ASSUME NEW q \in Paths, absent(w, q) PROVE w.chain[q] = <<>>
    <3>1. CASE q \in A
      BY <1>1, <2>4, <3>1 DEF absent
    <3>2. CASE q \notin A
      BY <1>1, <2>4, <3>2 DEF absent, NodesOf
    <3> QED
      BY <3>1, <3>2
  <2> QED
    BY <2>1, <2>2, <2>3, <2>4 DEF NodesOf
<1>3. \A q : entryOf(content, w, q) = entryOf(content, v, q)
  BY DEF entryOf
<1>4. EntriesOf(content, w)
  <2>1. ASSUME NEW q \in nodes(w), q # <<>>
        PROVE  /\ onChain(w.spot[q][1], w.chain[parent(q)])
               /\ w.spot[q][2] \in interpret(content[w.spot[q][1]])
               /\ entryOf(content, w, q).name = lastOf(q)
    <3>1. parent(q) \notin A /\ q \in nodes(v)
      BY <1>1, <2>1
    <3>2. /\ onChain(v.spot[q][1], v.chain[parent(q)]) /\ parent(q) \in Paths
          /\ v.spot[q][2] \in interpret(content[v.spot[q][1]])
          /\ entryOf(content, v, q).name = lastOf(q)
      BY <2>1, <3>1, SpotOfNode
    <3> QED
      BY <1>3, <3>1, <3>2
  <2>2. ASSUME NEW q \in w.dirs, q # <<>>
        PROVE  /\ entryOf(content, w, q).kind = "dir" /\ w.chain[q] # <<>>
               /\ entryOf(content, w, q).first = w.chain[q][1]
    <3>1. q \in v.dirs /\ q \notin A /\ q \in Paths
      BY <1>1 DEF nodes
    <3> QED
      BY <1>3, <2>2, <3>1 DEF EntriesOf
  <2>3. ASSUME NEW q \in w.files
        PROVE  /\ entryOf(content, w, q).kind = "file"
               /\ q \notin w.held => owns(entryOf(content, w, q), w.chain[q])
    <3>1. q \in v.files /\ q \notin A /\ q \in Paths
      BY <1>1 DEF nodes
    <3> QED
      BY <1>3, <3>1 DEF EntriesOf
  <2> QED
    BY <2>1, <2>2, <2>3 DEF EntriesOf
<1>5. ASSUME NEW d \in w.dirs, NEW x \in Clusters, NEW j \in 1 .. SlotCount,
             onChain(x, w.chain[d]), content[x][j].kind \in {"file", "dir"}
      PROVE  isOfNode(content, w, d, x, j)
  <2>1. d \in v.dirs /\ d \notin A /\ d \in Paths /\ w.chain[d] = v.chain[d]
    BY <1>1 DEF nodes
  <2>2. isOfNode(content, v, d, x, j)
    BY <1>5, <2>1 DEF NoOthers
  <2> DEFINE name == content[x][j].name
             q == Append(d, name)
  <2>3. q \in nodes(v) /\ v.spot[q] = <<x, j>>
    BY <2>2 DEF isOfNode
  <2> HIDE DEF q
  <2>4. CASE q = <<>>
    <3>1. q \in nodes(w)
      BY <1>1, <2>3, <2>4
    <3> QED
      BY <2>3, <3>1 DEF isOfNode, q
  <2>5. CASE q # <<>>
    <3>1. onChain(x, v.chain[parent(q)]) /\ parent(q) \in Paths
      BY <2>3, <2>5, SpotOfNode
    <3>2. parent(q) = d
      BY <1>5, <2>1, <3>1, OneOwner
    <3>3. q \in nodes(w)
      BY <1>1, <2>1, <2>3, <3>2
    <3> QED
      BY <2>3, <3>3 DEF isOfNode, q
  <2> QED
    BY <2>4, <2>5
<1>6. NoOthers(content, w)
  BY <1>5 DEF NoOthers
<1> QED
  BY <1>2, <1>4, <1>6

-----------------------------------------------------------------------------
(* What a thread knows is not disturbed by the others.                      *)

TreeInv == TypeInv /\ Exclusive /\ (calm => \E v : isViewed(v))

\* The paths an operation is about.
subjects(o) == {o.path} \cup IF o.kind = "rename" THEN {o.to} ELSE {}

\* create and mkdir at their end: the entry is placed.
saving(place, o) == place = "save" /\ o.kind \in {"create", "mkdir"}

sameAt(v, w, p) ==
    /\ p \in w.dirs <=> p \in v.dirs
    /\ p \in w.files <=> p \in v.files
    /\ p \in w.doomed <=> p \in v.doomed
    /\ p \in w.held <=> p \in v.held
    /\ p \in w.carried <=> p \in v.carried
    /\ p \notin v.dirs => w.chain[p] = v.chain[p] /\ w.spot[p] = v.spot[p]

grows(v, w, d) ==
    d \in v.dirs => d \in w.dirs /\ \A c : onChain(c, v.chain[d]) => onChain(c, w.chain[d])

viewOf(D, F, X, H, C, T, G) ==
    [dirs |-> D, files |-> F, doomed |-> X, held |-> H, carried |-> C, spot |-> T, chain |-> G]

LEMMA DoingKept ==
    ASSUME NEW place, NEW o, NEW r, NEW content, NEW content2, NEW v, NodesOf(v), NEW w,
           Doing(place, o, r, content, v),
           saving(place, o) \/ \A p \in subjects(o) : sameAt(v, w, p),
           grows(v, w, parent(o.path)), o.kind = "rename" => grows(v, w, parent(o.to)),
           o.kind = "mkdir" /\ place = "place" /\ showsOld(content2[r.free]) =>
               showsOld(content[r.free])
    PROVE  Doing(place, o, r, content2, w)
<1>0. \A p : p \in v.files \cup v.doomed \cup v.carried => p \notin v.dirs
  BY DEF NodesOf, nodes
<1>1. ASSUME o.kind \in {"create", "mkdir"} PROVE Making(place, o, r, content2, w)
  <2>1. CASE place = "save"
    BY <2>1 DEF Making
  <2>2. CASE place # "save"
    <3>1. sameAt(v, w, o.path) /\ Making(place, o, r, content, v)
      BY <1>1, <2>2 DEF saving, subjects, Doing
    <3>2. absent(v, o.path) => absent(w, o.path)
      BY <3>1 DEF sameAt, absent, nodes
    <3>3. parent(o.path) \in w.dirs
      BY <2>2, <3>1 DEF Making, grows
    <3>4. room(r.image, v, parent(o.path)) => room(r.image, w, parent(o.path))
      BY <2>2, <3>1 DEF Making, grows, room
    <3>5. o.path \in v.carried => o.path \in w.carried /\ w.chain[o.path] = v.chain[o.path]
      BY <1>0, <3>1 DEF sameAt
    <3> DEFINE owner == o.kind = "mkdir" /\ place \in {"dots", "place"}
               kind == IF o.kind = "mkdir" THEN "dir" ELSE "file"
    <3>6. /\ IF owner THEN o.path \in v.carried /\ v.chain[o.path] = <<r.free>>
             ELSE absent(v, o.path)
          /\ place # "start" =>
                r.image.put = slot(kind, lastOf(o.path), IF owner THEN r.free ELSE 0, 0)
          /\ place \notin {"start", "link"} => room(r.image, v, parent(o.path))
          /\ place = "use" => r.free # 0
          /\ owner /\ place = "place" => ~ showsOld(content[r.free])
      BY <2>2, <3>1 DEF Making
    <3>7. owner /\ place = "place" => ~ showsOld(content2[r.free])
      BY <3>6
    <3> HIDE DEF kind
    <3>8. IF owner THEN o.path \in w.carried /\ w.chain[o.path] = <<r.free>>
          ELSE absent(w, o.path)
      BY <3>2, <3>5, <3>6
    <3> HIDE DEF owner
    <3> QED
      BY <3>3, <3>4, <3>6, <3>7, <3>8 DEF Making, owner, kind
  <2> QED
    BY <2>1, <2>2
<1>2. ASSUME o.kind = "truncate" PROVE Truncating(place, o, r, w)
  <2>1. sameAt(v, w, o.path) /\ Truncating(place, o, r, v)
    BY <1>2 DEF saving, subjects, Doing
  <2>2. /\ o.path \in v.files /\ o.path \in w.files
        /\ w.chain[o.path] = v.chain[o.path] /\ w.spot[o.path] = v.spot[o.path]
        /\ o.path \in w.held <=> o.path \in v.held
    BY <1>0, <2>1 DEF Truncating, sameAt
  <2> QED
    BY <2>1, <2>2 DEF Truncating, isAt
<1>3. ASSUME o.kind \in {"unlink", "rmdir"} PROVE Removing(place, o, r, w)
  <2>1. sameAt(v, w, o.path) /\ Removing(place, o, r, v)
    BY <1>3 DEF saving, subjects, Doing
  <2>2. o.path \in v.doomed =>
           w.chain[o.path] = v.chain[o.path] /\ w.spot[o.path] = v.spot[o.path]
    BY <1>0, <2>1 DEF sameAt
  <2>3. /\ o.path \in w.dirs <=> o.path \in v.dirs
        /\ o.path \in w.files \ w.held <=> o.path \in v.files \ v.held
        /\ o.path \in w.doomed <=> o.path \in v.doomed
    BY <2>1 DEF sameAt
  <2> QED
    BY <2>1, <2>2, <2>3 DEF Removing, isAt
<1>4. ASSUME o.kind = "rename" PROVE Renaming(place, o, r, w)
  <2>1. /\ sameAt(v, w, o.path) /\ sameAt(v, w, o.to) /\ Renaming(place, o, r, v)
        /\ grows(v, w, parent(o.to))
    BY <1>4 DEF saving, subjects, Doing
  <2>2. parent(o.to) \in w.dirs /\ (room(r.target, v, parent(o.to)) => room(r.target, w, parent(o.to)))
    BY <2>1 DEF Renaming, grows, room
  <2>3. absent(v, o.to) => absent(w, o.to)
    BY <2>1 DEF sameAt, absent, nodes
  <2>4. w.chain[o.path] = v.chain[o.path] /\ w.spot[o.path] = v.spot[o.path]
    BY <1>0, <2>1 DEF Renaming, sameAt
  <2>5. /\ o.path \in w.files \ w.held <=> o.path \in v.files \ v.held
        /\ o.path \in w.carried <=> o.path \in v.carried
    BY <2>1 DEF sameAt
  <2> QED
    BY <2>1, <2>2, <2>3, <2>4, <2>5 DEF Renaming, isAt, renames
<1> QED
  BY <1>1, <1>2, <1>3, <1>4 DEF Doing

\* Operations that do not exclude each other are about different paths.
LEMMA Apart ==
    ASSUME TypeInv, Exclusive, NEW v, NodesOf(v), NEW t \in Threads, NEW u \in Threads, t # u,
           pc[t] # "idle", pc[u] # "idle", ~ saving(pc[t], op[t]), ~ saving(pc[u], op[u]),
           Doing(pc[t], op[t], reg[t], disk, v), Doing(pc[u], op[u], reg[u], disk, v)
    PROVE  subjects(op[t]) \cap subjects(op[u]) = {}
<1> DEFINE removers == {"unlink", "rmdir", "rename"}
<1>1. ~ excludes(op[t], op[u])
  BY DEF Exclusive
<1>2. ASSUME NEW x \in Threads, pc[x] # "idle"
      PROVE  /\ op[x].path \in Paths /\ op[x].path # <<>>
             /\ op[x].kind = "rename" => op[x].to \in Paths /\ op[x].to # <<>>
             /\ op[x].kind \in {"create", "mkdir", "truncate"} \cup removers
             /\ op[x].kind \in removers => removes(op[x]) = subjects(op[x])
             /\ \A p \in subjects(op[x]) : p \in prefixes(op[x].path) \cup prefixes(op[x].to)
  <2>1. /\ op[x] \in Calls /\ op[x].path \in Paths /\ op[x].path # <<>> /\ op[x].to \in Paths
        /\ op[x].kind = "rename" => op[x].to # <<>>
    BY <1>2, OpFacts DEF Paths
  <2>2. op[x].kind \in {"create", "mkdir", "truncate"} \cup removers
    BY <2>1 DEF Calls
  <2>3. op[x].kind \in removers => removes(op[x]) = subjects(op[x])
    BY DEF removes, subjects
  <2>4. \A p \in subjects(op[x]) : p \in prefixes(op[x].path) \cup prefixes(op[x].to)
    BY <2>1, PrefixFacts DEF subjects
  <2> QED
    BY <2>1, <2>2, <2>3, <2>4
<1>3. CASE op[t].kind \in removers
  BY <1>1, <1>2, <1>3 DEF excludes
<1>4. CASE op[u].kind \in removers
  BY <1>1, <1>2, <1>4 DEF excludes
<1>5. CASE op[t].kind \notin removers /\ op[u].kind \notin removers
  <2>1. subjects(op[t]) = {op[t].path} /\ subjects(op[u]) = {op[u].path}
    BY <1>5 DEF subjects
  <2>2. ASSUME op[t].path = op[u].path PROVE FALSE
    <3>1. inodes(op[t]) \cap inodes(op[u]) = {}
      BY <1>1 DEF excludes
    <3>2. op[t].kind = "truncate" <=> op[u].kind # "truncate"
      BY <1>2, <1>5, <2>2, <3>1 DEF inodes
    <3>3. ASSUME NEW x \in Threads, NEW y \in Threads, pc[y] # "idle", op[x].kind = "truncate",
                 op[y].kind \notin removers, op[y].kind # "truncate",
                 ~ saving(pc[y], op[y]), op[x].path = op[y].path,
                 Doing(pc[x], op[x], reg[x], disk, v), Doing(pc[y], op[y], reg[y], disk, v)
          PROVE  FALSE
      <4>1. op[x].path \in v.files
        BY <3>3 DEF Doing, Truncating
      <4>2. op[y].kind \in {"create", "mkdir"}
        BY <1>2, <3>3
      <4>3. op[y].path \in v.carried \/ absent(v, op[y].path)
        BY <3>3, <4>2 DEF Doing, Making, saving
      <4> QED
        BY <3>3, <4>1, <4>3 DEF absent, nodes, NodesOf
    <3> QED
      BY <1>5, <2>2, <3>2, <3>3
  <2> QED
    BY <2>1, <2>2
<1> QED
  BY <1>3, <1>4, <1>5

\* A step of t that changes the view at the paths of its operation only.
LEMMA OtherThreads ==
    ASSUME TypeInv, Exclusive, NEW v, NodesOf(v),
           \A u \in Threads : Doing(pc[u], op[u], reg[u], disk, v),
           NEW t \in Threads, pc[t] # "idle", ~ saving(pc[t], op[t]), NEW w, NEW content2,
           \A p \in Paths : p \notin subjects(op[t]) => sameAt(v, w, p),
           \A d \in Paths : grows(v, w, d),
           \A q \in v.carried : q # op[t].path =>
               \A x : onChain(x, v.chain[q]) => content2[x] = disk[x],
           NEW u \in Threads, u # t
    PROVE  Doing(pc[u], op[u], reg[u], content2, w)
<1>1. CASE pc[u] = "idle"
  <2>1. op[u].kind = "none"
    BY <1>1, StateFacts DEF fits, None
  <2> QED
    BY <2>1 DEF Doing
<1>2. CASE pc[u] # "idle"
  <2>1. /\ op[u].path \in Paths /\ op[u].path # <<>> /\ op[u].to \in Paths
        /\ op[u].kind = "rename" => op[u].to # <<>>
    BY <1>2, OpFacts DEF Paths
  <2>2. /\ grows(v, w, parent(op[u].path))
        /\ op[u].kind = "rename" => grows(v, w, parent(op[u].to))
    BY <2>1, SplitPath
  <2>3. saving(pc[u], op[u]) \/ \A p \in subjects(op[u]) : sameAt(v, w, p)
    <3>1. CASE ~ saving(pc[u], op[u])
      <4>1. subjects(op[t]) \cap subjects(op[u]) = {}
        BY <1>2, <3>1, Apart
      <4>2. subjects(op[u]) \subseteq Paths
        BY <2>1 DEF subjects
      <4> QED
        BY <4>1, <4>2
    <3> QED
      BY <3>1
  <2>4. ASSUME op[u].kind = "mkdir", pc[u] = "place"
        PROVE  content2[reg[u].free] = disk[reg[u].free]
    <3>1. ~ saving(pc[u], op[u])
      BY <2>4 DEF saving
    <3>2. op[u].path # op[t].path
      BY <1>2, <3>1, Apart DEF subjects
    <3>3. op[u].path \in v.carried /\ v.chain[op[u].path] = <<reg[u].free>>
      BY <2>4 DEF Doing, Making
    <3>4. onChain(reg[u].free, v.chain[op[u].path])
      BY <3>3 DEF onChain
    <3> QED
      BY <3>2, <3>3, <3>4
  <2>5. Doing(pc[u], op[u], reg[u], disk, v)
    OBVIOUS
  <2> QED
    BY <2>2, <2>3, <2>4, <2>5, DoingKept
<1> QED
  BY <1>1, <1>2

-----------------------------------------------------------------------------
(* Steps.                                                                   *)

LEMMA NoneExcludes == \A o : ~ excludes(None, o) /\ ~ excludes(o, None)
<1>1. inodes(None) = {} /\ removes(None) = {}
  BY DEF inodes, removes, None
<1>2. prefixes(<<>>) = {}
  BY DEF prefixes
<1>3. None.path = <<>> /\ None.to = <<>>
  BY DEF None
<1> QED
  BY <1>1, <1>2, <1>3 DEF excludes

LEMMA ExclusiveKept ==
    ASSUME TypeInv, Exclusive, NEW t \in Threads, op' = op \/ op' = [op EXCEPT ![t] = None]
    PROVE  Exclusive'
<1>1. op = [u \in Threads |-> op[u]]
  BY StateFacts
<1>2. ASSUME NEW x \in Threads, NEW y \in Threads, x # y PROVE ~ excludes(op'[x], op'[y])
  <2>1. op'[x] \in {op[x], None} /\ op'[y] \in {op[y], None}
    BY <1>1
  <2> QED
    BY <1>2, <2>1, NoneExcludes DEF Exclusive
<1> QED
  BY <1>2 DEF Exclusive

LEMMA CalmBefore ==
    ASSUME damage \subseteq damage'
    PROVE  (calm' => calm) /\ (damage' = {} => damage = {})
  BY DEF calm

\* What the holders of a view become in a step of t.
passes(t, place, S, S2, kinds) ==
    \A q \in S2 : \/ q \in S /\ (q # op[t].path \/ ~ busy(pc[t], op[t]))
                  \/ q = op[t].path /\ op[t].kind \in kinds /\ busy(place, op[t])

LEMMA HoldersStep ==
    ASSUME TypeInv, NEW t \in Threads, NEW place,
           pc' = [pc EXCEPT ![t] = place],
           op' = IF place = "idle" THEN [op EXCEPT ![t] = None] ELSE op,
           NEW v, NEW w, Holders(pc, op, v),
           passes(t, place, v.held, w.held, {"truncate"}),
           passes(t, place, v.doomed, w.doomed, {"unlink", "rmdir"}),
           passes(t, place, v.carried, w.carried, {"mkdir", "rename"})
    PROVE  Holders(pc', op', w)
<1>1. /\ \A u \in Threads : u # t => pc'[u] = pc[u] /\ op'[u] = op[u]
      /\ pc'[t] = place /\ (place # "idle" => op'[t] = op[t])
  <2>1. pc = [u \in Threads |-> pc[u]] /\ op = [u \in Threads |-> op[u]]
    BY StateFacts
  <2> QED
    BY <2>1
<1>2. ASSUME NEW S, NEW S2, NEW kinds, passes(t, place, S, S2, kinds),
             \A q \in S : isBy(pc, op, kinds, q), NEW q \in S2
      PROVE  isBy(pc', op', kinds, q)
  <2>1. CASE q \in S /\ (q # op[t].path \/ ~ busy(pc[t], op[t]))
    <3>1. PICK u \in Threads : op[u].kind \in kinds /\ op[u].path = q /\ busy(pc[u], op[u])
      BY <1>2, <2>1 DEF isBy
    <3>2. u # t
      BY <2>1, <3>1
    <3> QED
      BY <1>1, <3>1, <3>2 DEF isBy
  <2>2. CASE q = op[t].path /\ op[t].kind \in kinds /\ busy(place, op[t])
    <3>1. place # "idle"
      BY <2>2 DEF busy
    <3>2. pc'[t] = place /\ op'[t] = op[t]
      BY <1>1, <3>1
    <3> QED
      BY <2>2, <3>2 DEF isBy
  <2> QED
    BY <1>2, <2>1, <2>2 DEF passes
<1> QED
  BY <1>2 DEF Holders

\* Who is named by what a thread knows.
LEMMA KnownHolder ==
    ASSUME NEW place, place # "idle", NEW o, o.kind \in {"create", "mkdir", "truncate", "unlink", "rmdir", "rename"},
           ~ saving(place, o), NEW r, NEW content, NEW w, NodesOf(w), Doing(place, o, r, content, w)
    PROVE  /\ o.path \in w.held => o.kind = "truncate" /\ busy(place, o)
           /\ o.path \in w.doomed => o.kind \in {"unlink", "rmdir"} /\ busy(place, o)
           /\ o.path \in w.carried => o.kind \in {"mkdir", "rename"} /\ busy(place, o)
<1>0. \A p : /\ p \in w.dirs \cup w.files => p \notin w.doomed \cup w.carried
             /\ p \in w.dirs \cup w.doomed \cup w.carried => p \notin w.held
             /\ p \in w.doomed => p \notin w.carried \cup w.files \cup w.dirs
             /\ absent(w, p) => p \notin w.doomed \cup w.carried \cup w.held
  BY DEF NodesOf, absent, nodes
<1>1. CASE o.kind \in {"create", "mkdir"}
  <2>1. place # "save" /\ Making(place, o, r, content, w)
    BY <1>1 DEF saving, Doing
  <2> QED
    BY <1>0, <1>1, <2>1 DEF Making, busy
<1>2. CASE o.kind = "truncate"
  BY <1>0, <1>2 DEF Doing, Truncating, busy
<1>3. CASE o.kind \in {"unlink", "rmdir"}
  BY <1>0, <1>3 DEF Doing, Removing, busy
<1>4. CASE o.kind = "rename"
  <2>1. Renaming(place, o, r, w)
    BY <1>4 DEF Doing
  <2>2. CASE place = "target"
    BY <1>0, <1>4, <2>1, <2>2 DEF Renaming, busy
  <2>3. CASE place # "target"
    BY <1>0, <1>4, <2>1, <2>3 DEF Renaming, busy
  <2> QED
    BY <2>2, <2>3
<1> QED
  BY <1>1, <1>2, <1>3, <1>4

\* A step of t that leads from a view to another one.
LEMMA StepViewed ==
    ASSUME TypeInv, NEW t \in Threads, pc[t] # "idle", NEW place, NEW r, NEW v, NEW w,
           pc' = [pc EXCEPT ![t] = place], reg' = [reg EXCEPT ![t] = r],
           op' = IF place = "idle" THEN [op EXCEPT ![t] = None] ELSE op,
           isViewed(v),
           ChainsOf(table', w), NodesOf(w), EntriesOf(disk', w), NoOthers(disk', w),
           damage' = {} => Covers(table', w),
           \A q : q # op[t].path => /\ q \in w.held => q \in v.held
                                    /\ q \in w.doomed => q \in v.doomed
                                    /\ q \in w.carried => q \in v.carried,
           place = "idle" \/ saving(place, op[t]) =>
               \/ w = v /\ ~ busy(pc[t], op[t])
               \/ op[t].path \notin w.held \cup w.doomed \cup w.carried,
           place # "idle" => Doing(place, op[t], r, disk', w),
           \A u \in Threads : u # t => Doing(pc[u], op[u], reg[u], disk', w)
    PROVE  isViewed(w)'
<1>1. /\ \A u \in Threads : u # t => pc'[u] = pc[u] /\ op'[u] = op[u] /\ reg'[u] = reg[u]
      /\ pc'[t] = place /\ reg'[t] = r
      /\ op'[t] = IF place = "idle" THEN None ELSE op[t]
  <2>1. pc = [u \in Threads |-> pc[u]] /\ op = [u \in Threads |-> op[u]]
        /\ reg = [u \in Threads |-> reg[u]]
    BY StateFacts
  <2> QED
    BY <2>1
<1>2. ASSUME NEW u \in Threads PROVE Doing(pc'[u], op'[u], reg'[u], disk', w)
  <2>1. CASE u = t
    <3>1. Doing(place, None, r, disk', w)
      BY DEF Doing, None
    <3> QED
      BY <1>1, <2>1, <3>1
  <2>2. CASE u # t
    BY <1>1, <2>2
  <2> QED
    BY <2>1, <2>2
<1>3. Holders(pc, op, v)
  BY DEF isViewed, Sound
<1>4. op[t].kind \in {"create", "mkdir", "truncate", "unlink", "rmdir", "rename"}
  BY OpFacts DEF Calls
<1>5. /\ passes(t, place, v.held, w.held, {"truncate"})
      /\ passes(t, place, v.doomed, w.doomed, {"unlink", "rmdir"})
      /\ passes(t, place, v.carried, w.carried, {"mkdir", "rename"})
  <2>1. CASE place = "idle" \/ saving(place, op[t])
    BY <2>1 DEF passes
  <2>2. CASE place # "idle" /\ ~ saving(place, op[t])
    <3>1. /\ op[t].path \in w.held => op[t].kind = "truncate" /\ busy(place, op[t])
          /\ op[t].path \in w.doomed => op[t].kind \in {"unlink", "rmdir"} /\ busy(place, op[t])
          /\ op[t].path \in w.carried => op[t].kind \in {"mkdir", "rename"} /\ busy(place, op[t])
      BY <1>4, <2>2, KnownHolder
    <3> QED
      BY <3>1 DEF passes
  <2> QED
    BY <2>1, <2>2
<1>6. Holders(pc', op', w)
  BY <1>3, <1>5, HoldersStep
<1> QED
  BY <1>2, <1>6 DEF isViewed, Sound

\* A step of t that leaves the table and the clusters alone, and the view too.
LEMMA LocalStep ==
    ASSUME TreeInv, TypeInv', NEW t \in Threads, pc[t] # "idle", NEW place, NEW r,
           pc' = [pc EXCEPT ![t] = place], reg' = [reg EXCEPT ![t] = r],
           op' = IF place = "idle" THEN [op EXCEPT ![t] = None] ELSE op,
           UNCHANGED <<table, disk>>, damage \subseteq damage',
           calm' => \A v : isViewed(v) =>
               IF place = "idle" THEN ~ busy(pc[t], op[t]) \/ absent(v, op[t].path)
                                      \/ op[t].path \in v.files \ v.held
               ELSE Doing(place, op[t], r, disk, v),
           ~ saving(place, op[t])
    PROVE  TreeInv'
<1>1. Exclusive'
  BY ExclusiveKept DEF TreeInv
<1>2. ASSUME calm' PROVE \E w : isViewed(w)'
  <2>1. calm /\ (damage' = {} => damage = {})
    BY <1>2, CalmBefore
  <2>2. PICK v : isViewed(v)
    BY <2>1 DEF TreeInv
  <2>3. /\ ChainsOf(table', v) /\ NodesOf(v) /\ EntriesOf(disk', v) /\ NoOthers(disk', v)
        /\ damage' = {} => Covers(table', v)
        /\ \A u \in Threads : Doing(pc[u], op[u], reg[u], disk', v)
    BY <2>1, <2>2 DEF isViewed, Sound
  <2>4. \A p : /\ absent(v, p) => p \notin v.held \cup v.doomed \cup v.carried
               /\ p \in v.files \ v.held => p \notin v.held \cup v.doomed \cup v.carried
    BY <2>3 DEF NodesOf, absent, nodes
  <2>5. IF place = "idle" THEN ~ busy(pc[t], op[t]) \/ absent(v, op[t].path)
                               \/ op[t].path \in v.files \ v.held
        ELSE Doing(place, op[t], r, disk, v)
    BY <1>2, <2>2
  <2>6. TypeInv
    BY DEF TreeInv
  <2>7. isViewed(v)'
    BY <2>2, <2>3, <2>4, <2>5, <2>6, StepViewed
  <2> QED
    BY <2>7
<1> QED
  BY <1>1, <1>2 DEF TreeInv


-----------------------------------------------------------------------------
(* What the lookups of an operation give.                                   *)

LEMMA Reach ==
    ASSUME TypeInv, NEW v, isViewed(v), NEW o,
           \A u \in Threads : op[u].kind \in {"unlink", "rmdir"} /\ busy(pc[u], op[u]) =>
               ~ excludes(o, op[u]),
           NEW p \in Paths, prefixes(p) \subseteq prefixes(o.path) \cup prefixes(o.to)
    PROVE  /\ getFileEntry(p) = answer(disk, v, p)
           /\ p \notin v.doomed
<1>1. /\ ChainsOf(table, v) /\ NodesOf(v) /\ EntriesOf(disk, v) /\ NoOthers(disk, v)
      /\ Holders(pc, op, v) /\ Proper(table) /\ disk \in Disks
  BY StateFacts DEF isViewed, Sound
<1>2. ASSUME NEW q \in prefixes(p) PROVE q \notin v.doomed
  <2>1. SUFFICES ASSUME q \in v.doomed PROVE FALSE
    OBVIOUS
  <2>2. PICK u \in Threads :
            op[u].kind \in {"unlink", "rmdir"} /\ op[u].path = q /\ busy(pc[u], op[u])
    BY <1>1, <2>1 DEF Holders, isBy
  <2>3. q \in removes(op[u])
    BY <2>2 DEF removes
  <2>4. ~ excludes(o, op[u])
    BY <2>2
  <2> QED
    BY <1>2, <2>3, <2>4 DEF excludes
<1>3. p \notin v.doomed
  <2>1. CASE p = <<>>
    BY <1>1, <2>1 DEF NodesOf
  <2>2. CASE p # <<>>
    BY <1>2, <2>2, PrefixFacts
  <2> QED
    BY <2>1, <2>2
<1> QED
  BY <1>1, <1>2, <1>3, FindNode DEF getFileEntry

\* A lookup of a path finds what a view says of it.
finds(v, p) ==
    /\ exists(p) <=> p # <<>> /\ p \in nodes(v)
    /\ p # <<>> /\ p \in nodes(v) =>
          /\ getFileEntry(p).cluster = v.spot[p][1]
          /\ getFileEntry(p).slot = v.spot[p][2]
          /\ getFileEntry(p).entry = entryOf(disk, v, p)
    /\ getFileEntry(p).entry.kind = "dir" <=> p \in v.dirs
    /\ getFileEntry(p).entry.kind = "file" <=> p \in v.files
    /\ p \in v.dirs => folder(p) = v.chain[p][1] /\ v.chain[p] # <<>>

LEMMA Answers ==
    ASSUME TypeInv, NEW v, isViewed(v), NEW p \in Paths, p \notin v.doomed,
           getFileEntry(p) = answer(disk, v, p)
    PROVE  finds(v, p)
<1>1. /\ ChainsOf(table, v) /\ NodesOf(v) /\ EntriesOf(disk, v) /\ NoOthers(disk, v)
      /\ Proper(table)
  BY StateFacts DEF isViewed, Sound
<1>2. CASE p = <<>>
  <2>1. getFileEntry(p) = Root
    BY <1>2 DEF answer
  <2>2. p \in v.dirs /\ p \notin v.files /\ v.chain[p] # <<>> /\ v.chain[p][1] = 2
    BY <1>1, <1>2 DEF NodesOf
  <2>3. Root.cluster = 0 /\ Root.entry.kind = "dir" /\ Root.entry.first = 2
    BY DEF Root, slot
  <2> QED
    BY <1>2, <2>1, <2>2, <2>3 DEF finds, exists, folder
<1>3. CASE p # <<>> /\ p \in nodes(v)
  <2>1. getFileEntry(p) = hitOf(disk, v, p)
    BY <1>3 DEF answer
  <2>2. /\ getFileEntry(p).cluster = v.spot[p][1]
        /\ getFileEntry(p).slot = v.spot[p][2]
        /\ getFileEntry(p).entry = entryOf(disk, v, p)
    BY <2>1 DEF hitOf
  <2>3. v.spot[p][1] \in Clusters
    <3>1. parent(p) \in Paths /\ onChain(v.spot[p][1], v.chain[parent(p)])
      BY <1>1, <1>3, SpotOfNode
    <3> QED
      BY <1>1, <3>1, OwnedIsUsed
  <2>4. v.spot[p][1] # 0
    BY <2>3, FatAssumption DEF Clusters
  <2>5. /\ p \in v.dirs \/ p \in v.files
        /\ p \in v.dirs => p \notin v.files
    BY <1>1, <1>3 DEF nodes, NodesOf
  <2>6. /\ p \in v.dirs => /\ entryOf(disk, v, p).kind = "dir" /\ v.chain[p] # <<>>
                           /\ entryOf(disk, v, p).first = v.chain[p][1]
        /\ p \in v.files => entryOf(disk, v, p).kind = "file"
    BY <1>1, <1>3 DEF EntriesOf
  <2> QED
    BY <1>3, <2>2, <2>4, <2>5, <2>6 DEF finds, exists, folder
<1>4. CASE p \notin nodes(v)
  <2>0. p # <<>>
    BY <1>1, <1>4 DEF NodesOf, nodes
  <2>1. getFileEntry(p) = NotFound
    BY <1>4, <2>0 DEF answer
  <2>2. NotFound.cluster = 0 /\ NotFound.entry.kind = "end"
    BY DEF NotFound, End, slot
  <2> QED
    BY <1>1, <1>4, <2>0, <2>1, <2>2 DEF finds, exists, nodes, NodesOf
<1> QED
  BY <1>2, <1>3, <1>4

\* A thread's own lookups.
LEMMA OwnLookup ==
    ASSUME TypeInv, Exclusive, NEW v, isViewed(v), NEW t \in Threads, pc[t] # "idle",
           op[t].kind \in {"unlink", "rmdir"} => pc[t] = "start",
           NEW p \in Paths, prefixes(p) \subseteq prefixes(op[t].path) \cup prefixes(op[t].to)
    PROVE  finds(v, p)
<1>1. \A u \in Threads : op[u].kind \in {"unlink", "rmdir"} /\ busy(pc[u], op[u]) =>
               ~ excludes(op[t], op[u])
  BY DEF Exclusive, busy
<1>2. getFileEntry(p) = answer(disk, v, p) /\ p \notin v.doomed
  BY <1>1, Reach
<1> QED
  BY <1>2, Answers

\* The paths of an operation can be looked up, and their directories.
LEMMA OwnPaths ==
    ASSUME TypeInv, NEW t \in Threads, pc[t] # "idle"
    PROVE  LET o == op[t]
               own(p) == p \in Paths /\ prefixes(p) \subseteq prefixes(o.path) \cup prefixes(o.to)
           IN  /\ own(o.path) /\ own(o.to) /\ own(parent(o.path))
               /\ o.kind = "rename" => own(parent(o.to))
               /\ o.path # <<>> /\ (o.kind = "rename" => o.to # <<>>)
               /\ o.kind \in {"create", "mkdir", "truncate", "unlink", "rmdir", "rename"}
<1>1. /\ op[t] \in Calls /\ op[t].path \in Paths /\ op[t].path # <<>> /\ op[t].to \in Paths
      /\ op[t].kind = "rename" => op[t].to # <<>>
  BY OpFacts DEF Paths
<1>2. op[t].kind \in {"create", "mkdir", "truncate", "unlink", "rmdir", "rename"}
  BY <1>1 DEF Calls
<1>3. parent(op[t].path) \in Paths /\ prefixes(parent(op[t].path)) \subseteq prefixes(op[t].path)
  BY <1>1, SplitPath, PrefixFacts
<1>4. op[t].kind = "rename" =>
          parent(op[t].to) \in Paths /\ prefixes(parent(op[t].to)) \subseteq prefixes(op[t].to)
  BY <1>1, SplitPath, PrefixFacts
<1> QED
  BY <1>1, <1>2, <1>3, <1>4

-----------------------------------------------------------------------------
(* The steps, action by action.  First those that only read.               *)

\* An image of a hole in a cluster of a directory.
LEMMA HoleRoom ==
    ASSUME TypeInv, NEW v, ChainsOf(table, v), NEW d \in Paths, NEW c, onChain(c, v.chain[d]),
           holes(disk[c]) # {}, NEW put
    PROVE  room(image(c, Min(holes(disk[c])), put), v, d)
<1> DEFINE m == Min(holes(disk[c]))
           i == image(c, m, put)
<1>1. m \in holes(disk[c]) /\ m \in 1 .. SlotCount
  BY HoleType
<1>2. c \in Clusters /\ c # 0
  <2>1. Proper(table)
    BY StateFacts
  <2>2. c \in Clusters
    BY <2>1, OwnedIsUsed
  <2> QED
    BY <2>2, FatAssumption DEF Clusters
<1>3. i.cluster = c /\ i.slot = m /\ i.seen = disk[c]
  BY <1>2 DEF image
<1>4. disk[c][m].kind \in {"end", "deleted"}
  BY <1>1 DEF holes, isHole
<1>5. ASSUME NEW j \in 1 .. m - 1 PROVE disk[c][j].kind # "end"
  <2>1. j \in 1 .. SlotCount /\ j < m
    BY <1>1, SlotFacts
  <2>2. \A k \in holes(disk[c]) : m <= k
    <3>1. holes(disk[c]) \subseteq Nat /\ holes(disk[c]) # {}
      BY SlotFacts DEF holes
    <3> QED
      BY <3>1, MinIsLeast
  <2>3. j \notin holes(disk[c])
    BY <1>1, <2>1, <2>2, SlotFacts
  <2> QED
    BY <2>1, <2>3 DEF holes, isHole
<1> HIDE DEF i, m
<1>6. room(i, v, d)
  BY <1>1, <1>3, <1>4, <1>5 DEF room
<1> QED
  BY <1>6 DEF i, m

\* A view is one of the table and the clusters.
LEMMA ViewFacts ==
    ASSUME TypeInv, NEW v, isViewed(v)
    PROVE  /\ ChainsOf(table, v) /\ NodesOf(v) /\ EntriesOf(disk, v) /\ NoOthers(disk, v)
           /\ damage = {} => Covers(table, v)
           /\ \A t \in Threads : Doing(pc[t], op[t], reg[t], disk, v)
           /\ Proper(table) /\ disk \in Disks
  BY StateFacts DEF isViewed, Sound

\* Searching a directory for a hole.
LEMMA MkSearchTree == ASSUME TreeInv, TypeInv', NEW t \in Threads, MkSearch(t) PROVE TreeInv'
<1> DEFINE d == parent(op[t].path)
           chain == linked(table, folder(d))
           open == {k \in DOMAIN chain : holes(disk[chain[k]]) # {}}
           k == Min(open)
           kind == IF op[t].kind = "mkdir" THEN "dir" ELSE "file"
           put == slot(kind, lastOf(op[t].path), 0, 0)
           i == image(chain[k], Min(holes(disk[chain[k]])), put)
           r == IF open = {} THEN [reg[t] EXCEPT !.image.put = put] ELSE [reg[t] EXCEPT !.image = i]
           place == IF open = {} THEN "link" ELSE IF kind = "dir" THEN "find" ELSE "place"
<1>0. /\ pc[t] = "start" /\ op[t].kind \in {"create", "mkdir"}
      /\ UNCHANGED <<table, disk, damage>>
      /\ pc' = [pc EXCEPT ![t] = place] /\ op' = op
  BY DEF MkSearch, at, fatVars, goto, lastOf
<1>1. reg' = [reg EXCEPT ![t] = r]
  <2>1. CASE open = {}
    BY <2>1 DEF MkSearch, lastOf
  <2>2. CASE open # {}
    BY <2>2 DEF MkSearch, lastOf
  <2> QED
    BY <2>1, <2>2
<1>2. TypeInv /\ Exclusive /\ reg[t] \in Regs
  BY StateFacts DEF TreeInv
<1>3. ASSUME NEW v, isViewed(v) PROVE Doing(place, op[t], r, disk, v)
  <2>1. /\ d \in v.dirs /\ d \in Paths /\ absent(v, op[t].path)
    <3>1. Doing(pc[t], op[t], reg[t], disk, v)
      BY <1>2, <1>3, ViewFacts
    <3> QED
      BY <1>0, <1>2, <3>1, OwnPaths DEF Doing, Making
  <2>2. chain = v.chain[d] /\ v.chain[d] \in Seq(Clusters)
    <3>1. folder(d) = v.chain[d][1] /\ v.chain[d] # <<>>
      <4>1. prefixes(d) \subseteq prefixes(op[t].path) \cup prefixes(op[t].to)
        BY <1>0, <1>2, OwnPaths
      <4>2. pc[t] # "idle" /\ (op[t].kind \in {"unlink", "rmdir"} => pc[t] = "start")
        BY <1>0
      <4> HIDE DEF d
      <4>3. finds(v, d)
        BY <1>2, <1>3, <2>1, <4>1, <4>2, OwnLookup
      <4> QED
        BY <2>1, <4>3 DEF finds
    <3> QED
      BY <1>2, <1>3, <2>1, <3>1, ViewFacts, ChainOfPath
  <2>3. r.image.put = put
    <3>1. CASE open = {}
      <4>1. r = [reg[t] EXCEPT !.image = [reg[t].image EXCEPT !.put = put]]
        BY <3>1
      <4> HIDE DEF r, put
      <4> QED
        BY <1>2, <4>1, RegParts, ImageParts
    <3>2. CASE open # {}
      <4>1. r = [reg[t] EXCEPT !.image = i]
        BY <3>2
      <4>2. i.put = put
        BY DEF image
      <4> HIDE DEF r, put, i
      <4> QED
        BY <1>2, <4>1, <4>2, RegParts
    <3> HIDE DEF r, put, open
    <3> QED
      BY <3>1, <3>2
  <2>4. ASSUME open # {} PROVE room(r.image, v, d)
    <3>1. k \in open
      <4>1. open \in SUBSET Nat
        BY <2>2
      <4> HIDE DEF open
      <4> QED
        BY <2>4, <4>1, MinIsLeast
    <3>2. onChain(chain[k], v.chain[d]) /\ holes(disk[chain[k]]) # {}
      <4> HIDE DEF k
      <4> QED
        BY <2>2, <3>1 DEF onChain
    <3>3. room(i, v, d)
      <4> HIDE DEF put, k, chain
      <4> QED
        BY <1>2, <1>3, <2>1, <3>2, HoleRoom, ViewFacts
    <3>4. r = [reg[t] EXCEPT !.image = i]
      BY <2>4
    <3> HIDE DEF i, r
    <3>5. r.image = i
      BY <1>2, <3>4, RegParts
    <3> QED
      BY <3>3, <3>5
  <2>5. place \in {"link", "find", "place"} /\ (open = {} <=> place = "link")
        /\ (place = "place" => op[t].kind # "mkdir")
    OBVIOUS
  <2>6. Making(place, op[t], r, disk, v)
    <3> HIDE DEF place, r, open
    <3> QED
      BY <1>0, <2>1, <2>3, <2>4, <2>5 DEF Making
  <2> HIDE DEF place, r
  <2> QED
    BY <1>0, <2>6 DEF Doing
<1>4. place # "idle" /\ ~ saving(place, op[t])
  BY DEF saving
<1> HIDE DEF place, r
<1> QED
  BY <1>0, <1>1, <1>2, <1>3, <1>4, LocalStep DEF TreeInv

LEMMA FindFreeTree == ASSUME TreeInv, TypeInv', NEW t \in Threads, FindFree(t) PROVE TreeInv'
<1> DEFINE r == [reg[t] EXCEPT !.free = nextFree(table)]
<1>0. /\ pc[t] = "find" /\ UNCHANGED <<table, disk>>
      /\ reg' = [reg EXCEPT ![t] = r] /\ pc' = [pc EXCEPT ![t] = "use"] /\ op' = op
      /\ damage \subseteq damage' /\ (nextFree(table) = 0 => "full" \in damage')
  BY DEF FindFree, at, fatVars, goto, because
<1>1. TypeInv /\ reg[t] \in Regs /\ op[t].kind \in {"mkdir", "truncate"}
  BY <1>0, StateFacts DEF TreeInv, fits
<1>2. /\ r.image = reg[t].image /\ r.count = reg[t].count /\ r.free = nextFree(table)
  BY <1>1, RegParts
<1>3. ASSUME calm', NEW v, isViewed(v) PROVE Doing("use", op[t], r, disk, v)
  <2>1. r.free # 0
    BY <1>0, <1>2, <1>3 DEF calm
  <2>2. Doing("find", op[t], reg[t], disk, v)
    BY <1>0, <1>1, <1>3, ViewFacts
  <2> HIDE DEF r
  <2>3. CASE op[t].kind = "mkdir"
    BY <1>2, <2>1, <2>2, <2>3 DEF Doing, Making
  <2>4. CASE op[t].kind = "truncate"
    BY <1>2, <2>1, <2>2, <2>4 DEF Doing, Truncating
  <2> QED
    BY <1>1, <2>3, <2>4
<1> HIDE DEF r
<1> QED
  BY <1>0, <1>1, <1>3, LocalStep DEF TreeInv, saving

\* The cluster of the entry is read again.
LEMMA RereadTree == ASSUME TreeInv, TypeInv', NEW t \in Threads, Reread(t) PROVE TreeInv'
<1> DEFINE i == [[reg[t].image EXCEPT !.seen = disk[reg[t].image.cluster]]
                    EXCEPT !.put = [reg[t].image.put EXCEPT !.size = op[t].size]]
           r == [reg[t] EXCEPT !.image = i]
<1>0. /\ pc[t] = "reread" /\ UNCHANGED <<table, disk, damage>>
      /\ pc' = [pc EXCEPT ![t] = "place"] /\ op' = op
  BY DEF Reread, at, fatVars, goto
<1>1. TypeInv /\ reg[t] \in Regs /\ op[t].kind = "truncate"
  BY <1>0, StateFacts DEF TreeInv, fits
<1>2. /\ reg[t].image \in Images /\ reg[t].image.put \in Slots
  BY <1>1, RegParts, ImageParts
<1>3. reg' = [reg EXCEPT ![t] = r]
  <2>1. reg' = [reg EXCEPT ![t].image.seen = disk[reg[t].image.cluster],
                           ![t].image.put.size = op[t].size]
    BY DEF Reread
  <2> QED
    BY <2>1, ZenonT(60)
<1>4. /\ r.image.cluster = reg[t].image.cluster /\ r.image.slot = reg[t].image.slot
      /\ r.image.put.kind = reg[t].image.put.kind /\ r.image.put.name = reg[t].image.put.name
      /\ r.image.put.first = reg[t].image.put.first /\ r.image.put.size = op[t].size
  <2>1. r.image = i
    BY <1>1, RegParts
  <2>2. /\ i.cluster = reg[t].image.cluster /\ i.slot = reg[t].image.slot
        /\ i.put = [reg[t].image.put EXCEPT !.size = op[t].size]
    BY <1>2, ImageParts
  <2> HIDE DEF i
  <2> QED
    BY <1>2, <2>1, <2>2, SlotParts
<1>5. ASSUME NEW v, isViewed(v) PROVE Doing("place", op[t], r, disk, v)
  <2>2. Doing("reread", op[t], reg[t], disk, v)
    BY <1>0, <1>1, <1>5, ViewFacts
  <2> HIDE DEF r
  <2> QED
    BY <1>1, <1>4, <2>2 DEF Doing, Truncating, isAt
<1> HIDE DEF r
<1> QED
  BY <1>0, <1>1, <1>3, <1>5, LocalStep DEF TreeInv, saving

LEMMA RenameNothingTree ==
    ASSUME TreeInv, TypeInv', NEW t \in Threads, RenameNothing(t) PROVE TreeInv'
<1>0. /\ pc[t] = "start" /\ UNCHANGED <<table, disk, damage, reg>>
      /\ pc' = [pc EXCEPT ![t] = "idle"] /\ op' = [op EXCEPT ![t] = None]
  BY DEF RenameNothing, at, fatVars, goto
<1>1. TypeInv /\ reg' = [reg EXCEPT ![t] = reg[t]] /\ ~ saving("idle", op[t])
  BY <1>0, StateFacts DEF TreeInv, saving
<1>2. ~ busy(pc[t], op[t])
  BY <1>0 DEF busy
<1> QED
  BY <1>0, <1>1, <1>2, LocalStep

\* What an operation removes or makes is neither carried nor held by another.
LEMMA NotTaken ==
    ASSUME TypeInv, NEW v, isViewed(v), NEW o, NEW p \in Paths, p # <<>>,
           \A u \in Threads : busy(pc[u], op[u]) => ~ excludes(o, op[u]),
           p \in removes(o) \/ (p = o.path /\ o.kind \in {"create", "mkdir", "truncate"})
    PROVE  /\ o.kind # "truncate" => p \notin v.carried
           /\ o.kind \notin {"create", "mkdir"} => p \notin v.held
<1>1. Holders(pc, op, v)
  BY DEF isViewed, Sound
<1>2. p \in prefixes(p)
  BY PrefixFacts
<1>3. ASSUME p \in v.carried, o.kind # "truncate" PROVE FALSE
  <2>1. PICK u \in Threads :
            op[u].kind \in {"mkdir", "rename"} /\ op[u].path = p /\ busy(pc[u], op[u])
    BY <1>1, <1>3 DEF Holders, isBy
  <2>2. ~ excludes(o, op[u])
    BY <2>1
  <2>3. CASE p \in removes(o)
    BY <1>2, <2>1, <2>2, <2>3 DEF excludes
  <2>4. CASE p = o.path /\ o.kind \in {"create", "mkdir"}
    <3>1. parent(p) \in inodes(o) /\ parent(p) \in inodes(op[u])
      BY <2>1, <2>4 DEF inodes
    <3> QED
      BY <2>2, <3>1 DEF excludes
  <2> QED
    BY <1>3, <2>3, <2>4
<1>4. ASSUME p \in v.held, o.kind \notin {"create", "mkdir"} PROVE FALSE
  <2>1. PICK u \in Threads :
            op[u].kind \in {"truncate"} /\ op[u].path = p /\ busy(pc[u], op[u])
    BY <1>1, <1>4 DEF Holders, isBy
  <2>2. ~ excludes(o, op[u])
    BY <2>1
  <2>3. CASE p \in removes(o)
    BY <1>2, <2>1, <2>2, <2>3 DEF excludes
  <2>4. CASE p = o.path /\ o.kind = "truncate"
    <3>1. p \in inodes(o) /\ p \in inodes(op[u])
      BY <2>1, <2>4 DEF inodes
    <3> QED
      BY <2>2, <3>1 DEF excludes
  <2> QED
    BY <1>4, <2>3, <2>4
<1> QED
  BY <1>3, <1>4

LEMMA RenameStartTree ==
    ASSUME TreeInv, TypeInv', NEW t \in Threads, RenameStart(t) PROVE TreeInv'
<1> DEFINE o == op[t]
           d == parent(o.to)
           e == getFileEntry(o.path)
           renamed == [e.entry EXCEPT !.name = lastOf(o.to)]
           c == folder(d)
           free == holes(disk[c])
           m == IF free = {} THEN 0 ELSE Min(free)
           within == image(e.cluster, e.slot, renamed)
           gone == image(e.cluster, e.slot, Deleted)
           target == image(c, m, renamed)
           r == [reg[t] EXCEPT !.image = within]
           q == [[reg[t] EXCEPT !.image = gone] EXCEPT !.target = target]
           x == IF sameFolder(o) THEN r ELSE q
<1>0. /\ pc[t] = "start" /\ op[t].kind = "rename" /\ UNCHANGED <<table, disk>>
      /\ reg' = [reg EXCEPT ![t] = x]
      /\ pc' = [pc EXCEPT ![t] = "place"] /\ op' = op
      /\ ~ exists(o.to) /\ exists(o.path) /\ damage \subseteq damage'
  BY DEF RenameStart, at, fatVars, goto, because, lastOf
<1>1. TypeInv /\ Exclusive /\ reg[t] \in Regs
  BY StateFacts DEF TreeInv
<1>2. /\ o.path \in Paths /\ o.to \in Paths /\ d \in Paths /\ o.path # <<>> /\ o.to # <<>>
      /\ prefixes(d) \subseteq prefixes(o.path) \cup prefixes(o.to)
  BY <1>0, <1>1, OwnPaths
<1>3. e.entry \in Slots
  BY <1>1, <1>2, Lookup DEF Paths
<1>4. renamed.name = lastOf(o.to) /\ renamed.kind = e.entry.kind
      /\ renamed.first = e.entry.first /\ renamed.size = e.entry.size
  <2> HIDE DEF e
  <2> QED
    BY <1>3, SlotParts
<1>5. /\ r.image = within /\ q.image = gone /\ q.target = target
      /\ within.put = renamed /\ within.cluster = e.cluster /\ within.slot = e.slot
      /\ gone.put = Deleted /\ gone.cluster = e.cluster /\ gone.slot = e.slot
      /\ target.put = renamed /\ target.slot = m
  <2>1. /\ within.put = renamed /\ within.cluster = e.cluster /\ within.slot = e.slot
        /\ gone.put = Deleted /\ gone.cluster = e.cluster /\ gone.slot = e.slot
        /\ target.put = renamed /\ target.slot = m
    BY DEF image
  <2> HIDE DEF within, gone, target
  <2>2. r.image = within /\ q.image = gone /\ q.target = target
    BY <1>1, RegParts
  <2> QED
    BY <2>1, <2>2
<1>6. ASSUME NEW v, isViewed(v) PROVE Doing("place", o, x, disk, v)
  <2>1. Renaming("start", o, reg[t], v) /\ ChainsOf(table, v) /\ NodesOf(v) /\ EntriesOf(disk, v)
    BY <1>0, <1>1, <1>6, ViewFacts DEF Doing
  <2>2. d \in v.dirs /\ o.path \in v.files \ v.held
    BY <2>1 DEF Renaming
  <2>3. finds(v, o.path) /\ finds(v, o.to) /\ finds(v, d)
    <3>1. pc[t] # "idle" /\ (op[t].kind \in {"unlink", "rmdir"} => pc[t] = "start")
      BY <1>0
    <3> HIDE DEF d
    <3> QED
      BY <1>1, <1>2, <1>6, <3>1, OwnLookup
  <2>4. absent(v, o.to)
    <3>1. o.to \notin nodes(v)
      BY <1>0, <1>2, <2>3 DEF finds
    <3>2. o.to \in removes(o)
      BY <1>0 DEF removes
    <3>3. \A u \in Threads : busy(pc[u], op[u]) => ~ excludes(o, op[u])
      BY <1>0, <1>1 DEF Exclusive, busy
    <3>4. o.to \notin v.carried
      BY <1>0, <1>1, <1>2, <1>6, <3>2, <3>3, NotTaken
    <3> QED
      BY <3>1, <3>4 DEF absent
  <2>5. /\ e.cluster = v.spot[o.path][1] /\ e.slot = v.spot[o.path][2]
        /\ e.entry = entryOf(disk, v, o.path)
    BY <1>2, <2>2, <2>3 DEF finds, nodes
  <2>6. isAt(within, v, o.path) /\ isAt(gone, v, o.path)
    <3> HIDE DEF within, gone, e
    <3> QED
      BY <1>5, <2>5 DEF isAt
  <2>7. renames(renamed, o, v)
    <3>1. e.entry.kind = "file" /\ owns(e.entry, v.chain[o.path])
      BY <2>1, <2>2, <2>5 DEF EntriesOf
    <3> HIDE DEF e, renamed
    <3> QED
      BY <1>4, <3>1 DEF renames, owns
  <2>8. target.slot = 0 \/ room(target, v, d)
    <3>1. CASE free = {}
      BY <1>5, <3>1
    <3>2. CASE free # {}
      <4>1. c = v.chain[d][1] /\ v.chain[d] # <<>>
        BY <2>2, <2>3 DEF finds
      <4>2. onChain(c, v.chain[d])
        <5>1. v.chain[d] \in Seq(Clusters)
          BY <1>1, <1>2, <2>1, <4>1, ChainOfPath, StateFacts
        <5> HIDE DEF c, d
        <5>2. 1 \in 1 .. Len(v.chain[d])
          BY <4>1, <5>1
        <5> QED
          BY <4>1, <5>2 DEF onChain
      <4>3. target = image(c, Min(holes(disk[c])), renamed)
        BY <3>2
      <4> HIDE DEF c, renamed, target, d
      <4> QED
        BY <1>1, <1>2, <2>1, <3>2, <4>2, <4>3, HoleRoom
    <3> QED
      BY <3>1, <3>2
  <2> HIDE DEF r, q, within, gone, target, renamed, e
  <2>9. Renaming("place", o, x, v)
    BY <1>5, <2>2, <2>4, <2>6, <2>7, <2>8 DEF Renaming
  <2> HIDE DEF x
  <2> QED
    BY <1>0, <2>9 DEF Doing
<1> HIDE DEF x
<1> QED
  BY <1>0, <1>1, <1>6, LocalStep DEF TreeInv, saving

\* How many clusters a size takes.
LEMMA ClustersForFacts ==
    ASSUME NEW size \in Nat
    PROVE  clustersFor(size) \in Nat /\ (size > 0 => clustersFor(size) > 0)
<1>1. clustersFor(size) \in Nat
  BY ClustersForType
<1>2. ASSUME size > 0 PROVE clustersFor(size) > 0
  <2>1. SlotCount \in Nat /\ SlotCount > 0
    BY FileSystemAssumption
  <2>2. (size + SlotCount - 1) \div SlotCount > 0
    BY <1>2, <2>1
  <2> QED
    BY <2>2 DEF clustersFor
<1> QED
  BY <1>1, <1>2

\* The chains of a view are sequences.
LEMMA ChainType ==
    ASSUME TypeInv, NEW v, isViewed(v), NEW p \in Paths
    PROVE  /\ v.chain[p] \in Seq(Clusters) /\ Len(v.chain[p]) \in Nat
           /\ v.chain[p] = <<>> <=> Len(v.chain[p]) = 0
<1>1. ChainsOf(table, v) /\ Proper(table)
  BY ViewFacts
<1>2. CASE v.chain[p] = <<>>
  BY <1>2
<1>3. CASE v.chain[p] # <<>>
  <2>1. v.chain[p] \in Seq(Clusters) /\ Len(v.chain[p]) \in 1 .. Size
    BY <1>1, <1>3, ChainOfPath
  <2> QED
    BY <1>3, <2>1, LinkFacts
<1> QED
  BY <1>2, <1>3

\* From here on the clusters of the file are being changed.
LEMMA TruncateStartTree ==
    ASSUME TreeInv, TypeInv', NEW t \in Threads, TruncateStart(t) PROVE TreeInv'
<1> DEFINE o == op[t]
           e == getFileEntry(o.path)
           actual == clustersFor(e.entry.size)
           needed == clustersFor(o.size)
           i == image(e.cluster, e.slot, e.entry)
           n == IF needed < actual THEN actual - needed ELSE needed - actual
           r == [[reg[t] EXCEPT !.image = i] EXCEPT !.count = n]
           place == IF needed < actual THEN "shrink"
                    ELSE IF needed = actual THEN
                            IF e.entry.size > o.size THEN "tail" ELSE "reread"
                    ELSE IF actual = 0 THEN "find" ELSE "extend"
<1>0. /\ pc[t] = "start" /\ o.kind = "truncate" /\ UNCHANGED <<table, disk, damage>>
      /\ reg' = [reg EXCEPT ![t] = r] /\ pc' = [pc EXCEPT ![t] = place] /\ op' = op
  BY DEF TruncateStart, at, fatVars, goto
<1>1. /\ TypeInv /\ Exclusive /\ reg[t] \in Regs /\ Exclusive'
      /\ o.path \in Paths /\ o.path # <<>> /\ o.size \in Nat
  BY <1>0, StateFacts, ExclusiveKept, OwnPaths, OpFacts DEF TreeInv
<1>2. place \in {"shrink", "tail", "reread", "find", "extend"}
  OBVIOUS
<1>3. r.image = i /\ r.count = n /\ i.cluster = e.cluster /\ i.slot = e.slot /\ i.put = e.entry
  <2>1. i.cluster = e.cluster /\ i.slot = e.slot /\ i.put = e.entry
    BY DEF image
  <2> HIDE DEF i, n
  <2> QED
    BY <1>1, <2>1, RegParts
<1>4. ASSUME NEW v, isViewed(v) PROVE \E w : isViewed(w)'
  <2>1. PICK w : /\ w.dirs = v.dirs /\ w.files = v.files /\ w.doomed = v.doomed
                 /\ w.held = v.held \cup {o.path} /\ w.carried = v.carried
                 /\ w.spot = v.spot /\ w.chain = v.chain
    <3> WITNESS viewOf(v.dirs, v.files, v.doomed, v.held \cup {o.path}, v.carried,
                       v.spot, v.chain)
    <3> QED
      BY DEF viewOf
  <2>2. /\ ChainsOf(table, v) /\ NodesOf(v) /\ EntriesOf(disk, v) /\ NoOthers(disk, v)
        /\ damage = {} => Covers(table, v)
        /\ \A u \in Threads : Doing(pc[u], op[u], reg[u], disk, v)
    BY <1>1, <1>4, ViewFacts
  <2>3. o.path \in v.files /\ o.path \notin v.held
    BY <1>0, <2>2 DEF Doing, Truncating
  <2>4. finds(v, o.path)
    <3>1. pc[t] # "idle" /\ (op[t].kind \in {"unlink", "rmdir"} => pc[t] = "start")
      BY <1>0
    <3> QED
      BY <1>1, <1>4, <3>1, OwnLookup, OwnPaths
  <2>5. /\ e.cluster = v.spot[o.path][1] /\ e.slot = v.spot[o.path][2]
        /\ e.entry = entryOf(disk, v, o.path)
    BY <1>1, <2>3, <2>4 DEF finds, nodes
  <2>6. /\ e.entry.kind = "file" /\ e.entry.name = lastOf(o.path)
        /\ owns(e.entry, v.chain[o.path])
    <3> HIDE DEF e
    <3> QED
      BY <1>1, <2>2, <2>3, <2>5 DEF EntriesOf, nodes
  <2>7. v.chain[o.path] \in Seq(Clusters) /\ Len(v.chain[o.path]) \in Nat
        /\ (v.chain[o.path] = <<>> <=> Len(v.chain[o.path]) = 0)
    BY <1>1, <1>4, ChainType
  <2>8. e.entry.size \in Nat
    BY <1>1, Lookup, SlotParts DEF Paths
  <2>9. Truncating(place, o, r, w)
    <3> DEFINE s == v.chain[o.path]
    <3>1. w.chain[o.path] = s /\ o.path \in w.files /\ o.path \in w.held
      BY <2>1, <2>3
    <3>2. isAt(r.image, w, o.path)
      <4> HIDE DEF i, r, e
      <4> QED
        BY <1>3, <2>1, <2>5 DEF isAt
    <3>3. /\ r.image.put.kind = "file" /\ r.image.put.name = lastOf(o.path)
          /\ r.image.put.first = headOf(s)
      <4> HIDE DEF i, r, e
      <4> QED
        BY <1>3, <2>6 DEF owns
    <3>4. actual = Len(s) /\ actual \in Nat /\ needed \in Nat
      <4> HIDE DEF e
      <4> QED
        BY <1>1, <2>6, <2>8, ClustersForFacts DEF owns
    <3>5. /\ place = "find" => s = <<>> /\ r.count = needed
          /\ place = "shrink" => s # <<>> /\ Len(s) = needed + r.count
          /\ place = "extend" => s # <<>> /\ Len(s) + r.count = needed
          /\ place \in {"tail", "reread"} => Len(s) = needed
      <4> HIDE DEF actual, needed, r, s
      <4> QED
        BY <1>3, <2>7, <3>4
    <3>6. place = "tail" => s # <<>>
      <4>1. place = "tail" => e.entry.size > o.size /\ needed = actual
        OBVIOUS
      <4>2. e.entry.size > 0 => actual > 0
        BY <2>8, ClustersForFacts
      <4> HIDE DEF e, actual, place
      <4> QED
        BY <1>1, <2>7, <2>8, <3>4, <4>1, <4>2
    <3>7. s # <<>> => headOf(s) = s[1]
      BY DEF headOf
    <3> HIDE DEF place, r, s, i
    <3> QED
      BY <1>2, <3>1, <3>2, <3>3, <3>5, <3>6, <3>7 DEF Truncating
  <2>10. NodesOf(w) /\ ChainsOf(table', w) /\ (damage' = {} => Covers(table', w))
    <3>1. nodes(w) = nodes(v) /\ \A p : absent(w, p) <=> absent(v, p)
      BY <2>1 DEF nodes, absent
    <3>2. w.held \subseteq w.files
      BY <2>1, <2>2, <2>3 DEF NodesOf
    <3> QED
      BY <1>0, <2>1, <2>2, <3>1, <3>2 DEF NodesOf, ChainsOf, Covers
  <2>11. EntriesOf(disk', w) /\ NoOthers(disk', w)
    <3>1. \A p \in v.files : p \notin w.held => owns(entryOf(disk, v, p), w.chain[p])
      BY <2>1, <2>2 DEF EntriesOf
    <3> QED
      BY <1>0, <2>1, <2>2, <3>1, EntriesKept
  <2>12. ASSUME NEW u \in Threads, u # t PROVE Doing(pc[u], op[u], reg[u], disk', w)
    <3>1. /\ pc[t] # "idle" /\ ~ saving(pc[t], op[t])
          /\ \A p \in Paths : p \notin subjects(op[t]) => sameAt(v, w, p)
          /\ \A d \in Paths : grows(v, w, d)
      BY <1>0, <2>1 DEF saving, subjects, sameAt, grows
    <3> QED
      BY <1>0, <1>1, <2>2, <2>12, <3>1, OtherThreads
  <2>13. Doing(place, op[t], r, disk', w) /\ place # "idle" /\ ~ saving(place, op[t])
    <3> HIDE DEF r, place
    <3> QED
      BY <1>0, <1>2, <2>9 DEF Doing, saving
  <2> HIDE DEF r, place
  <2>14. isViewed(w)'
    BY <1>0, <1>1, <1>4, <2>1, <2>10, <2>11, <2>12, <2>13, StepViewed
  <2> QED
    BY <2>14
<1>5. calm' => calm
  BY <1>0 DEF calm
<1> QED
  BY <1>1, <1>4, <1>5 DEF TreeInv

LEMMA PrefixLength ==
    ASSUME NEW p \in Paths, NEW q \in Paths, p \in prefixes(q)
    PROVE  Len(p) <= Len(q)
<1>1. PICK n \in 1 .. Len(q) : p = SubSeq(q, 1, n)
  BY DEF prefixes
<1>2. Len(p) = n
  BY <1>1 DEF Paths
<1> QED
  BY <1>1, <1>2

\* The clusters of the entry of a node are those the node owns.
LEMMA LinkedOfNode ==
    ASSUME TypeInv, NEW v, isViewed(v), NEW p \in Paths, p # <<>>,
           p \in v.dirs \/ p \in v.files \ v.held
    PROVE  linked(table, entryOf(disk, v, p).first) = v.chain[p]
<1>1. ChainsOf(table, v) /\ NodesOf(v) /\ EntriesOf(disk, v) /\ Proper(table)
  BY ViewFacts
<1>2. entryOf(disk, v, p).first = headOf(v.chain[p])
  BY <1>1 DEF EntriesOf, owns, headOf
<1>3. CASE v.chain[p] = <<>>
  BY <1>2, <1>3 DEF headOf, linked
<1>4. CASE v.chain[p] # <<>>
  BY <1>1, <1>2, <1>4, ChainOfPath DEF headOf
<1> QED
  BY <1>3, <1>4

\* What is removed is doomed, with all that lies under it.
LEMMA RemoveStartTree ==
    ASSUME TreeInv, TypeInv', NEW t \in Threads, RemoveStart(t) PROVE TreeInv'
<1> DEFINE o == op[t]
           e == getFileEntry(o.path)
           clusters == linked(table, e.entry.first)
           i == image(e.cluster, e.slot, Deleted)
           r == [[reg[t] EXCEPT !.image = i] EXCEPT !.clusters = clusters]
           place == IF clusters = <<>> THEN "save" ELSE "free"
           shown == \E k \in DOMAIN clusters : interpret(disk[clusters[k]]) # {}
<1>0. /\ pc[t] = "start" /\ o.kind \in {"unlink", "rmdir"} /\ UNCHANGED <<table, disk>>
      /\ reg' = [reg EXCEPT ![t] = r] /\ pc' = [pc EXCEPT ![t] = place] /\ op' = op
      /\ damage \subseteq damage' /\ (e.entry.kind = "dir" /\ shown => damage' # {})
  BY DEF RemoveStart, at, fatVars, goto, because
<1>1. /\ TypeInv /\ Exclusive /\ reg[t] \in Regs /\ Exclusive'
      /\ o.path \in Paths /\ o.path # <<>> /\ parent(o.path) \in Paths
  BY <1>0, StateFacts, ExclusiveKept, OwnPaths DEF TreeInv
<1>2. place \in {"free", "save"}
  OBVIOUS
<1>3. /\ r.image = i /\ r.clusters = clusters
      /\ i.cluster = e.cluster /\ i.slot = e.slot /\ i.put = Deleted
  <2>1. i.cluster = e.cluster /\ i.slot = e.slot /\ i.put = Deleted
    BY DEF image
  <2> HIDE DEF i, clusters
  <2> QED
    BY <1>1, <2>1, RegParts
<1>4. ASSUME NEW v, isViewed(v), damage' = {} => damage = {} PROVE \E w : isViewed(w)'
  <2>2. /\ ChainsOf(table, v) /\ NodesOf(v) /\ EntriesOf(disk, v) /\ NoOthers(disk, v)
        /\ damage = {} => Covers(table, v)
        /\ \A u \in Threads : Doing(pc[u], op[u], reg[u], disk, v)
    BY <1>1, <1>4, ViewFacts
  <2>3. o.path \in v.dirs \/ o.path \in v.files \ v.held
    BY <1>0, <2>2 DEF Doing, Removing
  <2>4. finds(v, o.path)
    <3>1. pc[t] # "idle" /\ (op[t].kind \in {"unlink", "rmdir"} => pc[t] = "start")
      BY <1>0
    <3> QED
      BY <1>1, <1>4, <3>1, OwnLookup, OwnPaths
  <2>5. /\ e.cluster = v.spot[o.path][1] /\ e.slot = v.spot[o.path][2]
        /\ e.entry = entryOf(disk, v, o.path)
    BY <1>1, <2>3, <2>4 DEF finds, nodes
  <2>6. clusters = v.chain[o.path]
    <3> HIDE DEF e
    <3> QED
      BY <1>1, <1>4, <2>3, <2>5, LinkedOfNode
  <2> DEFINE B == {q \in Paths : o.path \in prefixes(q)}
             A == IF \E q \in nodes(v) : q # <<>> /\ parent(q) = o.path THEN B ELSE {o.path}
  <2>7. /\ \A q \in A : q \in Paths /\ q # <<>> /\ o.path \in prefixes(q)
        /\ o.path \in A /\ parent(o.path) \notin A
        /\ \A q \in A : q = o.path \/ parent(q) \in A
        /\ \A q \in nodes(v) : q # <<>> /\ parent(q) \in A => q \in A
    <3>1. o.path \in prefixes(o.path) /\ o.path \in B
      BY <1>1, PrefixFacts
    <3>2. \A q \in B : q # <<>>
      BY DEF prefixes
    <3>3. parent(o.path) \notin B
      <4>1. Len(parent(o.path)) < Len(o.path) /\ Len(o.path) \in Nat /\ Len(parent(o.path)) \in Nat
        BY <1>1, ParentType DEF Paths
      <4> QED
        BY <1>1, <4>1, PrefixLength
    <3>4. \A q \in B : q = o.path \/ parent(q) \in B
      BY <3>2, PrefixFacts, SplitPath
    <3>5. \A q \in nodes(v) : q # <<>> /\ parent(q) \in B => q \in B
      <4>1. nodes(v) \subseteq Paths
        BY <2>2 DEF NodesOf
      <4> QED
        BY <4>1, PrefixFacts
    <3>6. parent(o.path) # o.path
      BY <3>1, <3>3
    <3>7. o.path \in A /\ A \subseteq B
      BY <3>1
    <3>8. parent(o.path) \notin A /\ \A q \in A : q = o.path \/ parent(q) \in A
      <4>1. CASE \E q \in nodes(v) : q # <<>> /\ parent(q) = o.path
        <5>1. A = B
          BY <4>1
        <5> HIDE DEF A, B
        <5> QED
          BY <3>3, <3>4, <5>1
      <4>2. CASE ~ \E q \in nodes(v) : q # <<>> /\ parent(q) = o.path
        BY <3>6, <4>2
      <4> QED
        BY <4>1, <4>2
    <3>9. \A q \in nodes(v) : q # <<>> /\ parent(q) \in A => q \in A
      BY <3>5
    <3> HIDE DEF A
    <3> QED
      BY <3>2, <3>7, <3>8, <3>9
  <2>8. A = {o.path} \/ damage' # {}
    <3>1. ASSUME NEW q \in nodes(v), q # <<>>, parent(q) = o.path PROVE damage' # {}
      <4>1. /\ onChain(v.spot[q][1], v.chain[o.path]) /\ o.path \in v.dirs
            /\ v.spot[q][2] \in interpret(disk[v.spot[q][1]])
        BY <2>2, <3>1, SpotOfNode
      <4>2. PICK k \in 1 .. Len(v.chain[o.path]) : v.chain[o.path][k] = v.spot[q][1]
        BY <4>1 DEF onChain
      <4>3. DOMAIN v.chain[o.path] = 1 .. Len(v.chain[o.path])
        BY <1>1, <1>4, ChainType
      <4>4. shown
        <5> HIDE DEF clusters
        <5> QED
          BY <2>6, <4>1, <4>2, <4>3
      <4>5. e.entry.kind = "dir"
        BY <2>4, <4>1 DEF finds
      <4> QED
        BY <1>0, <4>4, <4>5
    <3> QED
      BY <3>1
  <2> HIDE DEF A
  <2> DEFINE G == [q \in Paths |-> IF q \in A \ {o.path} THEN <<>> ELSE v.chain[q]]
  <2>1. PICK w : /\ w.dirs = v.dirs \ A /\ w.files = v.files \ A
                 /\ w.doomed = (v.doomed \ A) \cup {o.path}
                 /\ w.held = v.held \ A /\ w.carried = v.carried \ A
                 /\ w.spot = v.spot /\ w.chain = G
    <3> WITNESS viewOf(v.dirs \ A, v.files \ A, (v.doomed \ A) \cup {o.path}, v.held \ A,
                       v.carried \ A, v.spot, G)
    <3> QED
      BY DEF viewOf
  <2>9. \A q \in Paths : w.chain[q] = IF q \in A \ {o.path} THEN <<>> ELSE v.chain[q]
    BY <2>1
  <2>10. NodesOf(w) /\ EntriesOf(disk', w) /\ NoOthers(disk', w)
    <3>1. A \in SUBSET Paths /\ <<>> \notin A
      BY <2>7
    <3>2. o.path \in v.dirs \cup v.files
      BY <2>3
    <3> HIDE DEF G
    <3> QED
      BY <1>0, <1>1, <2>1, <2>2, <2>7, <2>9, <3>1, <3>2, Doom
  <2>11. ChainsOf(table', w)
    <3> HIDE DEF G
    <3> QED
      BY <1>0, <2>2, <2>9, DropChains
  <2>12. damage' = {} => Covers(table', w)
    <3> HIDE DEF G
    <3>1. ASSUME damage' = {} PROVE \A q \in Paths : w.chain[q] = v.chain[q]
      BY <2>8, <2>9, <3>1
    <3> QED
      BY <1>0, <1>4, <2>2, <3>1 DEF Covers
  <2>13. Doing(place, o, r, disk', w)
    <3>1. o.path \in w.doomed /\ w.chain[o.path] = clusters
      <4> HIDE DEF G, clusters
      <4> QED
        BY <1>1, <2>1, <2>6, <2>9
    <3>2. isAt(r.image, w, o.path) /\ r.image.put = Deleted
      <4> HIDE DEF i, r, e
      <4> QED
        BY <1>3, <2>1, <2>5 DEF isAt
    <3>3. \/ place = "free" /\ r.clusters = clusters
          \/ place = "save" /\ clusters = <<>>
      <4> HIDE DEF r, clusters
      <4> QED
        BY <1>3
    <3> HIDE DEF place, r, clusters
    <3>4. Removing(place, o, r, w)
      BY <1>2, <3>1, <3>2, <3>3 DEF Removing
    <3> QED
      BY <1>0, <3>4 DEF Doing
  <2>14. ASSUME NEW u \in Threads, u # t PROVE Doing(pc[u], op[u], reg[u], disk', w)
    <3>1. CASE pc[u] = "idle"
      <4>1. op[u].kind = "none"
        BY <1>1, <3>1, StateFacts DEF fits, None
      <4> QED
        BY <4>1 DEF Doing
    <3>2. CASE pc[u] # "idle"
      <4>1. /\ op[u].path \in Paths /\ op[u].to \in Paths /\ parent(op[u].path) \in Paths
            /\ prefixes(parent(op[u].path)) \subseteq prefixes(op[u].path) \cup prefixes(op[u].to)
            /\ op[u].kind = "rename" =>
                  /\ parent(op[u].to) \in Paths
                  /\ prefixes(parent(op[u].to)) \subseteq prefixes(op[u].path) \cup prefixes(op[u].to)
        BY <1>1, <3>2, OwnPaths
      <4>2. o.path \notin prefixes(op[u].path) \cup prefixes(op[u].to)
        <5>1. o.path \in removes(o)
          BY <1>0 DEF removes
        <5> QED
          BY <1>1, <2>14, <5>1 DEF Exclusive, excludes
      <4>3. ASSUME NEW q \in Paths, o.path \notin prefixes(q)
            PROVE  sameAt(v, w, q) /\ grows(v, w, q)
        <5>1. q \notin A /\ q # o.path
          BY <2>7, <4>3
        <5>2. w.chain[q] = v.chain[q]
          BY <2>9, <5>1
        <5> HIDE DEF G
        <5> QED
          BY <2>1, <5>1, <5>2 DEF sameAt, grows
      <4>4. /\ \A p \in subjects(op[u]) : sameAt(v, w, p)
            /\ grows(v, w, parent(op[u].path))
            /\ op[u].kind = "rename" => grows(v, w, parent(op[u].to))
        BY <4>1, <4>2, <4>3 DEF subjects
      <4> QED
        BY <1>0, <2>2, <4>4, DoingKept
    <3> QED
      BY <3>1, <3>2
  <2>15. /\ \A q : q # o.path => /\ q \in w.held => q \in v.held
                                 /\ q \in w.doomed => q \in v.doomed
                                 /\ q \in w.carried => q \in v.carried
         /\ place # "idle" /\ ~ saving(place, o)
    BY <1>0, <2>1 DEF saving
  <2> HIDE DEF r, place, G
  <2>16. isViewed(w)'
    BY <1>0, <1>1, <1>4, <2>10, <2>11, <2>12, <2>13, <2>14, <2>15, StepViewed
  <2> QED
    BY <2>16
<1>5. (calm' => calm) /\ (damage' = {} => damage = {})
  BY <1>0, CalmBefore
<1> QED
  BY <1>1, <1>4, <1>5 DEF TreeInv

-----------------------------------------------------------------------------
(* Steps that change the table.                                             *)

\* The clusters of what t is making, truncating or removing change.
LEMMA ChainStep ==
    ASSUME TypeInv, Exclusive, NEW t \in Threads, pc[t] # "idle", ~ saving(pc[t], op[t]),
           NEW place, place # "idle", ~ saving(place, op[t]), NEW r, NEW v, isViewed(v),
           pc' = [pc EXCEPT ![t] = place], reg' = [reg EXCEPT ![t] = r], op' = op,
           disk' = disk, damage' = {} => damage = {},
           op[t].path \notin v.dirs, NEW w,
           \/ w.carried = v.carried /\ op[t].path \in v.held \cup v.doomed
           \/ w.carried = v.carried \cup {op[t].path} /\ op[t].path \notin nodes(v),
           w.dirs = v.dirs, w.files = v.files, w.doomed = v.doomed,
           w.held = v.held, w.spot = v.spot,
           \A q \in Paths : q # op[t].path => w.chain[q] = v.chain[q],
           ChainsOf(table', w), Covers(table, v) => Covers(table', w),
           Doing(place, op[t], r, disk, w)
    PROVE  isViewed(w)'
<1> DEFINE p == op[t].path
<1>1. /\ ChainsOf(table, v) /\ NodesOf(v) /\ EntriesOf(disk, v) /\ NoOthers(disk, v)
      /\ damage = {} => Covers(table, v)
      /\ \A u \in Threads : Doing(pc[u], op[u], reg[u], disk, v)
  BY ViewFacts
<1>2. p \in Paths /\ p # <<>>
  BY OwnPaths
<1>3. nodes(w) = nodes(v) /\ p \notin w.dirs
  BY DEF nodes
<1>4. NodesOf(w)
  <2>1. /\ nodes(w) \cup w.carried \subseteq Paths /\ w.carried \cap nodes(w) = {}
    BY <1>1, <1>2, <1>3 DEF NodesOf
  <2>2. \A q \in Paths : absent(w, q) => w.chain[q] = <<>>
    <3>1. ASSUME NEW q \in Paths, absent(w, q) PROVE w.chain[q] = <<>>
      <4>1. q \notin nodes(v) /\ q \notin w.carried
        BY <1>3, <3>1 DEF absent
      <4>2. q # p
        BY <1>1, <4>1 DEF NodesOf, nodes
      <4>3. absent(v, q)
        BY <4>1 DEF absent
      <4> QED
        BY <1>1, <4>2, <4>3 DEF NodesOf
    <3> QED
      BY <3>1
  <2>3. <<>> \in Paths /\ <<>> # p
    BY <1>2 DEF Paths
  <2> QED
    BY <1>1, <1>3, <2>1, <2>2, <2>3 DEF NodesOf
<1>5. EntriesOf(disk', w) /\ NoOthers(disk', w)
  <2>1. \A d \in v.dirs : w.chain[d] = v.chain[d]
    BY <1>1 DEF NodesOf, nodes
  <2>2. \A q \in v.files : q \notin w.held => owns(entryOf(disk, v, q), w.chain[q])
    <3>1. ASSUME NEW q \in v.files, q \notin v.held PROVE q # p /\ q \in Paths
      <4>1. q \in nodes(v) /\ q \in Paths /\ q \notin v.doomed
        BY <1>1, <3>1 DEF NodesOf, nodes
      <4> QED
        BY <3>1, <4>1
    <3> QED
      BY <1>1, <3>1 DEF EntriesOf
  <2> QED
    BY <1>1, <2>1, <2>2, EntriesKept
<1>6. ASSUME NEW u \in Threads, u # t PROVE Doing(pc[u], op[u], reg[u], disk', w)
  <2>1. \A q \in Paths : q \notin subjects(op[t]) => sameAt(v, w, q)
    BY DEF subjects, sameAt
  <2>2. \A d \in Paths : grows(v, w, d)
    BY DEF grows
  <2>3. \A q \in v.carried : q # op[t].path =>
            \A x : onChain(x, v.chain[q]) => disk'[x] = disk[x]
    OBVIOUS
  <2>4. NodesOf(v) /\ \A y \in Threads : Doing(pc[y], op[y], reg[y], disk, v)
    BY <1>1
  <2> QED
    BY <1>6, <2>1, <2>2, <2>3, <2>4, OtherThreads
<1>7. /\ \A q : q # op[t].path => /\ q \in w.held => q \in v.held
                                  /\ q \in w.doomed => q \in v.doomed
                                  /\ q \in w.carried => q \in v.carried
      /\ damage' = {} => Covers(table', w)
      /\ Doing(place, op[t], r, disk', w)
  BY <1>1
<1> QED
  BY <1>4, <1>5, <1>6, <1>7, StepViewed

\* Deleting what owns a chain frees its first cluster.
LEMMA FreeOneTree == ASSUME TreeInv, TypeInv', NEW t \in Threads, FreeOne(t) PROVE TreeInv'
<1> DEFINE o == op[t]
           s == reg[t].clusters
           r == [reg[t] EXCEPT !.clusters = Tail(s)]
           place == IF Len(s) = 1 THEN "save" ELSE "free"
<1>0. /\ pc[t] = "free" /\ UNCHANGED <<disk, damage>> /\ table' = setFree(table, Head(s))
      /\ reg' = [reg EXCEPT ![t] = r] /\ pc' = [pc EXCEPT ![t] = place] /\ op' = op
  BY DEF FreeOne, at, goto
<1>1. /\ TypeInv /\ Exclusive /\ reg[t] \in Regs /\ Exclusive' /\ Proper(table)
      /\ o.kind \in {"unlink", "rmdir"} /\ s # <<>> /\ o.path \in Paths
  BY <1>0, StateFacts, ExclusiveKept, OwnPaths DEF TreeInv, fits, loops
<1>2. r.clusters = Tail(s) /\ r.image = reg[t].image
  BY <1>1, RegParts
<1>3. ASSUME NEW v, isViewed(v) PROVE \E w : isViewed(w)'
  <2>1. ChainsOf(table, v) /\ NodesOf(v) /\ Removing("free", o, reg[t], v)
    BY <1>0, <1>1, <1>3, ViewFacts DEF Doing
  <2>2. /\ o.path \in v.doomed /\ isAt(reg[t].image, v, o.path)
        /\ reg[t].image.put = Deleted /\ v.chain[o.path] = s
    BY <2>1 DEF Removing
  <2>3. o.path \notin v.dirs
    BY <2>1, <2>2 DEF NodesOf
  <2> DEFINE G == [q \in Paths |-> IF q = o.path THEN Tail(s) ELSE v.chain[q]]
  <2>4. PICK w : /\ w.dirs = v.dirs /\ w.files = v.files /\ w.doomed = v.doomed
                 /\ w.held = v.held /\ w.carried = v.carried /\ w.spot = v.spot /\ w.chain = G
    <3> WITNESS viewOf(v.dirs, v.files, v.doomed, v.held, v.carried, v.spot, G)
    <3> QED
      BY DEF viewOf
  <2>5. \A q \in Paths : w.chain[q] = IF q = o.path THEN Tail(s) ELSE v.chain[q]
    BY <2>4
  <2> HIDE DEF G
  <2>6. ChainsOf(table', w) /\ (Covers(table, v) => Covers(table', w))
    BY <1>0, <1>1, <2>1, <2>2, <2>5, BeheadPath
  <2>7. s \in Seq(Clusters) /\ (Len(s) = 1 <=> Tail(s) = <<>>)
    BY <1>1, <1>3, <2>2, ChainType, HeadTail
  <2>8. Doing(place, o, r, disk, w)
    <3>1. place = "free" \/ (place = "save" /\ Tail(s) = <<>>)
      BY <2>7
    <3> HIDE DEF r, place, s
    <3>2. Removing(place, o, r, w)
      BY <1>1, <1>2, <2>2, <2>4, <2>5, <3>1 DEF Removing, isAt
    <3> QED
      BY <1>1, <3>2 DEF Doing
  <2>9. /\ place # "idle" /\ ~ saving(place, o) /\ ~ saving(pc[t], o) /\ pc[t] # "idle"
        /\ w.carried = v.carried /\ o.path \in v.held \cup v.doomed
    BY <1>0, <1>1, <2>2, <2>4 DEF saving
  <2>10. \A q \in Paths : q # o.path => w.chain[q] = v.chain[q]
    BY <2>5
  <2> HIDE DEF r, place, s
  <2>11. isViewed(w)'
    BY <1>0, <1>1, <1>3, <2>3, <2>4, <2>6, <2>8, <2>9, <2>10, ChainStep
  <2> QED
    BY <2>11
<1>4. calm' => calm
  BY <1>0 DEF calm
<1> QED
  BY <1>1, <1>3, <1>4 DEF TreeInv

\* The new cluster of a directory or of a file belongs to its path.
LEMMA UseFreeTree == ASSUME TreeInv, TypeInv', NEW t \in Threads, UseFree(t) PROVE TreeInv'
<1> DEFINE o == op[t]
           c == reg[t].free
           put == [reg[t].image.put EXCEPT !.first = c]
           r == [reg[t] EXCEPT !.image = [reg[t].image EXCEPT !.put = put]]
           place == IF o.kind = "mkdir" THEN "dots" ELSE "clear"
<1>0. /\ pc[t] = "use" /\ UNCHANGED disk /\ table' = setUsed(table, c)
      /\ pc' = [pc EXCEPT ![t] = place] /\ op' = op /\ damage \subseteq damage'
      /\ c # 0 /\ table[c] # 0 => "race" \in damage'
  BY DEF UseFree, at, goto, because
<1>1. reg' = [reg EXCEPT ![t] = r]
  <2>1. reg' = [reg EXCEPT ![t].image.put.first = reg[t].free]
    BY DEF UseFree
  <2> QED
    BY <2>1, ZenonT(60)
<1>2. /\ TypeInv /\ Exclusive /\ reg[t] \in Regs /\ Exclusive' /\ Proper(table)
      /\ o.kind \in {"mkdir", "truncate"} /\ o.path \in Paths /\ o.path # <<>> /\ c \in Links
      /\ parent(o.path) \in Paths
  BY <1>0, StateFacts, ExclusiveKept, OwnPaths, RegParts DEF TreeInv, fits
<1>3. /\ r.free = c /\ r.count = reg[t].count /\ r.image.put = put
      /\ r.image.cluster = reg[t].image.cluster /\ r.image.slot = reg[t].image.slot
      /\ r.image.seen = reg[t].image.seen
  <2>1. reg[t].image \in Images
    BY <1>2, RegParts
  <2> DEFINE i == [reg[t].image EXCEPT !.put = put]
  <2>2. /\ i.put = put /\ i.cluster = reg[t].image.cluster /\ i.slot = reg[t].image.slot
        /\ i.seen = reg[t].image.seen
    <3> HIDE DEF put
    <3> QED
      BY <2>1, ImageParts
  <2> HIDE DEF i, put
  <2>3. r.free = c /\ r.count = reg[t].count /\ r.image = i
    BY <1>2, RegParts DEF i
  <2> QED
    BY <2>2, <2>3
<1>4. ASSUME NEW v, isViewed(v), calm', damage' = {} => damage = {} PROVE \E w : isViewed(w)'
  <2>1. ChainsOf(table, v) /\ NodesOf(v) /\ Doing("use", o, reg[t], disk, v)
    BY <1>0, <1>2, <1>4, ViewFacts
  <2>2. /\ c # 0 /\ v.chain[o.path] = <<>> /\ o.path \notin v.dirs
        /\ o.kind = "mkdir" => absent(v, o.path) /\ Making("use", o, reg[t], disk, v)
        /\ o.kind = "truncate" => o.path \in v.held /\ Truncating("use", o, reg[t], v)
    <3>1. CASE o.kind = "mkdir"
      <4>1. Making("use", o, reg[t], disk, v)
        BY <2>1, <3>1 DEF Doing
      <4>2. c # 0 /\ absent(v, o.path)
        BY <3>1, <4>1 DEF Making
      <4> QED
        BY <1>2, <2>1, <3>1, <4>1, <4>2 DEF NodesOf, absent, nodes
    <3>2. CASE o.kind = "truncate"
      <4>1. Truncating("use", o, reg[t], v)
        BY <2>1, <3>2 DEF Doing
      <4>2. c # 0 /\ o.path \in v.held /\ v.chain[o.path] = <<>> /\ o.path \in v.files
        BY <4>1 DEF Truncating
      <4> QED
        BY <2>1, <3>2, <4>1, <4>2 DEF NodesOf
    <3> QED
      BY <1>2, <3>1, <3>2
  <2>3. c \in Clusters /\ table[c] = 0
    BY <1>0, <1>2, <1>4, <2>2, LinkFacts DEF calm
  <2> DEFINE G == [q \in Paths |-> IF q = o.path THEN <<c>> ELSE v.chain[q]]
             C == IF o.kind = "mkdir" THEN v.carried \cup {o.path} ELSE v.carried
  <2>4. PICK w : /\ w.dirs = v.dirs /\ w.files = v.files /\ w.doomed = v.doomed
                 /\ w.held = v.held /\ w.carried = C /\ w.spot = v.spot /\ w.chain = G
    <3> WITNESS viewOf(v.dirs, v.files, v.doomed, v.held, C, v.spot, G)
    <3> QED
      BY DEF viewOf
  <2>5. \A q \in Paths : w.chain[q] = IF q = o.path THEN <<c>> ELSE v.chain[q]
    BY <2>4
  <2> HIDE DEF G
  <2>6. ChainsOf(table', w) /\ (Covers(table, v) => Covers(table', w))
    <3> HIDE DEF c
    <3> QED
      BY <1>0, <1>2, <2>1, <2>2, <2>3, <2>5, UseForPath
  <2>7. w.chain[o.path] = <<c>>
    BY <1>2, <2>5
  <2>8. ASSUME o.kind = "mkdir"
        PROVE  /\ Doing(place, o, r, disk, w)
               /\ w.carried = v.carried \cup {o.path} /\ o.path \notin nodes(v)
    <3>1. Making("dots", o, r, disk, w)
      <4>1. w.carried = v.carried \cup {o.path} /\ place = "dots"
        BY <2>4, <2>8
      <4>2. /\ parent(o.path) \in v.dirs
            /\ reg[t].image.put = slot("dir", lastOf(o.path), 0, 0)
            /\ room(reg[t].image, v, parent(o.path))
        BY <2>2, <2>8 DEF Making
      <4>3. r.image.put = slot("dir", lastOf(o.path), c, 0)
        <5>1. put = slot("dir", lastOf(o.path), c, 0)
          BY <4>2 DEF slot
        <5> HIDE DEF r, put, c
        <5> QED
          BY <1>3, <5>1
      <4>4. room(r.image, w, parent(o.path))
        <5>1. w.chain[parent(o.path)] = v.chain[parent(o.path)]
          BY <1>2, <2>2, <2>5, <4>2
        <5> HIDE DEF r, c, put
        <5> QED
          BY <1>3, <4>2, <5>1 DEF room
      <4> HIDE DEF r, c, put, C
      <4> QED
        BY <1>3, <2>4, <2>7, <2>8, <4>1, <4>2, <4>3, <4>4 DEF Making
    <3>2. Doing(place, o, r, disk, w)
      <4> HIDE DEF r
      <4> QED
        BY <2>8, <3>1 DEF Doing
    <3>3. w.carried = v.carried \cup {o.path} /\ o.path \notin nodes(v)
      BY <2>2, <2>4, <2>8 DEF absent
    <3> QED
      BY <2>8, <3>2, <3>3
  <2>9. ASSUME o.kind = "truncate"
        PROVE  /\ Doing(place, o, r, disk, w)
               /\ w.carried = v.carried /\ o.path \in v.held \cup v.doomed
    <3>1. Truncating("clear", o, r, w)
      <4>1. onChain(r.free, w.chain[o.path]) /\ Len(w.chain[o.path]) = 1
            /\ w.chain[o.path] # <<>> /\ w.chain[o.path][1] = c
        <5> HIDE DEF r, c
        <5> QED
          BY <1>3, <2>7 DEF onChain
      <4>2. r.image.put.first = c /\ r.image.put.kind = reg[t].image.put.kind
            /\ r.image.put.name = reg[t].image.put.name
        <5>1. reg[t].image.put \in Slots
          BY <1>2, RegParts, ImageParts
        <5>2. put.first = c /\ put.kind = reg[t].image.put.kind /\ put.name = reg[t].image.put.name
          BY <5>1, SlotParts
        <5> HIDE DEF r, c, put
        <5> QED
          BY <1>3, <5>2
      <4>3. r.count = clustersFor(o.size) /\ clustersFor(o.size) \in Nat
        <5>1. o.size \in Nat
          BY <1>0, <1>2, OpFacts
        <5> HIDE DEF r
        <5> QED
          BY <1>3, <2>2, <2>9, <5>1, ClustersForFacts DEF Truncating
      <4> HIDE DEF r, c, put
      <4> QED
        BY <1>3, <2>2, <2>4, <2>9, <4>1, <4>2, <4>3 DEF Truncating, isAt
    <3>2. Doing(place, o, r, disk, w)
      <4> HIDE DEF r
      <4> QED
        BY <2>9, <3>1 DEF Doing
    <3>3. w.carried = v.carried /\ o.path \in v.held \cup v.doomed
      BY <2>2, <2>4, <2>9
    <3> QED
      BY <2>9, <3>2, <3>3
  <2>10. /\ Doing(place, o, r, disk, w) /\ place # "idle" /\ ~ saving(place, o)
         /\ ~ saving(pc[t], o) /\ pc[t] # "idle"
         /\ \/ w.carried = v.carried /\ o.path \in v.held \cup v.doomed
            \/ w.carried = v.carried \cup {o.path} /\ o.path \notin nodes(v)
    <3>1. place # "idle" /\ ~ saving(place, o) /\ ~ saving(pc[t], o) /\ pc[t] # "idle"
      BY <1>0 DEF saving
    <3> HIDE DEF r, C, place
    <3> QED
      BY <1>2, <2>8, <2>9, <3>1
  <2>11. \A q \in Paths : q # o.path => w.chain[q] = v.chain[q]
    BY <2>5
  <2> HIDE DEF r, place, C, c, put
  <2>12. isViewed(w)'
    BY <1>0, <1>1, <1>2, <1>4, <2>2, <2>4, <2>6, <2>10, <2>11, ChainStep
  <2> QED
    BY <2>12
<1> QED
  BY <1>0, <1>2, <1>4, CalmBefore DEF TreeInv

LEMMA ShrinkTree == ASSUME TreeInv, TypeInv', NEW t \in Threads, Shrink(t) PROVE TreeInv'
<1> DEFINE o == op[t]
           first == reg[t].image.put.first
           new == IF reg[t].count = 1 /\ removed(table, first) = 0 THEN 0 ELSE first
           put == [reg[t].image.put EXCEPT !.first = new]
           i == [reg[t].image EXCEPT !.put = put]
           n == reg[t].count - 1
           r == [[reg[t] EXCEPT !.count = n] EXCEPT !.image = i]
           place == IF reg[t].count = 1 THEN "reread" ELSE "shrink"
<1>0. /\ pc[t] = "shrink" /\ UNCHANGED <<disk, damage>> /\ table' = removeLast(table, first)
      /\ pc' = [pc EXCEPT ![t] = place] /\ op' = op
  BY DEF Shrink, at, goto
<1>1. /\ TypeInv /\ Exclusive /\ reg[t] \in Regs /\ Exclusive' /\ Proper(table)
      /\ o.kind = "truncate" /\ o.path \in Paths /\ o.size \in Nat
      /\ reg[t].count \in Nat \ {0}
  BY <1>0, StateFacts, ExclusiveKept, OwnPaths, OpFacts, RegParts DEF TreeInv, fits, loops
<1>2. reg' = [reg EXCEPT ![t] = r]
  <2>1. reg' = [reg EXCEPT ![t].count = reg[t].count - 1,
                  ![t].image.put.first = IF reg[t].count = 1 /\ removed(table, first) = 0
                                         THEN 0 ELSE first]
    BY DEF Shrink
  <2> QED
    BY <2>1, ZenonT(60)
<1>3. /\ r.count = n /\ r.image.cluster = reg[t].image.cluster
      /\ r.image.slot = reg[t].image.slot /\ r.image.put.first = new
      /\ r.image.put.kind = reg[t].image.put.kind /\ r.image.put.name = reg[t].image.put.name
  <2>1. reg[t].image \in Images /\ reg[t].image.put \in Slots
    BY <1>1, RegParts, ImageParts
  <2>2. put.first = new /\ put.kind = reg[t].image.put.kind /\ put.name = reg[t].image.put.name
    <3> HIDE DEF new
    <3> QED
      BY <2>1, SlotParts
  <2>3. i.put = put /\ i.cluster = reg[t].image.cluster /\ i.slot = reg[t].image.slot
    <3> HIDE DEF put
    <3> QED
      BY <2>1, ImageParts
  <2>4. r.count = n /\ r.image = i
    <3> HIDE DEF i, n
    <3> QED
      BY <1>1, RegParts
  <2> HIDE DEF r, i, put, new
  <2> QED
    BY <2>2, <2>3, <2>4
<1>4. ASSUME NEW v, isViewed(v) PROVE \E w : isViewed(w)'
  <2> DEFINE s == v.chain[o.path]
             G == [q \in Paths |-> IF q = o.path THEN SubSeq(s, 1, Len(s) - 1) ELSE v.chain[q]]
  <2>1. ChainsOf(table, v) /\ NodesOf(v) /\ Truncating("shrink", o, reg[t], v)
    BY <1>0, <1>1, <1>4, ViewFacts DEF Doing
  <2>2. /\ o.path \in v.held /\ o.path \in v.files /\ s # <<>> /\ first = s[1]
        /\ Len(s) = clustersFor(o.size) + reg[t].count
        /\ isAt(reg[t].image, v, o.path)
        /\ reg[t].image.put.kind = "file" /\ reg[t].image.put.name = lastOf(o.path)
    BY <2>1 DEF Truncating
  <2>3. o.path \notin v.dirs
    BY <2>1, <2>2 DEF NodesOf
  <2> HIDE DEF G
  <2>4. PICK w : /\ w.dirs = v.dirs /\ w.files = v.files /\ w.doomed = v.doomed
                 /\ w.held = v.held /\ w.carried = v.carried /\ w.spot = v.spot /\ w.chain = G
    <3> WITNESS viewOf(v.dirs, v.files, v.doomed, v.held, v.carried, v.spot, G)
    <3> QED
      BY DEF viewOf
  <2>5. \A q \in Paths : w.chain[q] = IF q = o.path THEN SubSeq(v.chain[o.path], 1, Len(v.chain[o.path]) - 1)
                                      ELSE v.chain[q]
    BY <2>4 DEF G
  <2> DEFINE z == w.chain[o.path]
  <2>6. /\ ChainsOf(removeLast(table, s[1]), w)
        /\ Covers(table, v) => Covers(removeLast(table, s[1]), w)
        /\ Len(s) \in Nat \ {0} /\ Len(z) = Len(s) - 1
        /\ Len(s) = 1 => removed(table, s[1]) = 0
        /\ Len(s) > 1 => removed(table, s[1]) # 0 /\ z # <<>> /\ z[1] = s[1]
    <3>1. \A q \in Paths : w.chain[q] = IF q = o.path THEN SubSeq(v.chain[o.path], 1, Len(v.chain[o.path]) - 1)
                                      ELSE v.chain[q]
      BY <2>5
    <3>2. Proper(table) /\ ChainsOf(table, v) /\ o.path \in Paths /\ v.chain[o.path] # <<>>
      BY <1>1, <2>1, <2>2
    <3> HIDE DEF o
    <3> QED
      BY <3>1, <3>2, ShrinkPath
  <2>7. table' = removeLast(table, s[1])
    BY <1>0, <2>2
  <2>8. clustersFor(o.size) \in Nat
    BY <1>1, ClustersForFacts
  <2>9. Len(s) = 1 => z = <<>>
    <3>1. s \in Seq(Clusters)
      BY <1>1, <1>4, ChainType
    <3>2. z = SubSeq(s, 1, Len(s) - 1)
      BY <1>1, <2>5
    <3> HIDE DEF s, z
    <3> QED
      BY <3>1, <3>2
  <2>10. Doing(place, o, r, disk, w)
    <3>1. \/ place = "shrink" /\ z # <<>> /\ new = z[1] /\ Len(z) = clustersFor(o.size) + n
          \/ place = "reread" /\ Len(z) = clustersFor(o.size) /\ new = headOf(z)
      <4>1. CASE reg[t].count = 1
        <5>1. CASE Len(s) = 1
          <6>1. new = 0 /\ z = <<>>
            BY <2>2, <2>6, <2>9, <4>1, <5>1
          <6> HIDE DEF new, s, z
          <6> QED
            BY <1>1, <2>2, <2>6, <2>8, <4>1, <6>1 DEF headOf
        <5>2. CASE Len(s) # 1
          <6>1. Len(s) > 1
            <7>1. Len(s) \in Nat \ {0}
              BY <2>6
            <7> DEFINE l == Len(s)
            <7>2. l # 1 /\ l \in Nat \ {0}
              BY <5>2, <7>1
            <7> HIDE DEF l
            <7>3. l > 1
              BY <7>2
            <7> QED
              BY <7>3 DEF l
          <6>2. new = first
            BY <2>2, <2>6, <6>1
          <6> HIDE DEF new, s, z
          <6> QED
            BY <1>1, <2>2, <2>6, <2>8, <4>1, <6>1, <6>2 DEF headOf
        <5> QED
          BY <5>1, <5>2
      <4>2. CASE reg[t].count # 1
        <5>1. Len(s) > 1
          BY <1>1, <2>2, <2>6, <2>8, <4>2
        <5>2. new = first
          BY <4>2
        <5> HIDE DEF new, s, z
        <5> QED
          BY <1>1, <2>2, <2>6, <2>8, <4>2, <5>1, <5>2
      <4> QED
        BY <4>1, <4>2
    <3> HIDE DEF r, place, new, n, s
    <3>2. Truncating(place, o, r, w)
      BY <1>3, <2>2, <2>4, <3>1 DEF Truncating, isAt
    <3> QED
      BY <1>1, <3>2 DEF Doing
  <2>11. /\ place # "idle" /\ ~ saving(place, o) /\ ~ saving(pc[t], o) /\ pc[t] # "idle"
         /\ w.carried = v.carried /\ o.path \in v.held \cup v.doomed
    BY <1>0, <1>1, <2>2, <2>4 DEF saving
  <2>12. \A q \in Paths : q # o.path => w.chain[q] = v.chain[q]
    BY <2>5
  <2> HIDE DEF r, place, s, z
  <2>13. isViewed(w)'
    BY <1>0, <1>1, <1>2, <1>4, <2>3, <2>4, <2>6, <2>7, <2>10, <2>11, <2>12, ChainStep
  <2> QED
    BY <2>13
<1>5. calm' => calm
  BY <1>0 DEF calm
<1> QED
  BY <1>1, <1>4, <1>5 DEF TreeInv

LEMMA ExtendTree == ASSUME TreeInv, TypeInv', NEW t \in Threads, Extend(t) PROVE TreeInv'
<1> DEFINE o == op[t]
           first == reg[t].image.put.first
           c == nextFree(table)
           r == [reg[t] EXCEPT !.free = c]
<1>0. /\ pc[t] = "extend" /\ UNCHANGED <<disk, damage>> /\ table' = linkFree(table, first)
      /\ reg' = [reg EXCEPT ![t] = r] /\ pc' = [pc EXCEPT ![t] = "clear"] /\ op' = op
      /\ freeClusters(table) # {}
  BY DEF Extend, at, goto
<1>1. /\ TypeInv /\ Exclusive /\ reg[t] \in Regs /\ Exclusive' /\ Proper(table)
      /\ o.kind = "truncate" /\ o.path \in Paths /\ o.size \in Nat
      /\ reg[t].count \in Nat
  BY <1>0, StateFacts, ExclusiveKept, OwnPaths, OpFacts, RegParts DEF TreeInv, fits
<1>2. c \in Clusters /\ c # 0
  <2>1. c \in Clusters
    BY <1>0, <1>1, NextFreeType
  <2> HIDE DEF c
  <2> QED
    BY <2>1, LinkFacts
<1>3. r.count = reg[t].count /\ r.image = reg[t].image /\ r.free = c
  BY <1>1, RegParts
<1>4. ASSUME NEW v, isViewed(v) PROVE \E w : isViewed(w)'
  <2> DEFINE s == v.chain[o.path]
             G == [q \in Paths |-> IF q = o.path THEN Append(s, c) ELSE v.chain[q]]
  <2>1. ChainsOf(table, v) /\ NodesOf(v) /\ Truncating("extend", o, reg[t], v)
    BY <1>0, <1>1, <1>4, ViewFacts DEF Doing
  <2>2. /\ o.path \in v.held /\ o.path \in v.files /\ s # <<>> /\ first = s[1]
        /\ Len(s) + reg[t].count = clustersFor(o.size)
        /\ isAt(reg[t].image, v, o.path)
        /\ reg[t].image.put.kind = "file" /\ reg[t].image.put.name = lastOf(o.path)
    BY <2>1 DEF Truncating
  <2>3. o.path \notin v.dirs
    BY <2>1, <2>2 DEF NodesOf
  <2> HIDE DEF G
  <2>4. PICK w : /\ w.dirs = v.dirs /\ w.files = v.files /\ w.doomed = v.doomed
                 /\ w.held = v.held /\ w.carried = v.carried /\ w.spot = v.spot /\ w.chain = G
    <3> WITNESS viewOf(v.dirs, v.files, v.doomed, v.held, v.carried, v.spot, G)
    <3> QED
      BY DEF viewOf
  <2>5. \A q \in Paths : w.chain[q] = IF q = o.path THEN Append(v.chain[o.path], nextFree(table))
                                      ELSE v.chain[q]
    BY <2>4 DEF G
  <2> DEFINE z == w.chain[o.path]
  <2>6. /\ ChainsOf(linkFree(table, s[1]), w)
        /\ Covers(table, v) => Covers(linkFree(table, s[1]), w)
        /\ z = Append(s, c) /\ z[1] = s[1] /\ Len(z) = Len(s) + 1
    <3>1. \A q \in Paths : w.chain[q] = IF q = o.path THEN Append(v.chain[o.path], nextFree(table))
                                      ELSE v.chain[q]
      BY <2>5
    <3>2. /\ Proper(table) /\ ChainsOf(table, v) /\ o.path \in Paths /\ v.chain[o.path] # <<>>
          /\ nextFree(table) # 0
      BY <1>1, <1>2, <2>1, <2>2
    <3>3. /\ ChainsOf(linkFree(table, v.chain[o.path][1]), w)
          /\ Covers(table, v) => Covers(linkFree(table, v.chain[o.path][1]), w)
          /\ Append(v.chain[o.path], nextFree(table))[1] = v.chain[o.path][1]
          /\ Len(Append(v.chain[o.path], nextFree(table))) = Len(v.chain[o.path]) + 1
      <4> HIDE DEF o
      <4> QED
        BY <3>1, <3>2, LinkToPath
    <3>4. z = Append(s, c)
      BY <1>1, <3>1
    <3> QED
      BY <3>3, <3>4
  <2>7. s \in Seq(Clusters) /\ Len(s) \in Nat
    BY <1>1, <1>4, ChainType
  <2>8. z # <<>> /\ onChain(c, z) /\ Len(z) + reg[t].count = clustersFor(o.size) + 1
    <3> HIDE DEF s, z, c
    <3>1. z # <<>> /\ onChain(c, z)
      BY <1>2, <2>6, <2>7, AppendChain
    <3>2. clustersFor(o.size) \in Nat
      BY <1>1, ClustersForFacts
    <3>3. Len(z) = Len(s) + 1 /\ Len(s) + reg[t].count = clustersFor(o.size) /\ Len(s) \in Nat
      BY <2>2, <2>6, <2>7
    <3>4. reg[t].count \in Nat
      BY <1>1
    <3>5. \A a, b, l, m \in Nat : m = l + 1 /\ l + a = b => m + a = b + 1
      OBVIOUS
    <3>6. Len(z) \in Nat
      BY <3>3
    <3> DEFINE l == Len(s)
               m == Len(z)
               b == clustersFor(o.size)
               a == reg[t].count
    <3>7. m = l + 1 /\ l + a = b /\ a \in Nat /\ b \in Nat /\ l \in Nat /\ m \in Nat
      BY <3>2, <3>3, <3>4, <3>6
    <3> HIDE DEF l, m, a, b
    <3>8. m + a = b + 1
      BY <3>5, <3>7
    <3> QED
      BY <3>1, <3>8 DEF l, m, a, b
  <2>9. Doing("clear", o, r, disk, w)
    <3> HIDE DEF r, c, s
    <3>1. Truncating("clear", o, r, w)
      BY <1>3, <2>2, <2>4, <2>6, <2>8 DEF Truncating, isAt
    <3> QED
      BY <1>1, <3>1 DEF Doing
  <2>10. /\ ~ saving("clear", o) /\ ~ saving(pc[t], o) /\ pc[t] # "idle"
         /\ w.carried = v.carried /\ o.path \in v.held \cup v.doomed
    BY <1>0, <1>1, <2>2, <2>4 DEF saving
  <2>11. \A q \in Paths : q # o.path => w.chain[q] = v.chain[q]
    BY <2>5
  <2>12. ChainsOf(table', w) /\ (Covers(table, v) => Covers(table', w))
    BY <1>0, <2>2, <2>6
  <2> HIDE DEF r, s, z, c
  <2>13. isViewed(w)'
    BY <1>0, <1>1, <1>4, <2>3, <2>4, <2>9, <2>10, <2>11, <2>12, ChainStep
  <2> QED
    BY <2>13
<1>5. calm' => calm
  BY <1>0 DEF calm
<1> QED
  BY <1>1, <1>4, <1>5 DEF TreeInv

\* A full directory gets a cluster that shows nothing.
LEMMA MkLinkTree == ASSUME TreeInv, TypeInv', NEW t \in Threads, MkLink(t) PROVE TreeInv'
<1> DEFINE o == op[t]
           d == parent(o.path)
           c == nextFree(table)
           i == image(c, 1, reg[t].image.put)
           r == [[reg[t] EXCEPT !.image = i] EXCEPT !.count = 1]
           place == IF o.kind = "mkdir" THEN "find" ELSE "place"
<1>0. /\ pc[t] = "link" /\ UNCHANGED disk /\ table' = linkFree(table, folder(d))
      /\ reg' = [reg EXCEPT ![t] = r] /\ pc' = [pc EXCEPT ![t] = place] /\ op' = op
      /\ freeClusters(table) # {} /\ damage \subseteq damage'
      /\ showsOld(disk[c]) => "stale" \in damage'
  BY DEF MkLink, at, goto, because
<1>1. /\ TypeInv /\ Exclusive /\ reg[t] \in Regs /\ Exclusive' /\ Proper(table)
      /\ o.kind \in {"create", "mkdir"} /\ o.path \in Paths /\ o.path # <<>> /\ d \in Paths
      /\ prefixes(d) \subseteq prefixes(o.path) \cup prefixes(o.to)
  BY <1>0, StateFacts, ExclusiveKept, OwnPaths DEF TreeInv, fits
<1>2. c \in Clusters /\ c # 0
  <2>1. c \in Clusters
    BY <1>0, <1>1, NextFreeType
  <2> HIDE DEF c
  <2> QED
    BY <2>1, LinkFacts
<1>3. /\ r.image = i /\ i.cluster = c /\ i.slot = 1 /\ i.put = reg[t].image.put
      /\ i.seen = disk[c]
  <2>1. i.cluster = c /\ i.slot = 1 /\ i.put = reg[t].image.put /\ i.seen = disk[c]
    BY <1>2 DEF image
  <2> HIDE DEF i
  <2> QED
    BY <1>1, <2>1, RegParts
<1>4. ASSUME NEW v, isViewed(v), calm', damage' = {} => damage = {} PROVE \E w : isViewed(w)'
  <2> DEFINE s == v.chain[d]
             G == [q \in Paths |-> IF q = d THEN Append(s, c) ELSE v.chain[q]]
  <2>1. /\ ChainsOf(table, v) /\ NodesOf(v) /\ EntriesOf(disk, v) /\ NoOthers(disk, v)
        /\ damage = {} => Covers(table, v)
        /\ \A u \in Threads : Doing(pc[u], op[u], reg[u], disk, v)
    BY <1>1, <1>4, ViewFacts
  <2>2. /\ d \in v.dirs /\ absent(v, o.path)
        /\ reg[t].image.put = slot(IF o.kind = "mkdir" THEN "dir" ELSE "file", lastOf(o.path), 0, 0)
    BY <1>0, <1>1, <2>1 DEF Doing, Making
  <2>3. folder(d) = s[1] /\ s # <<>>
    <3>1. pc[t] # "idle" /\ (op[t].kind \in {"unlink", "rmdir"} => pc[t] = "start")
      BY <1>0, <1>1
    <3>2. finds(v, d)
      <4> HIDE DEF d
      <4> QED
        BY <1>1, <1>4, <3>1, OwnLookup
    <3> HIDE DEF d
    <3> QED
      BY <2>2, <3>2 DEF finds
  <2> HIDE DEF G
  <2>4. PICK w : /\ w.dirs = v.dirs /\ w.files = v.files /\ w.doomed = v.doomed
                 /\ w.held = v.held /\ w.carried = v.carried /\ w.spot = v.spot /\ w.chain = G
    <3> WITNESS viewOf(v.dirs, v.files, v.doomed, v.held, v.carried, v.spot, G)
    <3> QED
      BY DEF viewOf
  <2>5. \A q \in Paths : w.chain[q] = IF q = d THEN Append(v.chain[d], nextFree(table))
                                      ELSE v.chain[q]
    BY <2>4 DEF G
  <2>6. /\ ChainsOf(linkFree(table, v.chain[d][1]), w)
        /\ Covers(table, v) => Covers(linkFree(table, v.chain[d][1]), w)
        /\ Append(v.chain[d], nextFree(table))[1] = v.chain[d][1]
    <3>1. /\ Proper(table) /\ ChainsOf(table, v) /\ d \in Paths /\ v.chain[d] # <<>>
          /\ nextFree(table) # 0
      BY <1>1, <1>2, <2>1, <2>3
    <3> HIDE DEF d
    <3> QED
      BY <2>5, <3>1, LinkToPath
  <2>7. w.chain[d] = Append(s, c) /\ w.chain[d] # <<>> /\ w.chain[d][1] = s[1]
        /\ \A x : onChain(x, w.chain[d]) <=> onChain(x, s) \/ x = c
    <3>1. w.chain[d] = Append(s, c)
      BY <1>1, <2>5
    <3>2. s \in Seq(Clusters)
      BY <1>1, <1>4, ChainType
    <3>3. Append(s, c)[1] = s[1]
      BY <2>6
    <3> HIDE DEF s, c, d
    <3> QED
      BY <1>2, <3>1, <3>2, <3>3, AppendChain
  <2>8. ChainsOf(table', w) /\ (damage' = {} => Covers(table', w))
    <3> HIDE DEF d
    <3> QED
      BY <1>0, <1>4, <2>1, <2>3, <2>6
  <2>9. NodesOf(w)
    <3>1. nodes(w) = nodes(v) /\ \A p : absent(w, p) <=> absent(v, p)
      BY <2>4 DEF nodes, absent
    <3>2. \A p \in Paths : absent(w, p) => w.chain[p] = <<>>
      <4>1. ~ absent(v, d)
        BY <2>2 DEF absent, nodes
      <4> HIDE DEF d
      <4> QED
        BY <2>1, <2>5, <3>1, <4>1 DEF NodesOf
    <3>3. w.chain[<<>>] # <<>> /\ w.chain[<<>>][1] = 2
      <4>1. <<>> \in Paths
        BY DEF Paths
      <4> HIDE DEF d
      <4> QED
        BY <2>1, <2>5, <2>7, <4>1 DEF NodesOf
    <3> QED
      BY <2>1, <2>4, <3>1, <3>2, <3>3 DEF NodesOf
  <2>10. ~ showsOld(disk[c])
    BY <1>0, <1>4 DEF calm
  <2>11. EntriesOf(disk', w) /\ NoOthers(disk', w)
    <3>1. s \in Seq(Clusters)
      BY <1>1, <1>4, ChainType
    <3>2. \A p \in Paths : p # d => w.chain[p] = v.chain[p]
      BY <2>5
    <3>3. w.chain[d] = Append(v.chain[d], c) /\ v.chain[d] # <<>> /\ d \in v.dirs
      BY <2>2, <2>3, <2>7
    <3>4. EntriesOf(disk, w) /\ NoOthers(disk, w)
      <4> HIDE DEF d, c
      <4> QED
        BY <1>2, <2>1, <2>4, <2>10, <3>1, <3>2, <3>3, EntriesGrow
    <3> QED
      BY <1>0, <3>4
  <2>12. ASSUME NEW u \in Threads, u # t PROVE Doing(pc[u], op[u], reg[u], disk', w)
    <3>1. /\ pc[t] # "idle" /\ ~ saving(pc[t], op[t])
          /\ \A p \in Paths : p \notin subjects(op[t]) => sameAt(v, w, p)
          /\ \A p \in Paths : grows(v, w, p)
      <4> HIDE DEF d
      <4> QED
        BY <1>0, <2>2, <2>4, <2>5, <2>7 DEF saving, sameAt, grows
    <3> QED
      BY <1>0, <1>1, <2>1, <2>12, <3>1, OtherThreads
  <2>13. Doing(place, o, r, disk', w)
    <3>1. absent(w, o.path) /\ d \in w.dirs
      BY <2>2, <2>4 DEF absent, nodes
    <3>2. room(r.image, w, d)
      <4>1. onChain(c, w.chain[d])
        BY <2>7
      <4>2. 1 \in 1 .. SlotCount /\ 1 .. 0 = {}
        BY SlotFacts
      <4>3. disk[c][1].kind \notin {"file", "dir"}
        BY <2>10, <4>2 DEF showsOld
      <4> HIDE DEF c, d, i, r
      <4> QED
        BY <1>3, <4>1, <4>2, <4>3 DEF room
    <3>3. r.image.put = reg[t].image.put
      BY <1>3
    <3>4. place = "find" \/ (place = "place" /\ o.kind # "mkdir")
      OBVIOUS
    <3> HIDE DEF r, place
    <3>5. Making(place, o, r, disk', w)
      BY <1>1, <2>2, <3>1, <3>2, <3>3, <3>4 DEF Making
    <3> QED
      BY <1>1, <3>5 DEF Doing
  <2>14. place # "idle" /\ ~ saving(place, o) /\ pc[t] # "idle"
    BY <1>0 DEF saving
  <2>15. \A q : q # op[t].path => /\ q \in w.held => q \in v.held
                                  /\ q \in w.doomed => q \in v.doomed
                                  /\ q \in w.carried => q \in v.carried
    BY <2>4
  <2> HIDE DEF r, place, d, c
  <2>16. isViewed(w)'
    BY <1>0, <1>1, <1>4, <2>8, <2>9, <2>11, <2>12, <2>13, <2>14, <2>15, StepViewed
  <2> QED
    BY <2>16
<1> QED
  BY <1>0, <1>1, <1>4, CalmBefore DEF TreeInv

-----------------------------------------------------------------------------
(* Steps that write a cluster.                                              *)

\* What a step of t that writes a cluster leaves as it was: the other paths, and
\* every directory; a mkdir makes one of what it carried.
follows(t, v, w) ==
    /\ \A q \in Paths : q \notin subjects(op[t]) =>
          /\ sameAt(v, w, q) /\ w.spot[q] = v.spot[q]
          /\ q \in nodes(v) /\ q # <<>> => entryOf(disk', w, q) = entryOf(disk, v, q)
    /\ \A q \in v.dirs : q \in w.dirs /\ w.chain[q] = v.chain[q]
    /\ w.doomed \subseteq v.doomed
    /\ op[t].kind = "mkdir" /\ pc[t] = "place" =>
          op[t].path \in w.dirs /\ w.chain[op[t].path] = v.chain[op[t].path]

\* A cluster of what t is making or truncating is written.
LEMMA DiskStep ==
    ASSUME TypeInv, Exclusive, NEW t \in Threads, pc[t] # "idle", ~ saving(pc[t], op[t]),
           NEW place, place # "idle", ~ saving(place, op[t]), NEW r, NEW v, isViewed(v),
           pc' = [pc EXCEPT ![t] = place], reg' = [reg EXCEPT ![t] = r], op' = op,
           table' = table, damage' = {} => damage = {},
           op[t].path \notin v.dirs, NEW c, onChain(c, v.chain[op[t].path]),
           \A x : x # c => disk'[x] = disk[x],
           Doing(place, op[t], r, disk', v), pc[t] # "place"
    PROVE  isViewed(v)' /\ follows(t, v, v)
<1>1. /\ ChainsOf(table, v) /\ NodesOf(v) /\ EntriesOf(disk, v) /\ NoOthers(disk, v)
      /\ damage = {} => Covers(table, v)
      /\ \A u \in Threads : Doing(pc[u], op[u], reg[u], disk, v)
  BY ViewFacts
<1>2. op[t].path \in Paths
  BY OwnPaths
<1>3. ASSUME NEW q \in Paths, q # op[t].path, NEW x, onChain(x, v.chain[q])
      PROVE  disk'[x] = disk[x]
  BY <1>1, <1>2, <1>3, OneOwner
<1>4. EntriesOf(disk', v) /\ NoOthers(disk', v)
  <2>1. \A d \in v.dirs : \A x : onChain(x, v.chain[d]) => disk'[x] = disk[x]
    BY <1>1, <1>3 DEF NodesOf, nodes
  <2>2. \A p \in v.files : p \notin v.held => owns(entryOf(disk, v, p), v.chain[p])
    BY <1>1 DEF EntriesOf
  <2> QED
    BY <1>1, <2>1, <2>2, EntriesKept
<1>5. ASSUME NEW u \in Threads, u # t PROVE Doing(pc[u], op[u], reg[u], disk', v)
  <2>1. /\ \A q \in Paths : q \notin subjects(op[t]) => sameAt(v, v, q)
        /\ \A d \in Paths : grows(v, v, d)
    BY DEF sameAt, grows
  <2>2. \A q \in v.carried : q # op[t].path =>
            \A x : onChain(x, v.chain[q]) => disk'[x] = disk[x]
    BY <1>1, <1>3 DEF NodesOf
  <2>3. NodesOf(v) /\ \A y \in Threads : Doing(pc[y], op[y], reg[y], disk, v)
    BY <1>1
  <2> QED
    BY <1>5, <2>1, <2>2, <2>3, OtherThreads
<1>6. ChainsOf(table', v) /\ NodesOf(v) /\ (damage' = {} => Covers(table', v))
  BY <1>1
<1>7. isViewed(v)'
  BY <1>4, <1>5, <1>6, StepViewed
<1>8. ASSUME NEW q \in nodes(v), q # <<>> PROVE entryOf(disk', v, q) = entryOf(disk, v, q)
  <2>1. onChain(v.spot[q][1], v.chain[parent(q)]) /\ parent(q) \in v.dirs /\ parent(q) \in Paths
    BY <1>1, <1>8, SpotOfNode
  <2>2. disk'[v.spot[q][1]] = disk[v.spot[q][1]]
    BY <1>3, <2>1
  <2> QED
    BY <2>2 DEF entryOf
<1> QED
  BY <1>7, <1>8 DEF follows, sameAt

LEMMA MkDotsView ==
    ASSUME TreeInv, NEW t \in Threads, MkDots(t), calm', NEW v, isViewed(v)
    PROVE  isViewed(v)' /\ follows(t, v, v)
<1> DEFINE o == op[t]
           c == reg[t].free
           new == [disk[c] EXCEPT ![1] = Dots]
<1>0. /\ pc[t] = "dots" /\ UNCHANGED <<table, reg>> /\ disk' = [disk EXCEPT ![c] = new]
      /\ pc' = [pc EXCEPT ![t] = "place"] /\ op' = op /\ damage \subseteq damage'
      /\ showsOld(new) => "stale" \in damage'
  BY DEF MkDots, at, fatVars, goto, because
<1>1. /\ TypeInv /\ Exclusive /\ reg[t] \in Regs /\ Exclusive' /\ disk \in Disks
      /\ o.kind = "mkdir" /\ o.path \in Paths /\ reg' = [reg EXCEPT ![t] = reg[t]]
      /\ c \in Links
  BY <1>0, StateFacts, ExclusiveKept, OwnPaths, RegParts DEF TreeInv, fits
<1>2. disk'[c] = new /\ \A x : x # c => disk'[x] = disk[x]
  <2>1. c \in DOMAIN disk
    BY <1>1, LinkFacts DEF Disks
  <2> HIDE DEF new, c
  <2> QED
    BY <1>0, <2>1
<1>3. isViewed(v)' /\ follows(t, v, v)
  <2>1. NodesOf(v) /\ Making("dots", o, reg[t], disk, v)
    BY <1>0, <1>1, ViewFacts DEF Doing
  <2>2. o.path \in v.carried /\ v.chain[o.path] = <<c>> /\ o.path \notin v.dirs
    BY <1>1, <2>1 DEF Making, NodesOf, nodes
  <2>3. onChain(c, v.chain[o.path])
    BY <2>2 DEF onChain
  <2>4. Doing("place", o, reg[t], disk', v)
    <3>1. ~ showsOld(disk'[c])
      BY <1>0, <1>2 DEF calm
    <3>2. Making("place", o, reg[t], disk', v)
      BY <1>1, <2>1, <3>1 DEF Making
    <3> QED
      BY <1>1, <3>2 DEF Doing
  <2>5. ~ saving("place", o) /\ ~ saving(pc[t], o) /\ pc[t] # "idle"
    BY <1>0 DEF saving
  <2> DEFINE place == "place"
             r == reg[t]
  <2>8. /\ Doing(place, o, r, disk', v) /\ place # "idle" /\ ~ saving(place, o)
        /\ ~ saving(pc[t], o) /\ pc[t] # "idle" /\ table' = table
        /\ pc' = [pc EXCEPT ![t] = place] /\ reg' = [reg EXCEPT ![t] = r] /\ op' = op
    BY <1>0, <1>1, <2>4, <2>5
  <2>9. (damage' = {} => damage = {}) /\ pc[t] # "place"
    BY <1>0
  <2> HIDE DEF c, place, r
  <2> QED
    BY <1>1, <1>2, <2>2, <2>3, <2>8, <2>9, DiskStep
<1> QED
  BY <1>3

LEMMA MkDotsTree == ASSUME TreeInv, TypeInv', NEW t \in Threads, MkDots(t) PROVE TreeInv'
<1>1. damage \subseteq damage' /\ op' = op
  BY DEF MkDots, because, goto
<1>2. Exclusive'
  BY <1>1, ExclusiveKept DEF TreeInv
<1> QED
  BY <1>1, <1>2, CalmBefore, MkDotsView DEF TreeInv

LEMMA ClearView ==
    ASSUME TreeInv, NEW t \in Threads, Clear(t), NEW v, isViewed(v)
    PROVE  isViewed(v)' /\ follows(t, v, v)
<1> DEFINE o == op[t]
           c == reg[t].free
           n == reg[t].count - 1
           r == [reg[t] EXCEPT !.count = n]
           place == IF reg[t].count = 1 THEN "reread" ELSE "extend"
<1>0. /\ pc[t] = "clear" /\ UNCHANGED <<table, damage>> /\ disk' = [disk EXCEPT ![c] = Zeros]
      /\ reg' = [reg EXCEPT ![t] = r] /\ pc' = [pc EXCEPT ![t] = place] /\ op' = op
  BY DEF Clear, at, fatVars, goto
<1>1. /\ TypeInv /\ Exclusive /\ reg[t] \in Regs /\ Exclusive' /\ disk \in Disks
      /\ o.kind = "truncate" /\ o.path \in Paths /\ o.size \in Nat
      /\ reg[t].count \in Nat \ {0}
  BY <1>0, StateFacts, ExclusiveKept, OwnPaths, OpFacts, RegParts DEF TreeInv, fits, loops
<1>2. \A x : x # c => disk'[x] = disk[x]
  BY <1>0, <1>1 DEF Disks
<1>3. r.count = n /\ r.image = reg[t].image /\ r.free = c
  <2> HIDE DEF n
  <2> QED
    BY <1>1, RegParts
<1>4. isViewed(v)' /\ follows(t, v, v)
  <2> DEFINE s == v.chain[o.path]
  <2>1. NodesOf(v) /\ Truncating("clear", o, reg[t], v)
    BY <1>0, <1>1, ViewFacts DEF Doing
  <2>2. /\ o.path \notin v.dirs /\ onChain(c, s) /\ Len(s) + reg[t].count = clustersFor(o.size) + 1
        /\ s # <<>>
    BY <2>1 DEF Truncating, NodesOf
  <2>3. Len(s) \in Nat /\ clustersFor(o.size) \in Nat
    BY <1>1, ChainType, ClustersForFacts
  <2>4. IF reg[t].count = 1 THEN Len(s) = clustersFor(o.size)
        ELSE Len(s) + n = clustersFor(o.size)
    <3> DEFINE l == Len(s)
               b == clustersFor(o.size)
               a == reg[t].count
    <3>1. l \in Nat /\ b \in Nat /\ a \in Nat \ {0} /\ l + a = b + 1
      BY <1>1, <2>2, <2>3
    <3> HIDE DEF l, b, a
    <3>2. IF a = 1 THEN l = b ELSE l + (a - 1) = b
      BY <3>1
    <3> QED
      BY <3>2 DEF l, b, a
  <2>5. Doing(place, o, r, disk', v)
    <3>1. headOf(s) = s[1]
      BY <2>2 DEF headOf
    <3>2. \/ place = "reread" /\ Len(s) = clustersFor(o.size)
          \/ place = "extend" /\ Len(s) + r.count = clustersFor(o.size)
      <4> HIDE DEF r, s
      <4> QED
        BY <1>3, <2>4
    <3> HIDE DEF r, place
    <3>3. Truncating(place, o, r, v)
      BY <1>3, <2>1, <2>2, <3>1, <3>2 DEF Truncating, isAt
    <3> QED
      BY <1>1, <3>3 DEF Doing
  <2>6. /\ ~ saving(place, o) /\ place # "idle" /\ ~ saving(pc[t], o) /\ pc[t] # "idle"
        /\ pc[t] # "place"
    BY <1>0 DEF saving
  <2>7. onChain(c, v.chain[o.path])
    BY <2>2
  <2> HIDE DEF c, r, place, s
  <2> QED
    BY <1>0, <1>1, <1>2, <2>2, <2>5, <2>6, <2>7, DiskStep
<1> QED
  BY <1>4

LEMMA ClearTree == ASSUME TreeInv, TypeInv', NEW t \in Threads, Clear(t) PROVE TreeInv'
<1>1. damage' = damage /\ op' = op
  BY DEF Clear, goto
<1>2. Exclusive'
  BY <1>1, ExclusiveKept DEF TreeInv
<1> QED
  BY <1>1, <1>2, ClearView DEF TreeInv, calm

LEMMA ClearTailView ==
    ASSUME TreeInv, NEW t \in Threads, ClearTail(t), NEW v, isViewed(v)
    PROVE  isViewed(v)' /\ follows(t, v, v)
<1> DEFINE o == op[t]
           c == lastLinked(table, reg[t].image.put.first)
           new == [i \in 1 .. SlotCount |-> IF i > op[t].size % SlotCount THEN End ELSE disk[c][i]]
<1>0. /\ pc[t] = "tail" /\ UNCHANGED <<table, reg, damage>> /\ disk' = [disk EXCEPT ![c] = new]
      /\ pc' = [pc EXCEPT ![t] = "reread"] /\ op' = op
  BY DEF ClearTail, at, fatVars, goto
<1>1. /\ TypeInv /\ Exclusive /\ Exclusive' /\ disk \in Disks
      /\ o.kind = "truncate" /\ o.path \in Paths /\ reg' = [reg EXCEPT ![t] = reg[t]]
  BY <1>0, StateFacts, ExclusiveKept, OwnPaths DEF TreeInv, fits
<1>2. \A x : x # c => disk'[x] = disk[x]
  <2> HIDE DEF c, new
  <2> QED
    BY <1>0, <1>1 DEF Disks
<1>3. isViewed(v)' /\ follows(t, v, v)
  <2> DEFINE s == v.chain[o.path]
  <2>1. /\ NodesOf(v) /\ ChainsOf(table, v) /\ Proper(table)
        /\ Truncating("tail", o, reg[t], v)
    BY <1>0, <1>1, ViewFacts DEF Doing
  <2>2. /\ o.path \notin v.dirs /\ s # <<>> /\ reg[t].image.put.first = s[1]
        /\ Len(s) = clustersFor(o.size)
    BY <2>1 DEF Truncating, NodesOf
  <2>3. /\ s \in Seq(Clusters) /\ Len(s) \in Nat \ {0} /\ walk(table, s[1]) = s /\ s[1] \in Clusters
    BY <1>1, <2>1, <2>2, ChainOfPath, ChainType
  <2>4. c = s[Len(s)]
    <3>1. ~ isEOC(s[1])
      BY <2>3, LinkFacts DEF isEOC, Media, EOC, Clusters
    <3> QED
      BY <2>2, <2>3, <3>1 DEF lastLinked, lastOf
  <2>5. onChain(c, v.chain[o.path])
    <3>1. Len(s) \in 1 .. Len(s)
      BY <2>3
    <3> HIDE DEF c
    <3> QED
      BY <2>4, <3>1 DEF onChain
  <2>6. Doing("reread", o, reg[t], disk', v)
    <3>1. headOf(s) = s[1]
      BY <2>2 DEF headOf
    <3>2. Truncating("reread", o, reg[t], v)
      BY <2>1, <2>2, <3>1 DEF Truncating
    <3> QED
      BY <1>1, <3>2 DEF Doing
  <2>7. ~ saving("reread", o) /\ ~ saving(pc[t], o) /\ pc[t] # "idle"
    BY <1>0 DEF saving
  <2> DEFINE place == "reread"
             r == reg[t]
  <2>8. /\ Doing(place, o, r, disk', v) /\ place # "idle" /\ ~ saving(place, o)
        /\ ~ saving(pc[t], o) /\ pc[t] # "idle" /\ table' = table
        /\ pc' = [pc EXCEPT ![t] = place] /\ reg' = [reg EXCEPT ![t] = r] /\ op' = op
    BY <1>0, <1>1, <2>6, <2>7
  <2>9. (damage' = {} => damage = {}) /\ pc[t] # "place"
    BY <1>0
  <2> HIDE DEF c, place, r
  <2> QED
    BY <1>1, <1>2, <2>2, <2>5, <2>8, <2>9, DiskStep
<1> QED
  BY <1>3

LEMMA ClearTailTree == ASSUME TreeInv, TypeInv', NEW t \in Threads, ClearTail(t) PROVE TreeInv'
<1>1. damage' = damage /\ op' = op
  BY DEF ClearTail, goto
<1>2. Exclusive'
  BY <1>1, ExclusiveKept DEF TreeInv
<1> QED
  BY <1>1, <1>2, ClearTailView DEF TreeInv, calm

LEMMA SaveTree == ASSUME TreeInv, TypeInv', NEW t \in Threads, Save(t) PROVE TreeInv'
<1> DEFINE o == op[t]
           removing == o.kind \in {"unlink", "rmdir"}
           place == IF removing THEN "place" ELSE "idle"
           r == IF removing THEN reg[t] ELSE NoReg
<1>0. /\ pc[t] = "save" /\ UNCHANGED <<table, disk, damage>>
      /\ pc' = [pc EXCEPT ![t] = place]
      /\ op' = IF place = "idle" THEN [op EXCEPT ![t] = None] ELSE op
      /\ reg' = IF removing THEN reg ELSE [reg EXCEPT ![t] = NoReg]
  BY DEF Save, at, goto
<1>1. TypeInv /\ reg = [u \in Threads |-> reg[u]]
  BY StateFacts DEF TreeInv
<1>2. reg' = [reg EXCEPT ![t] = r]
  BY <1>0, <1>1
<1>3. ASSUME NEW v, isViewed(v)
      PROVE  IF place = "idle" THEN ~ busy(pc[t], op[t]) ELSE Doing(place, op[t], r, disk, v)
  <2>1. Doing("save", o, reg[t], disk, v)
    BY <1>0, <1>1, <1>3, ViewFacts
  <2>2. CASE removing
    <3>1. Removing("save", o, reg[t], v)
      BY <2>1, <2>2 DEF Doing
    <3>2. Removing("place", o, reg[t], v)
      BY <3>1 DEF Removing
    <3>3. Doing("place", o, reg[t], disk, v)
      BY <2>2, <3>2 DEF Doing
    <3> QED
      BY <2>2, <3>3
  <2>3. CASE ~ removing
    BY <1>0, <2>3 DEF busy
  <2> QED
    BY <2>2, <2>3
<1>4. ~ saving(place, op[t]) /\ damage \subseteq damage'
  BY <1>0 DEF saving
<1> HIDE DEF place, r
<1> QED
  BY <1>0, <1>2, <1>3, <1>4, LocalStep

\* What is written when the copy of the cluster is still what is there.
LEMMA WritesOf ==
    ASSUME TypeInv, NEW i \in Images, disk[i.cluster] = i.seen,
           disk' = [disk EXCEPT ![i.cluster] = changed(i)]
    PROVE  /\ writes(disk, disk', i.cluster, i.slot, i.put)
           /\ \A x : x # i.cluster => disk'[x] = disk[x]
           /\ i.slot = 0 => disk' = disk
<1>1. disk \in Disks /\ i.cluster \in Clusters \cup {0} /\ i.seen \in Contents
      /\ i.slot \in 0 .. SlotCount
  BY StateFacts, ImageParts, LinkFacts
<1>2. disk' [i.cluster] = changed(i) /\ \A x : x # i.cluster => disk'[x] = disk[x]
  BY <1>1 DEF Disks
<1>3. \A j \in 1 .. SlotCount : changed(i)[j] = IF j = i.slot THEN i.put ELSE disk[i.cluster][j]
  BY DEF changed
<1>4. ASSUME i.slot = 0 PROVE disk' = disk
  <2>1. changed(i) = i.seen
    <3>1. \A j \in 1 .. SlotCount : j # 0
      BY SlotFacts
    <3>2. i.seen = [j \in 1 .. SlotCount |-> i.seen[j]]
      BY <1>1 DEF Contents
    <3>3. changed(i) = [j \in 1 .. SlotCount |-> i.seen[j]]
      BY <1>4, <3>1 DEF changed
    <3> QED
      BY <3>2, <3>3
  <2> QED
    BY <1>1, <2>1 DEF Disks
<1>5. writes(disk, disk', i.cluster, i.slot, i.put)
  BY <1>2, <1>3 DEF writes
<1> QED
  BY <1>2, <1>4, <1>5

replaces(content, content2, v, p, q, put, w) ==
    /\ p \in v.files /\ q \in Paths /\ q # <<>> /\ parent(q) = parent(p)
    /\ q = p \/ absent(v, q)
    /\ put.kind = "file" /\ put.name = lastOf(q) /\ owns(put, v.chain[p])
    /\ writes(content, content2, v.spot[p][1], v.spot[p][2], put)
    /\ w.dirs = v.dirs /\ w.files = (v.files \ {p}) \cup {q} /\ w.doomed = v.doomed
    /\ w.held = v.held \ {p} /\ w.carried = v.carried
    /\ \A x \in Paths : w.spot[x] = IF x = q THEN <<v.spot[p][1], v.spot[p][2]>> ELSE v.spot[x]
    /\ \A x \in Paths : w.chain[x] = IF x = q THEN v.chain[p] ELSE IF x = p THEN <<>>
                                     ELSE v.chain[x]

\* The entry of a file is replaced in its slot, by one of the same path or of
\* another one in the same directory.
LEMMA Replace ==
    ASSUME NEW tab, Proper(tab), NEW content \in Disks, NEW content2, NEW v, ChainsOf(tab, v), NodesOf(v),
           EntriesOf(content, v), NoOthers(content, v),
           NEW p, NEW q, NEW put, NEW w, replaces(content, content2, v, p, q, put, w)
    PROVE  /\ ChainsOf(tab, w) /\ (Covers(tab, v) => Covers(tab, w))
           /\ NodesOf(w) /\ EntriesOf(content2, w) /\ NoOthers(content2, w)
<1> DEFINE c == v.spot[p][1]
           i == v.spot[p][2]
           content1 == [x \in Clusters \cup {0} |->
                          [j \in 1 .. SlotCount |->
                             IF x = c /\ j = i THEN Deleted ELSE content[x][j]]]
           G == [x \in Paths |-> IF x = p THEN <<>> ELSE v.chain[x]]
<1>0. replaces(content, content2, v, p, q, put, w)
  OBVIOUS
<1> USE <1>0 DEF replaces
<1>1. /\ p \in Paths /\ p # <<>> /\ p \in nodes(v) /\ p \notin v.dirs /\ p \notin v.doomed
      /\ p \notin v.carried
  BY DEF NodesOf, nodes
<1>2. /\ parent(p) \in v.dirs /\ parent(p) \in Paths /\ onChain(c, v.chain[parent(p)])
      /\ i \in 1 .. SlotCount /\ i \in interpret(content[c]) /\ c \in Clusters
  <2>1. /\ parent(p) \in v.dirs /\ parent(p) \in Paths /\ onChain(c, v.chain[parent(p)])
        /\ i \in 1 .. SlotCount /\ i \in interpret(content[c])
    BY <1>1, SpotOfNode
  <2> QED
    BY <2>1, OwnedIsUsed
<1>3. q # p => q \notin nodes(v) /\ q \notin v.carried /\ v.chain[q] = <<>>
  BY DEF absent, NodesOf
<1> HIDE DEF G
<1>4. PICK u : /\ u.dirs = v.dirs /\ u.files = v.files \ {p} /\ u.doomed = v.doomed
               /\ u.held = v.held \ {p} /\ u.carried = v.carried /\ u.spot = v.spot /\ u.chain = G
  <2> WITNESS viewOf(v.dirs, v.files \ {p}, v.doomed, v.held \ {p}, v.carried, v.spot, G)
  <2> QED
    BY DEF viewOf
<1>5. \A x \in Paths : u.chain[x] = IF x = p THEN <<>> ELSE v.chain[x]
  BY <1>4 DEF G
<1>6. writes(content, content1, c, i, Deleted)
  <2> HIDE DEF c, i
  <2> QED
    BY DEF writes
<1>7. writes(content1, content2, c, i, put)
  <2>1. writes(content, content2, c, i, put)
    OBVIOUS
  <2> HIDE DEF c, i, content1
  <2> QED
    BY <1>6, <2>1 DEF writes
<1>8. EntriesOf(content1, u) /\ NoOthers(content1, u)
  <2>1. p \in v.files \cup v.doomed
    OBVIOUS
  <2>2. u.doomed = v.doomed \ {p}
    BY <1>1, <1>4
  <2>3. \A x \in Paths : x # p => u.chain[x] = v.chain[x]
    BY <1>5
  <2>4. \A x \in nodes(v) : x # p => u.spot[x] = v.spot[x]
    BY <1>4
  <2>5. writes(content, content1, v.spot[p][1], v.spot[p][2], Deleted)
    BY <1>6
  <2> HIDE DEF content1
  <2>6. vacates(content, content1, v, p, u)
    BY <1>4, <2>1, <2>2, <2>3, <2>4, <2>5 DEF vacates
  <2> QED
    BY <2>6, Vacate
<1>9. ChainsOf(tab, u)
  BY <1>5, DropChains
<1>10. nodes(u) = nodes(v) \ {p}
  BY <1>1, <1>4 DEF nodes
<1>11. NodesOf(u)
  <2>1. \A x \in Paths : absent(u, x) => u.chain[x] = <<>>
    BY <1>4, <1>5, <1>10 DEF absent, NodesOf
  <2>2. <<>> # p /\ <<>> \in Paths
    BY <1>1 DEF Paths
  <2> QED
    BY <1>4, <1>5, <1>10, <2>1, <2>2 DEF NodesOf
<1>12. EntriesOf(content2, w) /\ NoOthers(content2, w)
  <2>1. q \notin nodes(u) /\ parent(q) \in u.dirs
    BY <1>2, <1>3, <1>4, <1>10
  <2>2. u.chain[parent(q)] = v.chain[parent(p)]
    BY <1>1, <1>2, <1>5
  <2>3. /\ content1[c][i].kind \notin {"file", "dir"}
        /\ \A j \in 1 .. i - 1 : content1[c][j].kind # "end"
    <3>1. Deleted.kind = "deleted"
      BY DEF Deleted, slot
    <3>2. \A j \in 1 .. i - 1 : content[c][j].kind # "end" /\ j \in 1 .. SlotCount /\ j # i
      <4>1. SlotCount \in Nat /\ \A j \in 1 .. i - 1 : j \in 1 .. i /\ j \in 1 .. SlotCount /\ j # i
        BY <1>2, SlotFacts
      <4> HIDE DEF c, i
      <4> QED
        BY <1>2, <4>1 DEF interpret
    <3> HIDE DEF c, i, content1
    <3> QED
      BY <1>2, <1>6, <3>1, <3>2 DEF writes
  <2>4. w.spot[q] = <<c, i>> /\ \A x \in nodes(u) : w.spot[x] = u.spot[x]
    <3>1. \A x \in nodes(u) : x \in Paths /\ x # q
      BY <1>11, <2>1 DEF NodesOf
    <3> QED
      BY <1>4, <3>1
  <2>5. \A x \in Paths : x # q => w.chain[x] = u.chain[x]
    BY <1>5
  <2>6. w.chain[q] = v.chain[p]
    OBVIOUS
  <2>7. w.files = u.files \cup {q} /\ w.dirs = u.dirs /\ w.doomed = u.doomed /\ w.held = u.held
    BY <1>4
  <2>8. onChain(c, u.chain[parent(q)])
    BY <1>2, <2>2
  <2> HIDE DEF c, i, content1
  <2>9. fills(content1, content2, u, q, c, i, put, w)
    BY <1>2, <1>7, <2>1, <2>3, <2>4, <2>5, <2>6, <2>7, <2>8 DEF fills
  <2> QED
    BY <1>8, <1>9, <1>11, <2>9, Fill
<1>13. NodesOf(w)
  <2>1. nodes(w) = nodes(u) \cup {q}
    BY <1>4 DEF nodes
  <2>2. \A x \in Paths : absent(w, x) => w.chain[x] = <<>>
    <3>1. \A x \in Paths : absent(w, x) => x # q /\ (x = p \/ absent(v, x))
      BY <1>4, <1>10, <2>1 DEF absent
    <3> QED
      BY <3>1 DEF NodesOf
  <2>3. q \notin v.dirs /\ q \notin v.doomed /\ q \notin v.carried
    BY <1>1, <1>3 DEF nodes
  <2>4. <<>> \in Paths /\ w.chain[<<>>] = v.chain[<<>>]
    <3>1. <<>> \in Paths /\ <<>> # q /\ <<>> # p
      BY <1>1 DEF Paths
    <3> QED
      BY <3>1
  <2>5. parent(q) \in w.dirs
    BY <1>2
  <2>6. w.held \subseteq w.files
    BY DEF NodesOf
  <2> QED
    BY <1>4, <1>11, <2>1, <2>2, <2>3, <2>4, <2>5, <2>6 DEF NodesOf
<1>14. ChainsOf(tab, w) /\ (Covers(tab, v) => Covers(tab, w))
  <2>1. CASE q = p
    <3>1. \A x \in Paths : w.chain[x] = v.chain[x]
      BY <2>1
    <3> QED
      BY <3>1 DEF ChainsOf, Covers
  <2>2. CASE q # p
    BY <1>1, <1>3, <2>2, MoveChain
  <2> QED
    BY <2>1, <2>2
<1> QED
  BY <1>12, <1>13, <1>14

-----------------------------------------------------------------------------
(* Entries go into directories and out of them.                             *)

LEMMA FillNodes ==
    ASSUME NEW content, NEW content2, NEW v, NodesOf(v),
           NEW p, NEW c, NEW i, NEW put, NEW w, fills(content, content2, v, p, c, i, put, w),
           w.carried = v.carried \ {p}
    PROVE  NodesOf(w) /\ nodes(w) = nodes(v) \cup {p}
<1>0. fills(content, content2, v, p, c, i, put, w)
  OBVIOUS
<1>1. /\ p \in Paths /\ p # <<>> /\ p \notin nodes(v) /\ parent(p) \in v.dirs
      /\ w.doomed = v.doomed /\ w.held = v.held
      /\ \A q \in Paths : q # p => w.chain[q] = v.chain[q]
      /\ \/ w.files = v.files \cup {p} /\ w.dirs = v.dirs
         \/ w.dirs = v.dirs \cup {p} /\ w.files = v.files
  BY <1>0 DEF fills
<1>2. nodes(w) = nodes(v) \cup {p} /\ v.dirs \subseteq w.dirs
  BY <1>1 DEF nodes
<1>3. <<>> \in Paths /\ p \notin v.dirs /\ p \notin v.files /\ p \notin v.doomed
  BY <1>1 DEF Paths, nodes
<1>4. \A q \in Paths : absent(w, q) => w.chain[q] = <<>>
  <2>1. \A q \in Paths : absent(w, q) => q # p /\ absent(v, q)
    BY <1>2 DEF absent
  <2> QED
    BY <1>1, <2>1 DEF NodesOf
<1>5. /\ nodes(w) \cup w.carried \subseteq Paths /\ w.carried \cap nodes(w) = {}
      /\ w.held \subseteq w.files
  BY <1>1, <1>2 DEF NodesOf
<1>6. w.dirs \cap w.files = {} /\ w.dirs \cap w.doomed = {} /\ w.files \cap w.doomed = {}
  BY <1>1, <1>3 DEF NodesOf
<1>7. <<>> \in w.dirs /\ w.chain[<<>>] # <<>> /\ w.chain[<<>>][1] = 2
  BY <1>1, <1>2, <1>3 DEF NodesOf
<1>8. \A q \in nodes(w) : q # <<>> => parent(q) \in w.dirs
  BY <1>1, <1>2 DEF NodesOf
<1> QED
  BY <1>2, <1>4, <1>5, <1>6, <1>7, <1>8 DEF NodesOf

LEMMA VacateNodes ==
    ASSUME NEW content, NEW content2, NEW v, NodesOf(v),
           NEW p, NEW w, vacates(content, content2, v, p, w),
           \/ w.carried = v.carried /\ w.chain[p] = <<>>
           \/ w.carried = v.carried \cup {p}
    PROVE  NodesOf(w) /\ nodes(w) = nodes(v) \ {p}
<1>0. vacates(content, content2, v, p, w)
  OBVIOUS
<1>1. /\ p \in v.files \cup v.doomed
      /\ w.dirs = v.dirs /\ w.files = v.files \ {p} /\ w.doomed = v.doomed \ {p}
      /\ w.held = v.held \ {p}
      /\ \A q \in Paths : q # p => w.chain[q] = v.chain[q]
  BY <1>0 DEF vacates
<1>2. p \in Paths /\ p \notin v.dirs /\ p # <<>> /\ p \in nodes(v) /\ <<>> \in Paths
  BY <1>1 DEF NodesOf, nodes
<1>3. nodes(w) = nodes(v) \ {p}
  BY <1>1, <1>2 DEF nodes
<1>4. \A q \in Paths : absent(w, q) => w.chain[q] = <<>>
  <2>1. ASSUME NEW q \in Paths, absent(w, q), q # p PROVE absent(v, q)
    BY <1>3, <2>1 DEF absent
  <2>2. absent(w, p) => w.chain[p] = <<>>
    BY DEF absent
  <2> QED
    BY <1>1, <2>1, <2>2 DEF NodesOf
<1>5. /\ nodes(w) \cup w.carried \subseteq Paths /\ w.carried \cap nodes(w) = {}
      /\ w.held \subseteq w.files
  BY <1>1, <1>2, <1>3 DEF NodesOf
<1>6. w.dirs \cap w.files = {} /\ w.dirs \cap w.doomed = {} /\ w.files \cap w.doomed = {}
  BY <1>1 DEF NodesOf
<1>7. <<>> \in w.dirs /\ w.chain[<<>>] # <<>> /\ w.chain[<<>>][1] = 2
  BY <1>1, <1>2 DEF NodesOf
<1>8. \A q \in nodes(w) : q # <<>> => parent(q) \in w.dirs
  BY <1>1, <1>3 DEF NodesOf
<1> QED
  BY <1>3, <1>4, <1>5, <1>6, <1>7, <1>8 DEF NodesOf

\* A step of t that writes a cluster of a directory leads from a view to another.
LEMMA EntryStep ==
    ASSUME TypeInv, Exclusive, NEW t \in Threads, pc[t] # "idle", ~ saving(pc[t], op[t]),
           NEW place, NEW r, NEW v, isViewed(v), NEW w,
           pc' = [pc EXCEPT ![t] = place], reg' = [reg EXCEPT ![t] = r],
           op' = IF place = "idle" THEN [op EXCEPT ![t] = None] ELSE op,
           table' = table, NEW c, \A x : x # c => disk'[x] = disk[x],
           NEW d \in v.dirs, onChain(c, v.chain[d]),
           \A q \in Paths : q \notin subjects(op[t]) => sameAt(v, w, q),
           \A q \in v.dirs : q \in w.dirs /\ w.chain[q] = v.chain[q],
           \A q : q # op[t].path => /\ q \in w.held => q \in v.held
                                    /\ q \in w.doomed => q \in v.doomed
                                    /\ q \in w.carried => q \in v.carried,
           ChainsOf(table, w), damage' = {} => Covers(table, w),
           NodesOf(w), EntriesOf(disk', w), NoOthers(disk', w),
           place = "idle" \/ saving(place, op[t]) =>
               op[t].path \notin w.held \cup w.doomed \cup w.carried,
           place # "idle" => Doing(place, op[t], r, disk', w)
    PROVE  isViewed(w)'
<1>1. /\ ChainsOf(table, v) /\ NodesOf(v)
      /\ \A u \in Threads : Doing(pc[u], op[u], reg[u], disk, v)
  BY ViewFacts
<1>2. \A q \in Paths : grows(v, w, q)
  BY DEF grows
<1>3. ASSUME NEW q \in v.carried, NEW x, onChain(x, v.chain[q]) PROVE disk'[x] = disk[x]
  <2>1. q \in Paths /\ d \in Paths /\ q # d
    BY <1>1, <1>3 DEF NodesOf, nodes
  <2>2. x # c
    BY <1>1, <1>3, <2>1, OneOwner
  <2> QED
    BY <2>2
<1>4. ASSUME NEW u \in Threads, u # t PROVE Doing(pc[u], op[u], reg[u], disk', w)
  BY <1>1, <1>2, <1>3, <1>4, OtherThreads
<1> QED
  BY <1>4, StepViewed

\* The slot written had no entry, or that of a path the operation is about.
LEMMA Follows ==
    ASSUME TypeInv, NEW t \in Threads, NEW v, isViewed(v), NEW w,
           NEW c, NEW m, NEW put, writes(disk, disk', c, m, put),
           \/ disk[c][m].kind \notin {"file", "dir"}
           \/ \E p \in nodes(v) : /\ p \in subjects(op[t]) /\ p # <<>>
                                 /\ v.spot[p][1] = c /\ v.spot[p][2] = m,
           \A q \in Paths : q \notin subjects(op[t]) => sameAt(v, w, q) /\ w.spot[q] = v.spot[q],
           \A q \in v.dirs : q \in w.dirs /\ w.chain[q] = v.chain[q],
           w.doomed \subseteq v.doomed,
           op[t].kind = "mkdir" /\ pc[t] = "place" =>
               op[t].path \in w.dirs /\ w.chain[op[t].path] = v.chain[op[t].path]
    PROVE  follows(t, v, w)
<1>1. ChainsOf(table, v) /\ NodesOf(v) /\ EntriesOf(disk, v) /\ Proper(table)
  BY ViewFacts
<1>2. ASSUME NEW q \in nodes(v), q \in Paths, q \notin subjects(op[t]), q # <<>>
      PROVE  entryOf(disk', w, q) = entryOf(disk, v, q)
  <2>1. /\ onChain(v.spot[q][1], v.chain[parent(q)]) /\ parent(q) \in Paths
        /\ v.spot[q][2] \in 1 .. SlotCount /\ entryOf(disk, v, q).kind \in {"file", "dir"}
    BY <1>1, <1>2, SpotOfNode
  <2>2. v.spot[q][1] \in Clusters
    BY <1>1, <2>1, OwnedIsUsed
  <2>3. ~ (v.spot[q][1] = c /\ v.spot[q][2] = m)
    <3>1. CASE disk[c][m].kind \notin {"file", "dir"}
      BY <2>1, <3>1 DEF entryOf
    <3>2. ASSUME NEW p \in nodes(v), p \in subjects(op[t]), p # <<>>,
                 v.spot[p][1] = c, v.spot[p][2] = m
          PROVE  ~ (v.spot[q][1] = c /\ v.spot[q][2] = m)
      <4>1. q # p
        BY <1>2, <3>2
      <4> QED
        BY <1>1, <1>2, <3>2, <4>1, OneSpot
    <3> QED
      BY <3>1, <3>2
  <2>4. disk'[v.spot[q][1]][v.spot[q][2]] = disk[v.spot[q][1]][v.spot[q][2]]
    BY <2>1, <2>2, <2>3 DEF writes
  <2>5. w.spot[q] = v.spot[q]
    BY <1>2
  <2> QED
    BY <2>4, <2>5 DEF entryOf
<1> QED
  BY <1>2 DEF follows

\* What Place does while nothing went wrong.
LEMMA PlaceFacts ==
    ASSUME TreeInv, NEW t \in Threads, Place(t), calm'
    PROVE  LET i == reg[t].image
               place == afterPlace(t)
           IN  /\ TypeInv /\ Exclusive /\ Exclusive' /\ pc[t] = "place" /\ table' = table
               /\ pc' = [pc EXCEPT ![t] = place]
               /\ op' = IF place = "idle" THEN [op EXCEPT ![t] = None] ELSE op
               /\ reg' = [reg EXCEPT ![t] = IF place = "idle" THEN NoReg ELSE reg[t]]
               /\ damage' = {} => damage = {}
               /\ writes(disk, disk', i.cluster, i.slot, i.put)
               /\ \A x : x # i.cluster => disk'[x] = disk[x]
               /\ disk[i.cluster] = i.seen
               /\ ~ saving(pc[t], op[t]) /\ pc[t] # "idle"
<1> DEFINE i == reg[t].image
           place == afterPlace(t)
<1>0. /\ pc[t] = "place" /\ UNCHANGED <<phase, table, modified, diskTable>>
      /\ disk' = [disk EXCEPT ![i.cluster] = changed(i)]
      /\ reg' = IF place = "idle" THEN [reg EXCEPT ![t] = NoReg] ELSE reg
      /\ pc' = [pc EXCEPT ![t] = place]
      /\ op' = IF place = "idle" THEN [op EXCEPT ![t] = None] ELSE op
      /\ damage' = damage \cup (IF disk[i.cluster] # i.seen THEN {"stalecopy"} ELSE {})
  BY DEF Place, at, fatVars, goto, because
<1>1. TypeInv /\ i \in Images
  BY StateFacts, RegParts DEF TreeInv
<1> HIDE DEF i
<1>2. disk[i.cluster] = i.seen
  BY <1>0 DEF calm
<1>3. /\ writes(disk, disk', i.cluster, i.slot, i.put)
      /\ \A x : x # i.cluster => disk'[x] = disk[x]
  BY <1>0, <1>1, <1>2, WritesOf
<1> HIDE DEF place
<1>4. reg' = [reg EXCEPT ![t] = IF place = "idle" THEN NoReg ELSE reg[t]]
  BY <1>0, <1>1, StateFacts
<1>5. Exclusive /\ Exclusive'
  BY <1>0, <1>1, ExclusiveKept DEF TreeInv
<1>6. ~ saving(pc[t], op[t]) /\ pc[t] # "idle"
  BY <1>0 DEF saving
<1> QED
  BY <1>0, <1>1, <1>2, <1>3, <1>4, <1>5, <1>6 DEF i, place

\* create and mkdir put the entry into its slot.
LEMMA MakePlaces ==
    ASSUME TreeInv, NEW t \in Threads, Place(t), calm', op[t].kind \in {"create", "mkdir"},
           NEW v, isViewed(v)
    PROVE  \E w : isViewed(w)' /\ (damage' = {} => follows(t, v, w))
<1> DEFINE o == op[t]
           p == o.path
           i == reg[t].image
           c == i.cluster
           m == i.slot
           put == i.put
           place == afterPlace(t)
           r == IF place = "idle" THEN NoReg ELSE reg[t]
           T == [q \in Paths |-> IF q = p THEN <<c, m>> ELSE v.spot[q]]
           isDir == o.kind = "mkdir"
<1>1. /\ TypeInv /\ Exclusive /\ pc[t] = "place" /\ table' = table
      /\ pc' = [pc EXCEPT ![t] = place]
      /\ op' = IF place = "idle" THEN [op EXCEPT ![t] = None] ELSE op
      /\ reg' = [reg EXCEPT ![t] = r]
      /\ damage' = {} => damage = {}
      /\ writes(disk, disk', c, m, put)
      /\ \A x : x # c => disk'[x] = disk[x]
      /\ disk[c] = i.seen /\ ~ saving(pc[t], o) /\ pc[t] # "idle"
  BY PlaceFacts
<1>2. p \in Paths /\ p # <<>> /\ (isDir <=> o.kind # "create") /\ o.kind \in {"create", "mkdir"}
  BY <1>1, OwnPaths
<1>3. place = "save" \/ place = "idle"
  BY DEF afterPlace
<1>4. /\ ChainsOf(table, v) /\ NodesOf(v) /\ EntriesOf(disk, v) /\ NoOthers(disk, v)
      /\ Proper(table) /\ disk \in Disks /\ (damage = {} => Covers(table, v))
      /\ Making("place", o, reg[t], disk, v)
  BY <1>1, ViewFacts DEF Doing
<1>5. /\ parent(p) \in v.dirs
      /\ IF isDir THEN p \in v.carried /\ v.chain[p] = <<reg[t].free>> /\ ~ showsOld(disk[reg[t].free])
         ELSE absent(v, p)
      /\ put = slot(IF isDir THEN "dir" ELSE "file", lastOf(p), IF isDir THEN reg[t].free ELSE 0, 0)
      /\ room(i, v, parent(p))
  BY <1>4 DEF Making
<1>6. /\ put.name = lastOf(p) /\ put.kind = (IF isDir THEN "dir" ELSE "file")
      /\ put.first = (IF isDir THEN reg[t].free ELSE 0) /\ put.size = 0
  BY <1>5 DEF slot
<1>7. p \notin nodes(v) /\ p \notin v.held /\ p \notin v.doomed
  <2>1. p \notin nodes(v)
    BY <1>4, <1>5 DEF NodesOf, absent
  <2> QED
    BY <1>4, <2>1 DEF NodesOf, nodes
<1> HIDE DEF T
<1>8. PICK w : /\ w.dirs = v.dirs \cup (IF isDir THEN {p} ELSE {})
               /\ w.files = v.files \cup (IF isDir THEN {} ELSE {p})
               /\ w.doomed = v.doomed /\ w.held = v.held /\ w.carried = v.carried \ {p}
               /\ w.spot = T /\ w.chain = v.chain
  <2> WITNESS viewOf(v.dirs \cup (IF isDir THEN {p} ELSE {}), v.files \cup (IF isDir THEN {} ELSE {p}),
                     v.doomed, v.held, v.carried \ {p}, T, v.chain)
  <2> QED
    BY DEF viewOf
<1>9. \A q \in Paths : w.spot[q] = IF q = p THEN <<c, m>> ELSE v.spot[q]
  BY <1>8 DEF T
<1>10. c \in Clusters /\ onChain(c, v.chain[parent(p)]) /\ parent(p) \in Paths
  <2>1. onChain(c, v.chain[parent(p)]) /\ parent(p) \in Paths
    BY <1>2, <1>5, SplitPath DEF room
  <2> QED
    BY <1>4, <2>1, OwnedIsUsed
<1>11. \/ /\ put.kind = "file" /\ w.files = v.files \cup {p} /\ w.dirs = v.dirs
          /\ owns(put, w.chain[p])
       \/ /\ put.kind = "dir" /\ w.dirs = v.dirs \cup {p} /\ w.files = v.files
          /\ w.chain[p] # <<>> /\ put.first = w.chain[p][1]
          /\ \A x \in Clusters : onChain(x, w.chain[p]) => x # c /\ ~ showsOld(disk[x])
  <2>1. CASE isDir
    <3>1. \A x : onChain(x, v.chain[p]) => x = reg[t].free
      BY <1>5, <2>1 DEF onChain
    <3>2. onChain(reg[t].free, v.chain[p])
      <4>1. v.chain[p] = <<reg[t].free>>
        BY <1>5, <2>1
      <4>2. Len(v.chain[p]) = 1 /\ v.chain[p][1] = reg[t].free
        BY <4>1
      <4>3. 1 \in 1 .. Len(v.chain[p])
        BY <4>2
      <4> QED
        BY <4>2, <4>3 DEF onChain
    <3>3. reg[t].free # c
      <4>1. parent(p) # p
        BY <1>5, <1>7 DEF nodes
      <4> QED
        BY <1>2, <1>4, <1>10, <3>2, <4>1, OneOwner
    <3> QED
      BY <1>5, <1>6, <1>8, <2>1, <3>1, <3>3
  <2>2. CASE ~ isDir
    <3>1. v.chain[p] = <<>>
      BY <1>2, <1>4, <1>5, <2>2 DEF NodesOf
    <3>2. clustersFor(0) = 0
      <4>1. SlotCount \in Nat \ {0}
        BY SlotFacts
      <4>2. (0 + SlotCount - 1) \div SlotCount = 0
        BY <4>1
      <4> QED
        BY <4>2 DEF clustersFor
    <3>3. owns(put, <<>>)
      BY <1>6, <2>2, <3>2 DEF owns, headOf
    <3> QED
      BY <1>6, <1>8, <2>2, <3>1, <3>3
  <2> QED
    BY <2>1, <2>2
<1>12. fills(disk, disk', v, p, c, m, put, w)
  <2>1. /\ m \in 1 .. SlotCount /\ disk[c][m].kind \notin {"file", "dir"}
        /\ \A j \in 1 .. m - 1 : disk[c][j].kind # "end"
    BY <1>1, <1>5 DEF room
  <2>2. \A q \in nodes(v) : w.spot[q] = v.spot[q]
    BY <1>4, <1>7, <1>9 DEF NodesOf
  <2>3. /\ p \in Paths /\ p # <<>> /\ p \notin nodes(v) /\ parent(p) \in v.dirs
        /\ c \in Clusters /\ onChain(c, v.chain[parent(p)])
    BY <1>2, <1>5, <1>7, <1>10
  <2>4. put.name = lastOf(p) /\ writes(disk, disk', c, m, put)
    BY <1>1, <1>6
  <2>5. /\ w.doomed = v.doomed /\ w.held = v.held /\ w.spot[p] = <<c, m>>
        /\ \A q \in Paths : q # p => w.chain[q] = v.chain[q]
    BY <1>2, <1>8, <1>9
  <2> HIDE DEF c, m, put, p
  <2> QED
    BY <1>11, <2>1, <2>2, <2>3, <2>4, <2>5 DEF fills
<1>13. NodesOf(w) /\ EntriesOf(disk', w) /\ NoOthers(disk', w)
  <2> HIDE DEF c, m, put, p
  <2> QED
    BY <1>4, <1>8, <1>12, FillNodes, Fill
<1>14. ChainsOf(table, w) /\ (damage' = {} => Covers(table, w))
  BY <1>1, <1>4, <1>8 DEF ChainsOf, Covers
<1>15. \A q \in Paths : q # p => sameAt(v, w, q)
  <2> HIDE DEF p
  <2> QED
    BY <1>8, <1>9 DEF sameAt
<1>16. place # "idle" => Doing(place, o, r, disk', w)
  BY <1>2, <1>3 DEF Doing, Making
<1>17. p \notin w.held \cup w.doomed \cup w.carried
  BY <1>7, <1>8
<1>18. subjects(o) = {p}
  BY <1>2 DEF subjects
<1>19. \A q \in v.dirs : q \in w.dirs /\ w.chain[q] = v.chain[q]
  BY <1>8
<1>20. \A q : /\ q \in w.held => q \in v.held
              /\ q \in w.doomed => q \in v.doomed
              /\ q \in w.carried => q \in v.carried
  BY <1>8
<1> DEFINE d == parent(p)
<1>21. d \in v.dirs /\ onChain(c, v.chain[d]) /\ \A q \in Paths : q \notin subjects(op[t]) => sameAt(v, w, q)
  BY <1>5, <1>10, <1>15, <1>18
<1> HIDE DEF c, place, r, d
<1>22. isViewed(w)'
  BY <1>1, <1>13, <1>14, <1>16, <1>17, <1>19, <1>20, <1>21, EntryStep
<1>23. follows(t, v, w)
  <2>1. disk[c][m].kind \notin {"file", "dir"} /\ writes(disk, disk', c, m, put)
    BY <1>1, <1>5 DEF room, c
  <2>2. \A q \in Paths : q \notin subjects(op[t]) => sameAt(v, w, q) /\ w.spot[q] = v.spot[q]
    BY <1>9, <1>18, <1>21
  <2>3. o.kind = "mkdir" => p \in w.dirs /\ w.chain[p] = v.chain[p]
    BY <1>8
  <2> HIDE DEF m, put
  <2> QED
    BY <1>1, <1>8, <1>19, <2>1, <2>2, <2>3, Follows
<1> QED
  BY <1>22, <1>23

\* truncate puts the entry with the new size in the place of the old one.
LEMMA TruncatePlaces ==
    ASSUME TreeInv, NEW t \in Threads, Place(t), calm', op[t].kind = "truncate",
           NEW v, isViewed(v)
    PROVE  \E w : isViewed(w)' /\ (damage' = {} => follows(t, v, w))
<1> DEFINE o == op[t]
           p == o.path
           i == reg[t].image
           c == i.cluster
           put == i.put
           place == afterPlace(t)
           r == IF place = "idle" THEN NoReg ELSE reg[t]
           T == [q \in Paths |-> IF q = p THEN <<v.spot[p][1], v.spot[p][2]>> ELSE v.spot[q]]
<1>1. /\ TypeInv /\ Exclusive /\ pc[t] = "place" /\ table' = table
      /\ pc' = [pc EXCEPT ![t] = place]
      /\ op' = IF place = "idle" THEN [op EXCEPT ![t] = None] ELSE op
      /\ reg' = [reg EXCEPT ![t] = r]
      /\ damage' = {} => damage = {}
      /\ writes(disk, disk', c, i.slot, put)
      /\ \A x : x # c => disk'[x] = disk[x]
      /\ ~ saving(pc[t], o) /\ pc[t] # "idle"
  BY PlaceFacts
<1>2. p \in Paths /\ p # <<>>
  BY <1>1, OwnPaths
<1>3. place = "save"
  BY DEF afterPlace
<1>4. /\ ChainsOf(table, v) /\ NodesOf(v) /\ EntriesOf(disk, v) /\ NoOthers(disk, v)
      /\ Proper(table) /\ disk \in Disks /\ (damage = {} => Covers(table, v))
      /\ Truncating("place", o, reg[t], v)
  BY <1>1, ViewFacts DEF Doing
<1>5. /\ p \in v.files /\ isAt(i, v, p) /\ put.kind = "file" /\ put.name = lastOf(p)
      /\ Len(v.chain[p]) = clustersFor(o.size) /\ put.first = headOf(v.chain[p])
      /\ put.size = o.size
  BY <1>4 DEF Truncating
<1>6. owns(put, v.chain[p])
  BY <1>5 DEF owns
<1>7. p \in nodes(v) /\ p \notin v.dirs
  BY <1>4, <1>5 DEF nodes, NodesOf
<1> HIDE DEF T
<1>8. PICK w : /\ w.dirs = v.dirs /\ w.files = (v.files \ {p}) \cup {p} /\ w.doomed = v.doomed
               /\ w.held = v.held \ {p} /\ w.carried = v.carried
               /\ w.spot = T /\ w.chain = v.chain
  <2> WITNESS viewOf(v.dirs, (v.files \ {p}) \cup {p}, v.doomed, v.held \ {p}, v.carried, T, v.chain)
  <2> QED
    BY DEF viewOf
<1>9. /\ \A q \in Paths : w.spot[q] = IF q = p THEN <<v.spot[p][1], v.spot[p][2]>> ELSE v.spot[q]
      /\ \A q \in Paths : w.chain[q] = IF q = p THEN v.chain[p] ELSE IF q = p THEN <<>> ELSE v.chain[q]
  BY <1>8 DEF T
<1>10. writes(disk, disk', v.spot[p][1], v.spot[p][2], put)
  BY <1>1, <1>5 DEF isAt
<1>11. /\ ChainsOf(table, w) /\ (Covers(table, v) => Covers(table, w))
       /\ NodesOf(w) /\ EntriesOf(disk', w) /\ NoOthers(disk', w)
  <2> HIDE DEF put, p
  <2>1. replaces(disk, disk', v, p, p, put, w)
    BY <1>2, <1>5, <1>6, <1>8, <1>9, <1>10 DEF replaces
  <2> QED
    BY <1>4, <2>1, Replace
<1>12. \A q \in Paths : q # p => sameAt(v, w, q)
  <2> HIDE DEF p
  <2> QED
    BY <1>8, <1>9 DEF sameAt
<1>13. place # "idle" => Doing(place, o, r, disk', w)
  <2>1. p \in w.files /\ p \notin w.held
    BY <1>5, <1>8
  <2>2. Truncating("save", o, r, w)
    BY <2>1 DEF Truncating
  <2> QED
    BY <1>3, <2>2 DEF Doing
<1>14. subjects(o) = {p}
  BY DEF subjects
<1>15. \A q \in v.dirs : q \in w.dirs /\ w.chain[q] = v.chain[q]
  BY <1>8
<1>16. \A q : /\ q \in w.held => q \in v.held
              /\ q \in w.doomed => q \in v.doomed
              /\ q \in w.carried => q \in v.carried
  BY <1>8
<1> DEFINE d == parent(p)
<1>17. d \in v.dirs /\ onChain(c, v.chain[d]) /\ \A q \in Paths : q \notin subjects(op[t]) => sameAt(v, w, q)
  BY <1>2, <1>4, <1>5, <1>7, <1>12, <1>14, SpotOfNode DEF isAt
<1>18. ~ (place = "idle" \/ saving(place, op[t]))
  BY <1>3 DEF saving
<1> HIDE DEF c, place, r, d
<1>19. isViewed(w)'
  BY <1>1, <1>4, <1>11, <1>13, <1>15, <1>16, <1>17, <1>18, EntryStep
<1>20. follows(t, v, w)
  <2>1. p \in subjects(op[t]) /\ v.spot[p][1] = c /\ v.spot[p][2] = i.slot
    BY <1>5, <1>14 DEF isAt, c
  <2>2. \A q \in Paths : q \notin subjects(op[t]) => sameAt(v, w, q) /\ w.spot[q] = v.spot[q]
    BY <1>9, <1>14, <1>17
  <2> DEFINE m == i.slot
  <2>3. writes(disk, disk', c, m, put) /\ v.spot[p][2] = m
    BY <1>1, <2>1
  <2> HIDE DEF m, put
  <2> QED
    BY <1>1, <1>2, <1>7, <1>8, <1>15, <2>1, <2>2, <2>3, Follows
<1> QED
  BY <1>19, <1>20

\* unlink and rmdir delete the entry.
LEMMA RemovePlaces ==
    ASSUME TreeInv, NEW t \in Threads, Place(t), calm', op[t].kind \in {"unlink", "rmdir"},
           NEW v, isViewed(v)
    PROVE  \E w : isViewed(w)' /\ (damage' = {} => follows(t, v, w))
<1> DEFINE o == op[t]
           p == o.path
           i == reg[t].image
           c == i.cluster
           put == i.put
           place == afterPlace(t)
           r == IF place = "idle" THEN NoReg ELSE reg[t]
<1>1. /\ TypeInv /\ Exclusive /\ pc[t] = "place" /\ table' = table
      /\ pc' = [pc EXCEPT ![t] = place]
      /\ op' = IF place = "idle" THEN [op EXCEPT ![t] = None] ELSE op
      /\ reg' = [reg EXCEPT ![t] = r]
      /\ damage' = {} => damage = {}
      /\ writes(disk, disk', c, i.slot, put)
      /\ \A x : x # c => disk'[x] = disk[x]
      /\ ~ saving(pc[t], o) /\ pc[t] # "idle"
  BY PlaceFacts
<1>2. p \in Paths /\ p # <<>>
  BY <1>1, OwnPaths
<1>3. place = "idle"
  BY DEF afterPlace
<1>4. /\ ChainsOf(table, v) /\ NodesOf(v) /\ EntriesOf(disk, v) /\ NoOthers(disk, v)
      /\ Proper(table) /\ disk \in Disks /\ (damage = {} => Covers(table, v))
      /\ Removing("place", o, reg[t], v)
  BY <1>1, ViewFacts DEF Doing
<1>5. p \in v.doomed /\ isAt(i, v, p) /\ put = Deleted /\ v.chain[p] = <<>>
  BY <1>4 DEF Removing
<1>6. p \in nodes(v) /\ p \notin v.dirs /\ p \notin v.files /\ p \notin v.carried
  BY <1>4, <1>5 DEF nodes, NodesOf
<1>7. PICK w : /\ w.dirs = v.dirs /\ w.files = v.files \ {p} /\ w.doomed = v.doomed \ {p}
               /\ w.held = v.held \ {p} /\ w.carried = v.carried
               /\ w.spot = v.spot /\ w.chain = v.chain
  <2> WITNESS viewOf(v.dirs, v.files \ {p}, v.doomed \ {p}, v.held \ {p}, v.carried, v.spot, v.chain)
  <2> QED
    BY DEF viewOf
<1>8. vacates(disk, disk', v, p, w)
  <2>1. writes(disk, disk', v.spot[p][1], v.spot[p][2], Deleted)
    BY <1>1, <1>5 DEF isAt
  <2> QED
    BY <1>5, <1>7, <2>1 DEF vacates
<1>9. NodesOf(w) /\ EntriesOf(disk', w) /\ NoOthers(disk', w)
  <2>1. w.carried = v.carried /\ w.chain[p] = <<>>
    BY <1>5, <1>7
  <2> HIDE DEF p
  <2> QED
    BY <1>4, <1>8, <2>1, VacateNodes, Vacate
<1>10. ChainsOf(table, w) /\ (damage' = {} => Covers(table, w))
  BY <1>1, <1>4, <1>7 DEF ChainsOf, Covers
<1>11. \A q \in Paths : q # p => sameAt(v, w, q)
  <2> HIDE DEF p
  <2> QED
    BY <1>7 DEF sameAt
<1>12. subjects(o) = {p}
  BY DEF subjects
<1>13. \A q \in v.dirs : q \in w.dirs /\ w.chain[q] = v.chain[q]
  BY <1>7
<1>14. \A q : /\ q \in w.held => q \in v.held
              /\ q \in w.doomed => q \in v.doomed
              /\ q \in w.carried => q \in v.carried
  BY <1>7
<1>15. p \notin w.held \cup w.doomed \cup w.carried
  BY <1>6, <1>7
<1> DEFINE d == parent(p)
<1>16. d \in v.dirs /\ onChain(c, v.chain[d]) /\ \A q \in Paths : q \notin subjects(op[t]) => sameAt(v, w, q)
  BY <1>2, <1>4, <1>5, <1>6, <1>11, <1>12, SpotOfNode DEF isAt
<1> HIDE DEF c, place, r, d
<1>17. isViewed(w)'
  BY <1>1, <1>3, <1>9, <1>10, <1>13, <1>14, <1>15, <1>16, EntryStep
<1>18. follows(t, v, w)
  <2>1. p \in subjects(op[t]) /\ v.spot[p][1] = c /\ v.spot[p][2] = i.slot
    BY <1>5, <1>12 DEF isAt, c
  <2>2. \A q \in Paths : q \notin subjects(op[t]) => sameAt(v, w, q) /\ w.spot[q] = v.spot[q]
    BY <1>7, <1>16
  <2> DEFINE m == i.slot
  <2>3. writes(disk, disk', c, m, put) /\ v.spot[p][2] = m
    BY <1>1, <2>1
  <2> HIDE DEF m, put
  <2>4. o.kind # "mkdir"
    OBVIOUS
  <2> QED
    BY <1>1, <1>2, <1>6, <1>7, <1>13, <2>1, <2>2, <2>3, <2>4, Follows
<1> QED
  BY <1>17, <1>18

\* rename within a directory gives the entry another name.
LEMMA RenamePlaces ==
    ASSUME TreeInv, NEW t \in Threads, Place(t), calm', op[t].kind = "rename", sameFolder(op[t]),
           NEW v, isViewed(v)
    PROVE  \E w : isViewed(w)' /\ (damage' = {} => follows(t, v, w))
<1> DEFINE o == op[t]
           p == o.path
           i == reg[t].image
           c == i.cluster
           put == i.put
           place == afterPlace(t)
           r == IF place = "idle" THEN NoReg ELSE reg[t]
           T == [q \in Paths |-> IF q = o.to THEN <<v.spot[p][1], v.spot[p][2]>> ELSE v.spot[q]]
           G == [q \in Paths |-> IF q = o.to THEN v.chain[p] ELSE IF q = p THEN <<>> ELSE v.chain[q]]
<1>1. /\ TypeInv /\ Exclusive /\ pc[t] = "place" /\ table' = table
      /\ pc' = [pc EXCEPT ![t] = place]
      /\ op' = IF place = "idle" THEN [op EXCEPT ![t] = None] ELSE op
      /\ reg' = [reg EXCEPT ![t] = r]
      /\ damage' = {} => damage = {}
      /\ writes(disk, disk', c, i.slot, put)
      /\ \A x : x # c => disk'[x] = disk[x]
      /\ ~ saving(pc[t], o) /\ pc[t] # "idle"
  BY PlaceFacts
<1>2. p \in Paths /\ p # <<>> /\ o.to \in Paths /\ o.to # <<>>
  BY <1>1, OwnPaths
<1>3. place = "idle"
  BY DEF afterPlace
<1>4. /\ ChainsOf(table, v) /\ NodesOf(v) /\ EntriesOf(disk, v) /\ NoOthers(disk, v)
      /\ Proper(table) /\ disk \in Disks /\ (damage = {} => Covers(table, v))
      /\ Renaming("place", o, reg[t], v)
  BY <1>1, ViewFacts DEF Doing
<1>5. /\ p \in v.files /\ p \notin v.held /\ isAt(i, v, p) /\ absent(v, o.to)
      /\ put.kind = "file" /\ put.name = lastOf(o.to) /\ owns(put, v.chain[p])
      /\ parent(o.to) = parent(p)
  BY <1>4 DEF Renaming, renames, sameFolder
<1>6. p \in nodes(v) /\ p \notin v.dirs /\ p \notin v.doomed /\ p \notin v.carried /\ o.to # p
      /\ o.to \notin nodes(v) /\ o.to \notin v.held
  <2>1. p \in nodes(v) /\ o.to \notin nodes(v)
    BY <1>5 DEF nodes, absent
  <2> QED
    BY <1>4, <1>5, <2>1 DEF nodes, NodesOf
<1> HIDE DEF T, G
<1>8. PICK w : /\ w.dirs = v.dirs /\ w.files = (v.files \ {p}) \cup {o.to} /\ w.doomed = v.doomed
               /\ w.held = v.held \ {p} /\ w.carried = v.carried
               /\ w.spot = T /\ w.chain = G
  <2> WITNESS viewOf(v.dirs, (v.files \ {p}) \cup {o.to}, v.doomed, v.held \ {p}, v.carried, T, G)
  <2> QED
    BY DEF viewOf
<1>9. /\ \A q \in Paths : w.spot[q] = IF q = o.to THEN <<v.spot[p][1], v.spot[p][2]>> ELSE v.spot[q]
      /\ \A q \in Paths : w.chain[q] = IF q = o.to THEN v.chain[p] ELSE IF q = p THEN <<>> ELSE v.chain[q]
  BY <1>8 DEF T, G
<1>10. writes(disk, disk', v.spot[p][1], v.spot[p][2], put)
  BY <1>1, <1>5 DEF isAt
<1>11. /\ ChainsOf(table, w) /\ (Covers(table, v) => Covers(table, w))
       /\ NodesOf(w) /\ EntriesOf(disk', w) /\ NoOthers(disk', w)
  <2> DEFINE z == o.to
  <2>1. o.to = z
    OBVIOUS
  <2> HIDE DEF put, p, z
  <2>2. replaces(disk, disk', v, p, z, put, w)
    BY <1>2, <1>5, <1>8, <1>9, <1>10, <2>1 DEF replaces
  <2> QED
    BY <1>4, <2>2, Replace
<1>12. \A q \in Paths : q # p /\ q # o.to => sameAt(v, w, q)
  <2> HIDE DEF p
  <2> QED
    BY <1>8, <1>9 DEF sameAt
<1>14. subjects(o) = {p, o.to}
  BY DEF subjects
<1>15. \A q \in v.dirs : q \in w.dirs /\ w.chain[q] = v.chain[q]
  BY <1>4, <1>6, <1>8, <1>9 DEF NodesOf, nodes
<1>16. \A q : /\ q \in w.held => q \in v.held
              /\ q \in w.doomed => q \in v.doomed
              /\ q \in w.carried => q \in v.carried
  BY <1>8
<1>17. p \notin w.held \cup w.doomed \cup w.carried
  BY <1>6, <1>8
<1> DEFINE d == parent(p)
<1>18. d \in v.dirs /\ onChain(c, v.chain[d]) /\ \A q \in Paths : q \notin subjects(op[t]) => sameAt(v, w, q)
  BY <1>2, <1>4, <1>5, <1>6, <1>12, <1>14, SpotOfNode DEF isAt
<1> HIDE DEF c, place, r, d
<1>19. isViewed(w)'
  BY <1>1, <1>3, <1>4, <1>11, <1>15, <1>16, <1>17, <1>18, EntryStep
<1>20. follows(t, v, w)
  <2>1. p \in subjects(op[t]) /\ v.spot[p][1] = c /\ v.spot[p][2] = i.slot
    BY <1>5, <1>14 DEF isAt, c
  <2>2. \A q \in Paths : q \notin subjects(op[t]) => sameAt(v, w, q) /\ w.spot[q] = v.spot[q]
    BY <1>9, <1>14, <1>18
  <2> DEFINE m == i.slot
  <2>3. writes(disk, disk', c, m, put) /\ v.spot[p][2] = m
    BY <1>1, <2>1
  <2> HIDE DEF m, put
  <2>4. o.kind # "mkdir"
    OBVIOUS
  <2> QED
    BY <1>1, <1>2, <1>6, <1>8, <1>15, <2>1, <2>2, <2>3, <2>4, Follows
<1> QED
  BY <1>19, <1>20

\* rename to another directory: the file is without an entry for a while.
LEMMA CarryPlaces ==
    ASSUME TreeInv, NEW t \in Threads, Place(t), calm', op[t].kind = "rename", ~ sameFolder(op[t]),
           NEW v, isViewed(v)
    PROVE  \E w : isViewed(w)' /\ (damage' = {} => follows(t, v, w))
<1> DEFINE o == op[t]
           p == o.path
           i == reg[t].image
           c == i.cluster
           put == i.put
           place == afterPlace(t)
           r == IF place = "idle" THEN NoReg ELSE reg[t]
<1>1. /\ TypeInv /\ Exclusive /\ pc[t] = "place" /\ table' = table
      /\ pc' = [pc EXCEPT ![t] = place]
      /\ op' = IF place = "idle" THEN [op EXCEPT ![t] = None] ELSE op
      /\ reg' = [reg EXCEPT ![t] = r]
      /\ damage' = {} => damage = {}
      /\ writes(disk, disk', c, i.slot, put)
      /\ \A x : x # c => disk'[x] = disk[x]
      /\ ~ saving(pc[t], o) /\ pc[t] # "idle"
  BY PlaceFacts
<1>2. p \in Paths /\ p # <<>> /\ o.to \in Paths /\ o.to # <<>>
  BY <1>1, OwnPaths
<1>3. place = "target" /\ r = reg[t]
  BY DEF afterPlace
<1>4. /\ ChainsOf(table, v) /\ NodesOf(v) /\ EntriesOf(disk, v) /\ NoOthers(disk, v)
      /\ Proper(table) /\ disk \in Disks /\ (damage = {} => Covers(table, v))
      /\ Renaming("place", o, reg[t], v)
  BY <1>1, ViewFacts DEF Doing
<1>5. /\ p \in v.files /\ p \notin v.held /\ isAt(i, v, p) /\ absent(v, o.to) /\ put = Deleted
      /\ renames(reg[t].target.put, o, v) /\ parent(o.to) \in v.dirs
      /\ reg[t].target.slot = 0 \/ room(reg[t].target, v, parent(o.to))
  BY <1>4 DEF Renaming
<1>6. p \in nodes(v) /\ p \notin v.dirs /\ p \notin v.doomed /\ o.to # p
  <2>1. p \in nodes(v) /\ o.to \notin nodes(v)
    BY <1>5 DEF nodes, absent
  <2> QED
    BY <1>4, <1>5, <2>1 DEF nodes, NodesOf
<1>7. PICK w : /\ w.dirs = v.dirs /\ w.files = v.files \ {p} /\ w.doomed = v.doomed \ {p}
               /\ w.held = v.held \ {p} /\ w.carried = v.carried \cup {p}
               /\ w.spot = v.spot /\ w.chain = v.chain
  <2> WITNESS viewOf(v.dirs, v.files \ {p}, v.doomed \ {p}, v.held \ {p}, v.carried \cup {p},
                     v.spot, v.chain)
  <2> QED
    BY DEF viewOf
<1>8. vacates(disk, disk', v, p, w)
  <2>1. writes(disk, disk', v.spot[p][1], v.spot[p][2], Deleted)
    BY <1>1, <1>5 DEF isAt
  <2> QED
    BY <1>5, <1>7, <2>1 DEF vacates
<1>9. NodesOf(w) /\ nodes(w) = nodes(v) \ {p} /\ EntriesOf(disk', w) /\ NoOthers(disk', w)
  <2> HIDE DEF p
  <2> QED
    BY <1>4, <1>7, <1>8, VacateNodes, Vacate
<1>10. ChainsOf(table, w) /\ (damage' = {} => Covers(table, w))
  BY <1>1, <1>4, <1>7 DEF ChainsOf, Covers
<1>11. \A q \in Paths : q # p => sameAt(v, w, q)
  <2> HIDE DEF p
  <2> QED
    BY <1>7 DEF sameAt
<1>12. p \in subjects(o)
  BY DEF subjects
<1>13. \A q \in v.dirs : q \in w.dirs /\ w.chain[q] = v.chain[q]
  BY <1>7
<1>14. \A q : q # op[t].path => /\ q \in w.held => q \in v.held
                                /\ q \in w.doomed => q \in v.doomed
                                /\ q \in w.carried => q \in v.carried
  BY <1>7
<1>15. place # "idle" => Doing(place, o, r, disk', w)
  <2>1. parent(o.to) \in w.dirs /\ p \in w.carried
    BY <1>5, <1>7
  <2>2. absent(w, o.to)
    BY <1>5, <1>6, <1>7, <1>9 DEF absent
  <2>3. renames(reg[t].target.put, o, w)
    BY <1>5, <1>7 DEF renames
  <2>4. reg[t].target.slot = 0 \/ room(reg[t].target, w, parent(o.to))
    BY <1>5, <1>7 DEF room
  <2>5. Renaming("target", o, r, w)
    BY <1>3, <2>1, <2>2, <2>3, <2>4 DEF Renaming
  <2> QED
    BY <1>3, <2>5 DEF Doing
<1> DEFINE d == parent(p)
<1>16. d \in v.dirs /\ onChain(c, v.chain[d]) /\ \A q \in Paths : q \notin subjects(op[t]) => sameAt(v, w, q)
  BY <1>2, <1>4, <1>5, <1>6, <1>11, <1>12, SpotOfNode DEF isAt
<1>17. ~ (place = "idle" \/ saving(place, op[t]))
  BY <1>3 DEF saving
<1> HIDE DEF c, place, r, d
<1>18. isViewed(w)'
  BY <1>1, <1>9, <1>10, <1>13, <1>14, <1>15, <1>16, <1>17, EntryStep
<1>19. follows(t, v, w)
  <2>1. p \in subjects(op[t]) /\ v.spot[p][1] = c /\ v.spot[p][2] = i.slot
    BY <1>5, <1>12 DEF isAt, c
  <2>2. \A q \in Paths : q \notin subjects(op[t]) => sameAt(v, w, q) /\ w.spot[q] = v.spot[q]
    BY <1>7, <1>16
  <2> DEFINE m == i.slot
  <2>3. writes(disk, disk', c, m, put) /\ v.spot[p][2] = m
    BY <1>1, <2>1
  <2> HIDE DEF m, put
  <2>4. o.kind # "mkdir"
    OBVIOUS
  <2> QED
    BY <1>1, <1>2, <1>6, <1>7, <1>13, <2>1, <2>2, <2>3, <2>4, Follows
<1> QED
  BY <1>18, <1>19

LEMMA PlaceFollows ==
    ASSUME TreeInv, NEW t \in Threads, Place(t), calm', NEW v, isViewed(v)
    PROVE  \E w : isViewed(w)' /\ (damage' = {} => follows(t, v, w))
<1>1. TypeInv /\ pc[t] # "idle"
  BY PlaceFacts
<1>2. op[t].kind \in {"create", "mkdir", "truncate", "unlink", "rmdir", "rename"}
  BY <1>1, OwnPaths
<1> QED
  BY <1>2, MakePlaces, TruncatePlaces, RemovePlaces, RenamePlaces, CarryPlaces

LEMMA PlaceTree == ASSUME TreeInv, TypeInv', NEW t \in Threads, Place(t) PROVE TreeInv'
<1>1. ASSUME calm' PROVE \E w : isViewed(w)'
  <2>1. damage \subseteq damage'
    BY DEF Place, because
  <2>2. PICK v : isViewed(v)
    BY <1>1, <2>1, CalmBefore DEF TreeInv
  <2> QED
    BY <1>1, <2>2, PlaceFollows
<1>2. Exclusive'
  <2>1. op' = op \/ op' = [op EXCEPT ![t] = None]
    BY DEF Place, goto
  <2> QED
    BY <2>1, ExclusiveKept DEF TreeInv
<1> QED
  BY <1>1, <1>2 DEF TreeInv

\* What is carried is given up.
LEMMA Drop ==
    ASSUME NEW tab, NEW content, NEW v, ChainsOf(tab, v), NodesOf(v), EntriesOf(content, v),
           NoOthers(content, v), NEW p \in v.carried, NEW w,
           w.dirs = v.dirs, w.files = v.files, w.doomed = v.doomed, w.held = v.held,
           w.carried = v.carried \ {p}, w.spot = v.spot,
           \A q \in Paths : w.chain[q] = IF q = p THEN <<>> ELSE v.chain[q]
    PROVE  /\ ChainsOf(tab, w) /\ NodesOf(w) /\ EntriesOf(content, w) /\ NoOthers(content, w)
           /\ nodes(w) = nodes(v)
<1>1. p \in Paths /\ p \notin nodes(v) /\ nodes(w) = nodes(v) /\ nodes(v) \subseteq Paths
  BY DEF NodesOf, nodes
<1>2. \A q \in nodes(v) : w.chain[q] = v.chain[q]
  BY <1>1
<1>3. ChainsOf(tab, w)
  BY DropChains
<1>4. NodesOf(w)
  <2>1. \A q \in Paths : absent(w, q) => w.chain[q] = <<>>
    BY <1>1 DEF absent, NodesOf
  <2>2. <<>> \in nodes(v)
    BY DEF NodesOf, nodes
  <2> QED
    BY <1>1, <1>2, <2>1, <2>2 DEF NodesOf
<1>5. EntriesOf(content, w) /\ NoOthers(content, w)
  <2>1. \A d \in v.dirs : w.chain[d] = v.chain[d]
    BY <1>2 DEF nodes
  <2>2. \A q \in v.files : q \notin w.held => owns(entryOf(content, v, q), w.chain[q])
    BY <1>2 DEF nodes, EntriesOf
  <2> QED
    BY <2>1, <2>2, EntriesKept
<1> QED
  BY <1>1, <1>3, <1>4, <1>5

\* What PlaceTarget does while nothing went wrong.
LEMMA TargetFacts ==
    ASSUME TreeInv, NEW t \in Threads, PlaceTarget(t), calm'
    PROVE  LET i == reg[t].target
           IN  /\ TypeInv /\ Exclusive /\ pc[t] = "target" /\ table' = table
               /\ pc' = [pc EXCEPT ![t] = "idle"] /\ op' = [op EXCEPT ![t] = None]
               /\ reg' = [reg EXCEPT ![t] = NoReg]
               /\ damage' = {} => damage = {}
               /\ writes(disk, disk', i.cluster, i.slot, i.put)
               /\ \A x : x # i.cluster => disk'[x] = disk[x]
               /\ disk[i.cluster] = i.seen
               /\ i.slot = 0 => disk' = disk
               /\ op[t].kind = "rename" /\ ~ sameFolder(op[t])
<1> DEFINE i == reg[t].target
<1>0. /\ pc[t] = "target" /\ UNCHANGED <<phase, table, modified, diskTable>>
      /\ disk' = [disk EXCEPT ![i.cluster] = changed(i)]
      /\ reg' = [reg EXCEPT ![t] = NoReg]
      /\ pc' = [pc EXCEPT ![t] = "idle"] /\ op' = [op EXCEPT ![t] = None]
      /\ damage' = damage \cup (IF disk[i.cluster] # i.seen THEN {"stalecopy"} ELSE {})
  BY DEF PlaceTarget, at, fatVars, goto, because
<1>1. TypeInv /\ Exclusive /\ i \in Images /\ op[t].kind = "rename" /\ ~ sameFolder(op[t])
  BY <1>0, StateFacts, RegParts DEF TreeInv, fits
<1> HIDE DEF i
<1>2. disk[i.cluster] = i.seen
  BY <1>0 DEF calm
<1>3. /\ writes(disk, disk', i.cluster, i.slot, i.put)
      /\ \A x : x # i.cluster => disk'[x] = disk[x]
      /\ i.slot = 0 => disk' = disk
  BY <1>0, <1>1, <1>2, WritesOf
<1> QED
  BY <1>0, <1>1, <1>2, <1>3 DEF i

\* The file gets an entry in the directory it goes to, or none.
LEMMA TargetPlaces ==
    ASSUME TreeInv, Dropping, NEW t \in Threads, PlaceTarget(t), calm', NEW v, isViewed(v)
    PROVE  \E w : isViewed(w)' /\ (damage' = {} => follows(t, v, w))
<1> DEFINE o == op[t]
           p == o.path
           z == o.to
           i == reg[t].target
           c == i.cluster
           m == i.slot
           put == i.put
           G == [q \in Paths |-> IF q = p THEN <<>> ELSE v.chain[q]]
           place == "idle"
           r == NoReg
<1>1. /\ TypeInv /\ Exclusive /\ pc[t] = "target" /\ table' = table
      /\ pc' = [pc EXCEPT ![t] = place]
      /\ op' = IF place = "idle" THEN [op EXCEPT ![t] = None] ELSE op
      /\ reg' = [reg EXCEPT ![t] = r]
      /\ damage' = {} => damage = {}
      /\ writes(disk, disk', c, m, put)
      /\ \A x : x # c => disk'[x] = disk[x]
      /\ disk[c] = i.seen /\ (m = 0 => disk' = disk)
      /\ o.kind = "rename" /\ ~ sameFolder(o) /\ place = "idle"
  BY TargetFacts
<1>2. /\ p \in Paths /\ p # <<>> /\ z \in Paths /\ z # <<>> /\ pc[t] # "idle"
      /\ ~ saving(pc[t], o) /\ subjects(o) = {p, z}
  BY <1>1, OwnPaths DEF saving, subjects
<1>3. /\ ChainsOf(table, v) /\ NodesOf(v) /\ EntriesOf(disk, v) /\ NoOthers(disk, v)
      /\ Proper(table) /\ disk \in Disks /\ (damage = {} => Covers(table, v))
      /\ Renaming("target", o, reg[t], v)
  BY <1>1, ViewFacts DEF Doing
<1>4. /\ p \in v.carried /\ absent(v, z) /\ parent(z) \in v.dirs
      /\ put.kind = "file" /\ put.name = lastOf(z) /\ owns(put, v.chain[p])
      /\ m = 0 \/ room(i, v, parent(z))
  BY <1>1, <1>3 DEF Renaming, renames
<1>5. /\ p \notin nodes(v) /\ p \notin v.dirs /\ p \notin v.files /\ p \notin v.held /\ p \notin v.doomed
      /\ z # p /\ z \notin nodes(v) /\ z \notin v.carried /\ v.chain[z] = <<>>
      /\ z \notin v.held /\ z \notin v.doomed
  <2>1. p \notin nodes(v) /\ z # p /\ z \notin nodes(v) /\ z \notin v.carried /\ v.chain[z] = <<>>
    BY <1>2, <1>3, <1>4 DEF NodesOf, absent
  <2> QED
    BY <1>3, <2>1 DEF nodes, NodesOf
<1> HIDE DEF G
<1>6. PICK u : /\ u.dirs = v.dirs /\ u.files = v.files /\ u.doomed = v.doomed /\ u.held = v.held
               /\ u.carried = v.carried \ {p} /\ u.spot = v.spot /\ u.chain = G
  <2> WITNESS viewOf(v.dirs, v.files, v.doomed, v.held, v.carried \ {p}, v.spot, G)
  <2> QED
    BY DEF viewOf
<1>7. \A q \in Paths : u.chain[q] = IF q = p THEN <<>> ELSE v.chain[q]
  BY <1>6 DEF G
<1>8. /\ ChainsOf(table, u) /\ NodesOf(u) /\ EntriesOf(disk, u) /\ NoOthers(disk, u)
      /\ nodes(u) = nodes(v)
  <2> HIDE DEF p
  <2> QED
    BY <1>3, <1>4, <1>6, <1>7, Drop
<1>9. \A q \in v.dirs : u.chain[q] = v.chain[q] /\ q \in Paths
  BY <1>3, <1>5, <1>7 DEF NodesOf, nodes
<1>10. CASE m = 0
  <2>1. disk' = disk
    BY <1>1, <1>10
  <2>2. "dropped" \in damage /\ "dropped" \in damage'
    <3>1. "dropped" \in damage
      BY <1>1, <1>10 DEF Dropping
    <3> QED
      BY <3>1 DEF PlaceTarget, because
  <2>3. <<>> \in v.dirs /\ onChain(2, v.chain[<<>>])
    <3>1. <<>> \in v.dirs /\ v.chain[<<>>] # <<>> /\ v.chain[<<>>][1] = 2 /\ <<>> \in Paths
      BY <1>3 DEF NodesOf, nodes
    <3>2. 1 \in 1 .. Len(v.chain[<<>>])
      <4>1. Len(v.chain[<<>>]) \in 1 .. Size
        BY <1>3, <3>1, ChainOfPath
      <4> QED
        BY <4>1, LinkFacts
    <3> QED
      BY <3>1, <3>2 DEF onChain
  <2>4. \A q \in Paths : q \notin subjects(op[t]) => sameAt(v, u, q)
    <3> HIDE DEF p
    <3> QED
      BY <1>2, <1>6, <1>7 DEF sameAt
  <2>5. \A q : /\ q \in u.held => q \in v.held
               /\ q \in u.doomed => q \in v.doomed
               /\ q \in u.carried => q \in v.carried
    BY <1>6
  <2>6. p \notin u.held \cup u.doomed \cup u.carried
    BY <1>5, <1>6
  <2>7. \A q \in v.dirs : q \in u.dirs /\ u.chain[q] = v.chain[q]
    BY <1>6, <1>9
  <2>8. \A x : x # 2 => disk'[x] = disk[x]
    BY <2>1
  <2>9. damage' = {} => Covers(table, u)
    BY <2>2
  <2>10. EntriesOf(disk', u) /\ NoOthers(disk', u) /\ ChainsOf(table, u) /\ NodesOf(u)
    BY <1>8, <2>1
  <2> DEFINE d == <<>>
             b == 2
  <2>11. d \in v.dirs /\ onChain(b, v.chain[d]) /\ \A x : x # b => disk'[x] = disk[x]
    BY <2>3, <2>8
  <2> HIDE DEF place, r, d, b
  <2>12. isViewed(u)'
    BY <1>1, <1>2, <2>4, <2>5, <2>6, <2>7, <2>9, <2>10, <2>11, EntryStep
  <2>13. damage' # {}
    BY <2>2
  <2> QED
    BY <2>12, <2>13
<1>11. CASE m # 0
  <2> DEFINE T == [q \in Paths |-> IF q = z THEN <<c, m>> ELSE v.spot[q]]
             H == [q \in Paths |-> IF q = z THEN v.chain[p] ELSE IF q = p THEN <<>> ELSE v.chain[q]]
             d == parent(z)
  <2>1. /\ onChain(c, v.chain[d]) /\ d \in v.dirs /\ m \in 1 .. SlotCount
        /\ disk[c][m].kind \notin {"file", "dir"} /\ \A j \in 1 .. m - 1 : disk[c][j].kind # "end"
    BY <1>1, <1>4, <1>11 DEF room
  <2>2. c \in Clusters
    BY <1>3, <1>9, <2>1, OwnedIsUsed
  <2> HIDE DEF T, H
  <2>3. PICK w : /\ w.dirs = v.dirs /\ w.files = v.files \cup {z} /\ w.doomed = v.doomed
                 /\ w.held = v.held /\ w.carried = u.carried \ {z} /\ w.spot = T /\ w.chain = H
    <3> WITNESS viewOf(v.dirs, v.files \cup {z}, v.doomed, v.held, u.carried \ {z}, T, H)
    <3> QED
      BY DEF viewOf
  <2>4. \A q \in Paths : /\ w.spot[q] = IF q = z THEN <<c, m>> ELSE v.spot[q]
                         /\ w.chain[q] = IF q = z THEN v.chain[p] ELSE IF q = p THEN <<>> ELSE v.chain[q]
    BY <2>3 DEF T, H
  <2>5. fills(disk, disk', u, z, c, m, put, w)
    <3>1. \A q \in nodes(u) : w.spot[q] = u.spot[q]
      BY <1>3, <1>5, <1>6, <1>8, <2>4 DEF NodesOf
    <3>2. \A q \in Paths : q # z => w.chain[q] = u.chain[q]
      BY <1>7, <2>4
    <3>3. /\ z \in Paths /\ z # <<>> /\ z \notin nodes(u) /\ parent(z) \in u.dirs
          /\ onChain(c, u.chain[parent(z)])
      BY <1>2, <1>5, <1>6, <1>8, <1>9, <2>1
    <3>4. /\ w.doomed = u.doomed /\ w.held = u.held /\ w.spot[z] = <<c, m>>
          /\ w.files = u.files \cup {z} /\ w.dirs = u.dirs /\ owns(put, w.chain[z])
      BY <1>2, <1>4, <1>6, <2>3, <2>4
    <3>5. put.kind = "file" /\ put.name = lastOf(z) /\ writes(disk, disk', c, m, put)
      BY <1>1, <1>4
    <3> HIDE DEF c, m, put, z
    <3> QED
      BY <2>1, <2>2, <3>1, <3>2, <3>3, <3>4, <3>5 DEF fills, d
  <2>6. NodesOf(w) /\ EntriesOf(disk', w) /\ NoOthers(disk', w)
    <3> HIDE DEF c, m, put, z
    <3> QED
      BY <1>3, <1>8, <2>3, <2>5, FillNodes, Fill
  <2>7. ChainsOf(table, w) /\ (Covers(table, v) => Covers(table, w))
    <3> HIDE DEF p, z
    <3> QED
      BY <1>2, <1>3, <1>5, <2>4, MoveChain
  <2>8. \A q \in Paths : q \notin subjects(op[t]) => sameAt(v, w, q)
    <3> HIDE DEF p, z
    <3>1. \A q \in Paths : q # p /\ q # z => sameAt(v, w, q)
      BY <1>6, <2>3, <2>4 DEF sameAt
    <3> QED
      BY <1>2, <3>1
  <2>9. \A q : /\ q \in w.held => q \in v.held
               /\ q \in w.doomed => q \in v.doomed
               /\ q \in w.carried => q \in v.carried
    BY <1>6, <2>3
  <2>10. p \notin w.held \cup w.doomed \cup w.carried
    BY <1>5, <1>6, <2>3
  <2>11. \A q \in v.dirs : q \in w.dirs /\ w.chain[q] = v.chain[q]
    BY <1>5, <1>9, <2>3, <2>4 DEF nodes
  <2>12. damage' = {} => Covers(table, w)
    BY <1>1, <1>3, <2>7
  <2> HIDE DEF place, r, d, c
  <2>13. isViewed(w)'
    BY <1>1, <1>2, <2>1, <2>6, <2>7, <2>8, <2>9, <2>10, <2>11, <2>12, EntryStep
  <2>14. follows(t, v, w)
    <3>1. disk[c][m].kind \notin {"file", "dir"} /\ writes(disk, disk', c, m, put)
      BY <1>1, <2>1
    <3>2. \A q \in Paths : q \notin subjects(op[t]) => sameAt(v, w, q) /\ w.spot[q] = v.spot[q]
      BY <1>2, <2>4, <2>8
    <3>3. op[t].kind # "mkdir"
      BY <1>1
    <3> HIDE DEF m, put
    <3> QED
      BY <1>1, <2>3, <2>11, <3>1, <3>2, <3>3, Follows
  <2> QED
    BY <2>13, <2>14
<1> QED
  BY <1>10, <1>11

LEMMA PlaceTargetTree ==
    ASSUME TreeInv, Dropping, TypeInv', NEW t \in Threads, PlaceTarget(t) PROVE TreeInv'
<1>1. ASSUME calm' PROVE \E w : isViewed(w)'
  <2>1. damage \subseteq damage'
    BY DEF PlaceTarget, because
  <2>2. PICK v : isViewed(v)
    BY <1>1, <2>1, CalmBefore DEF TreeInv
  <2> QED
    BY <1>1, <2>2, TargetPlaces
<1>2. Exclusive'
  <2>1. op' = op \/ op' = [op EXCEPT ![t] = None]
    BY DEF PlaceTarget, goto
  <2> QED
    BY <2>1, ExclusiveKept DEF TreeInv
<1> QED
  BY <1>1, <1>2 DEF TreeInv

-----------------------------------------------------------------------------
(* A rename that found no hole counts as dropped.                           *)

LEMMA DropInit == Init => Dropping
  BY DEF Init, Dropping, None

\* A step of t that does not lead to such a place, or leaves the target alone.
LEMMA DropStep ==
    ASSUME TypeInv, Dropping, NEW t \in Threads, damage \subseteq damage', NEW r, NEW o, NEW place,
           op' = [op EXCEPT ![t] = o], pc' = [pc EXCEPT ![t] = place],
           reg' = [reg EXCEPT ![t] = r],
           \/ place \notin {"place", "target"} \/ o.kind # "rename" \/ sameFolder(o)
           \/ r.target.slot # 0 \/ "dropped" \in damage'
           \/ r = reg[t] /\ o = op[t] /\ pc[t] \in {"place", "target"}
    PROVE  Dropping'
<1>1. /\ \A u \in Threads : u # t => pc'[u] = pc[u] /\ op'[u] = op[u] /\ reg'[u] = reg[u]
      /\ pc'[t] = place /\ reg'[t] = r /\ op'[t] = o
  <2>1. pc = [u \in Threads |-> pc[u]] /\ op = [u \in Threads |-> op[u]]
        /\ reg = [u \in Threads |-> reg[u]]
    BY StateFacts
  <2> QED
    BY <2>1
<1>2. ASSUME NEW u \in Threads, op'[u].kind = "rename", ~ sameFolder(op'[u]),
             pc'[u] \in {"place", "target"}, reg'[u].target.slot = 0
      PROVE  "dropped" \in damage'
  <2>1. CASE u # t
    BY <1>1, <1>2, <2>1 DEF Dropping
  <2>2. CASE u = t
    BY <1>1, <1>2, <2>2 DEF Dropping
  <2> QED
    BY <2>1, <2>2
<1> QED
  BY <1>2 DEF Dropping, sameFolder

\* The same, for an operation that is no rename or that moves to other places.
LEMMA DropOther ==
    ASSUME TypeInv, Dropping, NEW t \in Threads, damage \subseteq damage', NEW r, NEW place,
           goto(t, place), reg' = [reg EXCEPT ![t] = r],
           place \notin {"place", "target"} \/ op[t].kind # "rename"
    PROVE  Dropping'
<1>1. CASE place = "idle"
  <2>1. op' = [op EXCEPT ![t] = None] /\ pc' = [pc EXCEPT ![t] = place] /\ place \notin {"place", "target"}
    BY <1>1 DEF goto
  <2> QED
    BY <2>1, DropStep
<1>2. CASE place # "idle"
  <2>1. op' = [op EXCEPT ![t] = op[t]] /\ pc' = [pc EXCEPT ![t] = place]
    BY <1>2, StateFacts DEF goto
  <2> QED
    BY <2>1, DropStep
<1> QED
  BY <1>1, <1>2

LEMMA DropRename ==
    ASSUME TypeInv, Dropping, NEW t \in Threads, RenameStart(t) PROVE Dropping'
<1> DEFINE o == op[t]
           e == getFileEntry(o.path)
           renamed == [e.entry EXCEPT !.name = o.to[Len(o.to)]]
           c == folder(parent(o.to))
           free == holes(disk[c])
           m == IF free = {} THEN 0 ELSE Min(free)
           r == [reg[t] EXCEPT !.image = image(e.cluster, e.slot, renamed)]
           gone == image(e.cluster, e.slot, Deleted)
           target == image(c, m, renamed)
           q == [[reg[t] EXCEPT !.image = gone] EXCEPT !.target = target]
           x == IF sameFolder(o) THEN r ELSE q
<1>1. /\ reg' = [reg EXCEPT ![t] = x]
      /\ pc' = [pc EXCEPT ![t] = "place"] /\ op' = op /\ damage \subseteq damage'
      /\ ~ sameFolder(o) /\ free = {} => "dropped" \in damage'
  BY DEF RenameStart, at, fatVars, goto, because
<1>2. op' = [op EXCEPT ![t] = o]
  BY <1>1, StateFacts
<1>3. free # {} => m # 0
  <2>1. free # {} => Min(free) \in 1 .. SlotCount
    <3> HIDE DEF c
    <3> QED
      BY HoleType
  <2> QED
    BY <2>1, SlotFacts
<1>4. q.target = target /\ target.slot = m
  <2>1. reg[t] \in Regs
    BY StateFacts
  <2>2. target.slot = m
    BY DEF image
  <2> HIDE DEF gone, target
  <2> QED
    BY <2>1, <2>2, RegParts
<1>5. sameFolder(o) \/ x.target.slot # 0 \/ "dropped" \in damage'
  <2> HIDE DEF q, free, m, target, r
  <2> QED
    BY <1>1, <1>3, <1>4
<1> DEFINE place == "place"
<1>6. pc' = [pc EXCEPT ![t] = place]
  BY <1>1
<1> HIDE DEF x, o, place
<1> QED
  BY <1>1, <1>2, <1>5, <1>6, DropStep

LEMMA DropPlace ==
    ASSUME TypeInv, Dropping, NEW t \in Threads, Place(t) PROVE Dropping'
<1> DEFINE place == afterPlace(t)
           r == IF place = "idle" THEN NoReg ELSE reg[t]
<1>1. /\ pc[t] = "place" /\ goto(t, place) /\ damage \subseteq damage'
      /\ reg' = IF place = "idle" THEN [reg EXCEPT ![t] = NoReg] ELSE reg
  BY DEF Place, at, because
<1>2. reg' = [reg EXCEPT ![t] = r]
  BY <1>1, StateFacts
<1>3. place # "place"
  BY DEF afterPlace
<1>4. CASE place # "target"
  <2> HIDE DEF place, r
  <2> QED
    BY <1>1, <1>2, <1>3, <1>4, DropOther
<1>5. CASE place = "target"
  <2>1. r = reg[t] /\ op' = [op EXCEPT ![t] = op[t]] /\ pc' = [pc EXCEPT ![t] = place]
    BY <1>1, <1>5, StateFacts DEF goto
  <2> HIDE DEF place, r
  <2> QED
    BY <1>1, <1>2, <2>1, DropStep
<1> QED
  BY <1>4, <1>5

LEMMA DropNext ==
    ASSUME TypeInv, Dropping, [Next]_vars PROVE Dropping'
<1>1. ASSUME NEW t \in Threads, Begin(t) PROVE Dropping'
  <2>1. PICK o : op' = [op EXCEPT ![t] = o] /\ pc' = [pc EXCEPT ![t] = "start"]
    BY <1>1 DEF Begin
  <2>2. reg' = [reg EXCEPT ![t] = reg[t]] /\ damage \subseteq damage'
    BY <1>1, StateFacts DEF Begin
  <2> DEFINE place == "start"
  <2>3. place \notin {"place", "target"} /\ pc' = [pc EXCEPT ![t] = place]
    BY <2>1
  <2> HIDE DEF place
  <2> QED
    BY <2>1, <2>2, <2>3, DropStep
<1>2. ASSUME NEW t \in Threads, op[t].kind # "rename", NEW place, NEW r, goto(t, place),
             reg' = [reg EXCEPT ![t] = r], damage \subseteq damage'
      PROVE  Dropping'
  BY <1>2, DropOther
<1>3. \A t \in Threads : reg = [reg EXCEPT ![t] = reg[t]] /\ fits(pc[t], op[t])
  BY StateFacts
<1>4. ASSUME NEW t \in Threads, MkSearch(t) PROVE Dropping'
  <2>1. op[t].kind # "rename" /\ damage \subseteq damage'
    BY <1>4 DEF MkSearch
  <2>2. \E place, r : goto(t, place) /\ reg' = [reg EXCEPT ![t] = r]
    <3> DEFINE chain == linked(table, folder(parent(op[t].path)))
               open == {k \in DOMAIN chain : holes(disk[chain[k]]) # {}}
               k == Min(open)
               name == op[t].path[Len(op[t].path)]
               kind == IF op[t].kind = "mkdir" THEN "dir" ELSE "file"
    <3>1. CASE open = {}
      <4>1. reg' = [reg EXCEPT ![t].image.put = slot(kind, name, 0, 0)] /\ goto(t, "link")
        BY <1>4, <3>1 DEF MkSearch
      <4>2. reg' = [reg EXCEPT ![t] = [@ EXCEPT !.image.put = slot(kind, name, 0, 0)]]
        BY <4>1
      <4> QED
        BY <4>1, <4>2
    <3>2. CASE open # {}
      <4> DEFINE i == image(chain[k], Min(holes(disk[chain[k]])), slot(kind, name, 0, 0))
      <4>1. reg' = [reg EXCEPT ![t].image = i] /\ goto(t, IF kind = "dir" THEN "find" ELSE "place")
        BY <1>4, <3>2 DEF MkSearch
      <4> HIDE DEF i
      <4>2. reg' = [reg EXCEPT ![t] = [@ EXCEPT !.image = i]]
        BY <4>1
      <4> QED
        BY <4>1, <4>2
    <3> QED
      BY <3>1, <3>2
  <2> QED
    BY <1>2, <2>1, <2>2
<1>5. ASSUME NEW t \in Threads, MkLink(t) PROVE Dropping'
  <2> DEFINE c == nextFree(table)
             i == image(c, 1, reg[t].image.put)
             place == IF op[t].kind = "mkdir" THEN "find" ELSE "place"
  <2>1. /\ pc[t] = "link" /\ goto(t, place) /\ damage \subseteq damage'
        /\ reg' = [reg EXCEPT ![t] = [[reg[t] EXCEPT !.image = i] EXCEPT !.count = 1]]
    BY <1>5 DEF MkLink, at, because
  <2>2. op[t].kind # "rename"
    BY <1>3, <2>1 DEF fits
  <2> HIDE DEF i, place
  <2> QED
    BY <1>2, <2>1, <2>2
<1>6. ASSUME NEW t \in Threads, FindFree(t) PROVE Dropping'
  <2>1. /\ pc[t] = "find" /\ goto(t, "use") /\ damage \subseteq damage'
        /\ reg' = [reg EXCEPT ![t] = [@ EXCEPT !.free = nextFree(table)]]
    BY <1>6 DEF FindFree, at, because
  <2>2. op[t].kind # "rename"
    BY <1>3, <2>1 DEF fits
  <2> QED
    BY <1>2, <2>1, <2>2
<1>7. ASSUME NEW t \in Threads, UseFree(t) PROVE Dropping'
  <2> DEFINE place == IF op[t].kind = "mkdir" THEN "dots" ELSE "clear"
  <2>1. /\ pc[t] = "use" /\ goto(t, place) /\ damage \subseteq damage'
        /\ reg' = [reg EXCEPT ![t] = [@ EXCEPT !.image.put.first = reg[t].free]]
    BY <1>7, Zenon DEF UseFree, at, because
  <2>2. op[t].kind # "rename"
    BY <1>3, <2>1 DEF fits
  <2> HIDE DEF place
  <2> QED
    BY <1>2, <2>1, <2>2
<1>8. ASSUME NEW t \in Threads, MkDots(t) PROVE Dropping'
  <2>1. /\ pc[t] = "dots" /\ goto(t, "place") /\ damage \subseteq damage' /\ reg' = reg
    BY <1>8 DEF MkDots, at, because
  <2>2. op[t].kind # "rename"
    BY <1>3, <2>1 DEF fits
  <2> QED
    BY <1>2, <1>3, <2>1, <2>2
<1>9. ASSUME NEW t \in Threads, TruncateStart(t) PROVE Dropping'
  <2> DEFINE e == getFileEntry(op[t].path)
             actual == clustersFor(e.entry.size)
             needed == clustersFor(op[t].size)
             n == IF needed < actual THEN actual - needed ELSE needed - actual
             i == image(e.cluster, e.slot, e.entry)
             place == IF needed < actual THEN "shrink"
                      ELSE IF needed = actual THEN
                              IF e.entry.size > op[t].size THEN "tail" ELSE "reread"
                      ELSE IF actual = 0 THEN "find" ELSE "extend"
  <2>1. /\ op[t].kind = "truncate" /\ goto(t, place) /\ damage \subseteq damage'
        /\ reg' = [reg EXCEPT ![t] = [[reg[t] EXCEPT !.image = i] EXCEPT !.count = n]]
    BY <1>9 DEF TruncateStart, at
  <2> HIDE DEF i, n, place
  <2> QED
    BY <1>2, <2>1
<1>10. ASSUME NEW t \in Threads, Shrink(t) PROVE Dropping'
  <2> DEFINE first == reg[t].image.put.first
             put == [reg[t].image.put EXCEPT
                        !.first = IF reg[t].count = 1 /\ removed(table, first) = 0 THEN 0 ELSE @]
             i == [reg[t].image EXCEPT !.put = put]
             n == reg[t].count - 1
             r == [[reg[t] EXCEPT !.count = n] EXCEPT !.image = i]
             place == IF reg[t].count = 1 THEN "reread" ELSE "shrink"
  <2>1. /\ pc[t] = "shrink" /\ goto(t, place) /\ damage \subseteq damage'
        /\ reg' = [reg EXCEPT ![t] = r]
    BY <1>10 DEF Shrink, at
  <2>2. op[t].kind # "rename"
    BY <1>3, <2>1 DEF fits
  <2> HIDE DEF place, r
  <2> QED
    BY <1>2, <2>1, <2>2
<1>11. ASSUME NEW t \in Threads, Clear(t) PROVE Dropping'
  <2> DEFINE place == IF reg[t].count = 1 THEN "reread" ELSE "extend"
  <2>1. /\ pc[t] = "clear" /\ goto(t, place) /\ damage \subseteq damage'
        /\ reg' = [reg EXCEPT ![t] = [@ EXCEPT !.count = reg[t].count - 1]]
    BY <1>11 DEF Clear, at
  <2>2. op[t].kind # "rename"
    BY <1>3, <2>1 DEF fits
  <2> HIDE DEF place
  <2> QED
    BY <1>2, <2>1, <2>2
<1>12. ASSUME NEW t \in Threads, Extend(t) PROVE Dropping'
  <2>1. /\ pc[t] = "extend" /\ goto(t, "clear") /\ damage \subseteq damage'
        /\ reg' = [reg EXCEPT ![t] = [@ EXCEPT !.free = nextFree(table)]]
    BY <1>12 DEF Extend, at
  <2>2. op[t].kind # "rename"
    BY <1>3, <2>1 DEF fits
  <2> QED
    BY <1>2, <2>1, <2>2
<1>13. ASSUME NEW t \in Threads, ClearTail(t) PROVE Dropping'
  <2>1. /\ pc[t] = "tail" /\ goto(t, "reread") /\ damage \subseteq damage' /\ reg' = reg
    BY <1>13 DEF ClearTail, at
  <2>2. op[t].kind # "rename"
    BY <1>3, <2>1 DEF fits
  <2> QED
    BY <1>2, <1>3, <2>1, <2>2
<1>14. ASSUME NEW t \in Threads, Reread(t) PROVE Dropping'
  <2> DEFINE i == [[reg[t].image EXCEPT !.seen = disk[reg[t].image.cluster]]
                      EXCEPT !.put = [reg[t].image.put EXCEPT !.size = op[t].size]]
             r == [reg[t] EXCEPT !.image = i]
  <2>1. pc[t] = "reread" /\ goto(t, "place") /\ damage \subseteq damage'
    BY <1>14 DEF Reread, at
  <2>4. reg' = [reg EXCEPT ![t].image.seen = disk[reg[t].image.cluster],
                           ![t].image.put.size = op[t].size]
    BY <1>14 DEF Reread
  <2>2. op[t].kind # "rename"
    BY <1>3, <2>1 DEF fits
  <2>3. reg' = [reg EXCEPT ![t] = r]
    BY <2>4, ZenonT(60)
  <2> HIDE DEF r
  <2> QED
    BY <1>2, <2>1, <2>2, <2>3
<1>15. ASSUME NEW t \in Threads, RemoveStart(t) PROVE Dropping'
  <2> DEFINE e == getFileEntry(op[t].path)
             s == linked(table, e.entry.first)
             i == image(e.cluster, e.slot, Deleted)
             place == IF s = <<>> THEN "save" ELSE "free"
  <2>1. /\ op[t].kind # "rename" /\ goto(t, place) /\ damage \subseteq damage'
        /\ reg' = [reg EXCEPT ![t] = [[reg[t] EXCEPT !.image = i] EXCEPT !.clusters = s]]
    BY <1>15 DEF RemoveStart, at, because
  <2> HIDE DEF i, s, place
  <2> QED
    BY <1>2, <2>1
<1>16. ASSUME NEW t \in Threads, FreeOne(t) PROVE Dropping'
  <2> DEFINE place == IF Len(reg[t].clusters) = 1 THEN "save" ELSE "free"
  <2>1. /\ pc[t] = "free" /\ goto(t, place) /\ damage \subseteq damage'
        /\ reg' = [reg EXCEPT ![t] = [@ EXCEPT !.clusters = Tail(reg[t].clusters)]]
    BY <1>16 DEF FreeOne, at
  <2>2. op[t].kind # "rename"
    BY <1>3, <2>1 DEF fits
  <2> HIDE DEF place
  <2> QED
    BY <1>2, <2>1, <2>2
<1>17. ASSUME NEW t \in Threads, RenameNothing(t) PROVE Dropping'
  <2> DEFINE place == "idle"
  <2>1. goto(t, place) /\ place \notin {"place", "target"} /\ reg' = reg /\ damage \subseteq damage'
    BY <1>17 DEF RenameNothing
  <2> HIDE DEF place
  <2> QED
    BY <1>3, <2>1, DropOther
<1>18. ASSUME NEW t \in Threads, PlaceTarget(t) PROVE Dropping'
  <2> DEFINE place == "idle"
  <2>1. /\ goto(t, place) /\ place \notin {"place", "target"}
        /\ reg' = [reg EXCEPT ![t] = NoReg] /\ damage \subseteq damage'
    BY <1>18 DEF PlaceTarget, because
  <2> HIDE DEF place
  <2> QED
    BY <2>1, DropOther
<1>19. ASSUME NEW t \in Threads, Save(t) PROVE Dropping'
  <2> DEFINE removing == op[t].kind \in {"unlink", "rmdir"}
             place == IF removing THEN "place" ELSE "idle"
             r == IF removing THEN reg[t] ELSE NoReg
  <2>1. /\ goto(t, place) /\ damage \subseteq damage'
        /\ reg' = IF removing THEN reg ELSE [reg EXCEPT ![t] = NoReg]
    BY <1>19 DEF Save
  <2>2. reg' = [reg EXCEPT ![t] = r]
    BY <1>3, <2>1
  <2>3. place \notin {"place", "target"} \/ op[t].kind # "rename"
    OBVIOUS
  <2> HIDE DEF place, r
  <2> QED
    BY <2>1, <2>2, <2>3, DropOther
<1>20. ASSUME Stop PROVE Dropping'
  <2>1. \A u \in Threads : pc'[u] = "idle"
    BY <1>20 DEF Stop
  <2> QED
    BY <2>1 DEF Dropping
<1>21. ASSUME UNCHANGED <<op, pc, reg, damage>> PROVE Dropping'
  BY <1>21 DEF Dropping
<1>22. ASSUME NEW t \in Threads, RenameStart(t) \/ Place(t) PROVE Dropping'
  BY <1>22, DropRename, DropPlace
<1> QED
  BY <1>1, <1>4, <1>5, <1>6, <1>7, <1>8, <1>9, <1>10, <1>11, <1>12, <1>13, <1>14, <1>15, <1>16,
     <1>17, <1>18, <1>19, <1>20, <1>21, <1>22 DEF Next, Die, Crash, Mount, vars

-----------------------------------------------------------------------------
(* Calls, the death of the process, and the whole system.                   *)

\* What the kernel looks up before a call is what the operation relies on.
LEMMA AdmittedKnows ==
    ASSUME TypeInv, NEW v, isViewed(v), NEW o \in Calls, admitted(o),
           \A u \in Threads : ~ excludes(o, op[u]), NEW r
    PROVE  Doing("start", o, r, disk, v)
<1>1. /\ o.path \in Paths /\ o.path # <<>> /\ o.to \in Paths
      /\ o.kind = "rename" => o.to # <<>>
      /\ o.kind \in {"create", "mkdir", "truncate", "unlink", "rmdir", "rename"}
  BY DEF Calls, Paths
<1>2. parent(o.path) \in Paths /\ prefixes(parent(o.path)) \subseteq prefixes(o.path)
  BY <1>1, SplitPath, PrefixFacts
<1>3. o.kind = "rename" =>
          parent(o.to) \in Paths /\ prefixes(parent(o.to)) \subseteq prefixes(o.to)
  BY <1>1, SplitPath, PrefixFacts
<1>4. ASSUME NEW p \in Paths, prefixes(p) \subseteq prefixes(o.path) \cup prefixes(o.to)
      PROVE  finds(v, p)
  <2>1. \A u \in Threads : op[u].kind \in {"unlink", "rmdir"} /\ busy(pc[u], op[u]) =>
               ~ excludes(o, op[u])
    OBVIOUS
  <2>2. getFileEntry(p) = answer(disk, v, p) /\ p \notin v.doomed
    BY <1>4, <2>1, Reach
  <2> QED
    BY <2>2, Answers
<1>5. finds(v, o.path) /\ finds(v, parent(o.path)) /\ (o.kind = "rename" => finds(v, parent(o.to)))
  BY <1>1, <1>2, <1>3, <1>4
<1>6. parent(o.path) \in v.dirs
  BY <1>5 DEF admitted, finds
<1>7. \A u \in Threads : busy(pc[u], op[u]) => ~ excludes(o, op[u])
  OBVIOUS
<1>8. CASE o.kind \in {"create", "mkdir"}
  <2>1. o.path \notin nodes(v)
    BY <1>1, <1>5, <1>8 DEF admitted, finds
  <2>2. o.path \notin v.carried
    BY <1>1, <1>7, <1>8, NotTaken
  <2>3. Making("start", o, r, disk, v)
    BY <1>6, <2>1, <2>2 DEF Making, absent
  <2> QED
    BY <1>8, <2>3 DEF Doing
<1>9. CASE o.kind = "truncate"
  <2>1. o.path \in v.files
    BY <1>5, <1>9 DEF admitted, finds
  <2>2. o.path \notin v.held
    BY <1>1, <1>7, <1>9, NotTaken
  <2>3. Truncating("start", o, r, v)
    BY <2>1, <2>2 DEF Truncating
  <2> QED
    BY <1>9, <2>3 DEF Doing
<1>10. CASE o.kind \in {"unlink", "rmdir"}
  <2>1. IF o.kind = "rmdir" THEN o.path \in v.dirs ELSE o.path \in v.files
    BY <1>5, <1>10 DEF admitted, finds
  <2>2. o.path \notin v.held
    <3>1. o.path \in removes(o)
      BY <1>10 DEF removes
    <3> QED
      BY <1>1, <1>7, <1>10, <3>1, NotTaken
  <2>3. Removing("start", o, r, v)
    BY <2>1, <2>2 DEF Removing
  <2> QED
    BY <1>10, <2>3 DEF Doing
<1>11. CASE o.kind = "rename"
  <2>1. o.path \in v.files /\ parent(o.to) \in v.dirs
    BY <1>5, <1>11 DEF admitted, finds
  <2>2. o.path \notin v.held
    <3>1. o.path \in removes(o)
      BY <1>11 DEF removes
    <3> QED
      BY <1>1, <1>7, <1>11, <3>1, NotTaken
  <2>3. Renaming("start", o, r, v)
    BY <2>1, <2>2 DEF Renaming
  <2> QED
    BY <1>11, <2>3 DEF Doing
<1> QED
  BY <1>1, <1>8, <1>9, <1>10, <1>11

LEMMA BeginTree == ASSUME TreeInv, TypeInv', NEW t \in Threads, Begin(t) PROVE TreeInv'
<1>1. PICK o \in OperationsOf[t] :
          admitted(o) /\ (\A u \in Threads : ~ excludes(o, op[u])) /\ op' = [op EXCEPT ![t] = o]
  BY DEF Begin
<1>2. /\ pc[t] = "idle" /\ pc' = [pc EXCEPT ![t] = "start"]
      /\ UNCHANGED <<table, disk, reg, damage>> /\ TypeInv /\ Exclusive /\ o \in Calls
  <2>1. OperationsOf[t] \subseteq Calls
    BY FileSystemAssumption
  <2> QED
    BY <1>1, <2>1 DEF Begin, fatVars, TreeInv
<1>3. /\ \A u \in Threads : u # t => pc'[u] = pc[u] /\ op'[u] = op[u]
      /\ pc'[t] = "start" /\ op'[t] = o
  BY <1>1, <1>2, StateFacts
<1>4. Exclusive'
  <2>1. ASSUME NEW x \in Threads, NEW y \in Threads, x # y PROVE ~ excludes(op'[x], op'[y])
    <3>1. \A q : excludes(o, q) <=> excludes(q, o)
      BY DEF excludes
    <3> QED
      BY <1>1, <1>2, <1>3, <2>1, <3>1 DEF Exclusive
  <2> QED
    BY <2>1 DEF Exclusive
<1>5. ASSUME NEW v, isViewed(v) PROVE isViewed(v)'
  <2>1. ASSUME NEW u \in Threads PROVE Doing(pc'[u], op'[u], reg'[u], disk', v)
    <3>1. CASE u = t
      <4>1. Doing("start", o, reg[t], disk, v)
        BY <1>1, <1>2, <1>5, AdmittedKnows
      <4> QED
        BY <1>2, <1>3, <3>1, <4>1
    <3>2. CASE u # t
      BY <1>2, <1>3, <1>5, <3>2, ViewFacts
    <3> QED
      BY <3>1, <3>2
  <2>2. Holders(pc', op', v)
    <3>1. ASSUME NEW kinds, NEW p, isBy(pc, op, kinds, p) PROVE isBy(pc', op', kinds, p)
      <4>1. PICK u \in Threads : op[u].kind \in kinds /\ op[u].path = p /\ busy(pc[u], op[u])
        BY <3>1 DEF isBy
      <4>2. u # t
        BY <1>2, <4>1 DEF busy
      <4> QED
        BY <1>3, <4>1, <4>2 DEF isBy
    <3>2. Holders(pc, op, v)
      BY <1>5 DEF isViewed, Sound
    <3> QED
      BY <3>1, <3>2 DEF Holders
  <2>3. /\ ChainsOf(table', v) /\ NodesOf(v) /\ EntriesOf(disk', v) /\ NoOthers(disk', v)
        /\ damage' = {} => Covers(table', v)
    BY <1>2, <1>5, ViewFacts
  <2> QED
    BY <2>1, <2>2, <2>3 DEF isViewed, Sound
<1>6. calm' => calm
  BY <1>2 DEF calm
<1> QED
  BY <1>4, <1>5, <1>6 DEF TreeInv

LEMMA StopTree == ASSUME TreeInv, TypeInv', Stop PROVE TreeInv'
<1>1. /\ table' = diskTable /\ disk' = disk /\ TypeInv
      /\ \A u \in Threads : pc'[u] = "idle" /\ op'[u] = None
      /\ table # diskTable \/ (\E u \in Threads : pc[u] \notin {"idle", "start"}) =>
            "unsaved" \in damage'
      /\ damage \subseteq damage'
  BY DEF Stop, because, TreeInv
<1>2. Exclusive'
  <2>1. \A x, y \in Threads : ~ excludes(op'[x], op'[y])
    BY <1>1, NoneExcludes
  <2> QED
    BY <2>1 DEF Exclusive
<1>3. ASSUME calm' PROVE \E v : isViewed(v)'
  <2>1. table' = table /\ \A u \in Threads : pc[u] \in {"idle", "start"}
    BY <1>1, <1>3 DEF calm
  <2>2. PICK v : isViewed(v)
    BY <1>1, <1>3, CalmBefore DEF TreeInv
  <2>3. \A kinds, p : ~ isBy(pc, op, kinds, p)
    BY <2>1 DEF isBy, busy
  <2>4. v.held = {} /\ v.doomed = {} /\ v.carried = {}
    BY <2>2, <2>3 DEF isViewed, Sound, Holders
  <2>5. Holders(pc', op', v)
    BY <2>4 DEF Holders
  <2>6. ASSUME NEW u \in Threads PROVE Doing(pc'[u], op'[u], reg'[u], disk', v)
    <3>1. op'[u].kind = "none"
      BY <1>1 DEF None
    <3> QED
      BY <3>1 DEF Doing
  <2>7. /\ ChainsOf(table', v) /\ NodesOf(v) /\ EntriesOf(disk', v) /\ NoOthers(disk', v)
        /\ damage' = {} => Covers(table', v)
    BY <1>1, <2>1, <2>2, ViewFacts
  <2>8. isViewed(v)'
    BY <2>5, <2>6, <2>7 DEF isViewed, Sound
  <2> QED
    BY <2>8
<1> QED
  BY <1>2, <1>3 DEF TreeInv

LEMMA SameTree ==
    ASSUME TreeInv, TypeInv', UNCHANGED <<table, disk, pc, op, reg, damage>> PROVE TreeInv'
<1>1. Exclusive'
  BY DEF TreeInv, Exclusive
<1>2. ASSUME NEW v, isViewed(v) PROVE isViewed(v)'
  BY <1>2 DEF isViewed
<1>3. calm' => calm
  BY DEF calm
<1> QED
  BY <1>1, <1>2, <1>3 DEF TreeInv

\* A formatted device: the root owns cluster 2 and has no entries.
LEMMA InitTree == Init => TreeInv
<1> SUFFICES ASSUME Init PROVE TreeInv
  OBVIOUS
<1>1. TypeInv
  BY InitType
<1>2. /\ \A u \in Threads : pc[u] = "idle" /\ op[u] = None
      /\ damage = {}
      /\ table = [c \in Entries |-> IF c = 0 THEN Media ELSE IF c <= 2 THEN EOC ELSE 0]
      /\ disk[2] = Zeros
  <2>1. 2 \in Clusters /\ 2 \notin DOMAIN Leftovers
    BY FileSystemAssumption, FatAssumption DEF Clusters
  <2> QED
    BY <2>1 DEF Init
<1>3. Exclusive
  BY <1>2, NoneExcludes DEF Exclusive
<1> DEFINE G == [p \in Paths |-> IF p = <<>> THEN <<2>> ELSE <<>>]
<1>4. PICK v : /\ v.dirs = {<<>>} /\ v.files = {} /\ v.doomed = {} /\ v.held = {} /\ v.carried = {}
               /\ v.spot = <<>> /\ v.chain = G
  <2> WITNESS viewOf({<<>>}, {}, {}, {}, {}, <<>>, G)
  <2> QED
    BY DEF viewOf
<1>5. <<>> \in Paths /\ v.chain[<<>>] = <<2>> /\ \A p \in Paths : p # <<>> => v.chain[p] = <<>>
  <2>1. <<>> \in Paths
    BY DEF Paths
  <2> QED
    BY <1>4, <2>1
<1>6. isChain(<<2>>, table)
  <2>1. /\ 2 \in Clusters /\ Size \in Nat /\ Size > 2 /\ table[2] = EOC
    BY <1>2, FatAssumption, LinkFacts DEF Clusters, Entries
  <2>2. <<2>> \in Seq(Clusters) /\ Len(<<2>>) = 1 /\ <<2>>[1] = 2
    BY <2>1
  <2>3. 1 \in 1 .. Size /\ 1 .. 1 - 1 = {}
    BY <2>1
  <2>4. isEOC(EOC)
    BY DEF isEOC
  <2> QED
    BY <2>1, <2>2, <2>3, <2>4 DEF isChain
<1>7. ChainsOf(table, v)
  <2>1. table[0] = Media
    BY <1>2, FatAssumption DEF Entries
  <2>2. ASSUME NEW p \in Paths, NEW q \in Paths, NEW i \in 1 .. Len(v.chain[p]),
               NEW j \in 1 .. Len(v.chain[q])
        PROVE  p = <<>> /\ q = <<>> /\ i = 1 /\ j = 1
    <3>1. \A p2 \in Paths : \A i2 \in 1 .. Len(v.chain[p2]) : p2 = <<>> /\ i2 = 1
      <4>1. Len(v.chain[<<>>]) = 1 /\ \A x \in Paths : x # <<>> => Len(v.chain[x]) = 0
        BY <1>5
      <4> HIDE DEF G
      <4>2. \A n : (n = 1 => \A k \in 1 .. n : k = 1) /\ (n = 0 => 1 .. n = {})
        OBVIOUS
      <4>3. ASSUME NEW x \in Paths, NEW k \in 1 .. Len(v.chain[x]) PROVE x = <<>> /\ k = 1
        <5>1. CASE x = <<>>
          BY <4>1, <4>2, <4>3, <5>1
        <5>2. CASE x # <<>>
          BY <4>1, <4>2, <4>3, <5>2
        <5> QED
          BY <5>1, <5>2
      <4> QED
        BY <4>3
    <3> QED
      BY <3>1
  <2> HIDE DEF G
  <2> QED
    BY <1>5, <1>6, <2>1, <2>2 DEF ChainsOf
<1>8. NodesOf(v)
  <2>1. nodes(v) = {<<>>}
    BY <1>4 DEF nodes
  <2>2. v.chain[<<>>] # <<>> /\ v.chain[<<>>][1] = 2
    BY <1>5
  <2> HIDE DEF G
  <2> QED
    BY <1>4, <1>5, <2>1, <2>2 DEF NodesOf, absent
<1>9. EntriesOf(disk, v)
  BY <1>4 DEF EntriesOf, nodes
<1>10. NoOthers(disk, v)
  <2>1. ASSUME NEW d \in v.dirs, NEW c \in Clusters, NEW i \in 1 .. SlotCount, onChain(c, v.chain[d])
        PROVE  disk[c][i].kind = "end"
    <3>1. c = 2
      <4>1. v.chain[d] = <<2>>
        BY <1>4, <1>5
      <4>2. PICK k \in 1 .. Len(v.chain[d]) : v.chain[d][k] = c
        BY <2>1 DEF onChain
      <4>3. k = 1 /\ v.chain[d][1] = 2
        BY <4>1, <4>2
      <4> QED
        BY <4>2, <4>3
    <3> QED
      BY <1>2, <3>1, SlotFacts DEF End, slot
  <2> QED
    BY <2>1 DEF NoOthers
<1>11. Holders(pc, op, v)
  BY <1>4 DEF Holders
<1>12. ASSUME NEW u \in Threads PROVE Doing(pc[u], op[u], reg[u], disk, v)
  BY <1>2 DEF Doing, None
<1>13. Covers(table, v)
  <2>1. ASSUME NEW c \in Clusters, table[c] # 0 PROVE c = 2
    BY <1>2, <2>1, FatAssumption DEF Clusters, Entries
  <2>2. onChain(2, v.chain[<<>>])
    <3>1. 1 \in 1 .. Len(v.chain[<<>>]) /\ v.chain[<<>>][1] = 2
      BY <1>5
    <3> QED
      BY <3>1 DEF onChain
  <2> QED
    BY <1>5, <2>1, <2>2 DEF Covers
<1>14. isViewed(v)
  BY <1>7, <1>8, <1>9, <1>10, <1>11, <1>12, <1>13 DEF isViewed, Sound
<1> QED
  BY <1>1, <1>3, <1>14 DEF TreeInv

LEMMA NextTree == TreeInv /\ Dropping /\ [Next]_vars => (TreeInv /\ Dropping)'
<1> SUFFICES ASSUME TreeInv, Dropping, [Next]_vars PROVE (TreeInv /\ Dropping)'
  OBVIOUS
<1>1. TypeInv
  BY DEF TreeInv
<1>2. TypeInv' /\ Dropping'
  BY <1>1, NextType, DropNext
<1>3. ASSUME Mount \/ UNCHANGED vars PROVE TreeInv'
  BY <1>2, <1>3, SameTree DEF Mount, vars, fatVars
<1>4. ASSUME Crash \/ \E t \in Threads : Die(t) PROVE TreeInv'
  BY <1>2, <1>4, StopTree DEF Crash, Die
<1> QED
  BY <1>2, <1>3, <1>4, BeginTree, MkSearchTree, MkLinkTree, FindFreeTree, UseFreeTree,
     MkDotsTree, TruncateStartTree, ShrinkTree, ClearTree, ExtendTree, ClearTailTree,
     RereadTree, RemoveStartTree, FreeOneTree, RenameNothingTree, RenameStartTree,
     PlaceTargetTree, PlaceTree, SaveTree DEF Next

\* In every state some view of the tree is sound, unless harm was done.
LEMMA TreeKept == Spec => [](TreeInv /\ Dropping)
  BY InitTree, DropInit, NextTree, PTL DEF Spec

-----------------------------------------------------------------------------
(* Between operations: the tree that FileSystem's properties speak of is   *)
(* the one of the view.                                                    *)

\* Nothing is half done.
rests(v) ==
    /\ isViewed(v) /\ Covers(table, v)
    /\ v.held = {} /\ v.doomed = {} /\ v.carried = {}

\* When every thread is idle and no harm was done, some view rests.
LEMMA SoundView ==
    ASSUME TreeInv, sound
    PROVE  TypeInv /\ \E v : rests(v)
<1>1. TypeInv /\ damage = {} /\ \A t \in Threads : ~ busy(pc[t], op[t])
  BY DEF TreeInv, sound, busy
<1>2. PICK v : isViewed(v)
  BY <1>1 DEF TreeInv, calm
<1>3. Holders(pc, op, v) /\ Covers(table, v)
  BY <1>1, <1>2 DEF isViewed, Sound
<1>4. v.held = {} /\ v.doomed = {} /\ v.carried = {}
  BY <1>1, <1>3 DEF Holders, isBy
<1>5. rests(v)
  BY <1>2, <1>3, <1>4 DEF rests
<1> QED
  BY <1>1, <1>5

LEMMA RestFacts ==
    ASSUME TypeInv, NEW v, rests(v)
    PROVE  /\ ChainsOf(table, v) /\ NodesOf(v) /\ EntriesOf(disk, v) /\ NoOthers(disk, v)
           /\ Proper(table) /\ disk \in Disks
           /\ nodes(v) = v.dirs \cup v.files /\ nodes(v) \subseteq Paths
           /\ \A p \in Paths : p \notin nodes(v) => v.chain[p] = <<>>
<1>1. ChainsOf(table, v) /\ NodesOf(v) /\ EntriesOf(disk, v) /\ NoOthers(disk, v)
  BY DEF rests, isViewed, Sound
<1>2. nodes(v) = v.dirs \cup v.files
  BY DEF rests, nodes
<1>3. nodes(v) \subseteq Paths /\ \A p \in Paths : p \notin nodes(v) => v.chain[p] = <<>>
  BY <1>1 DEF NodesOf, absent, rests
<1> QED
  BY <1>1, <1>2, <1>3, StateFacts

\* The clusters of a directory and of what follows its first one.
LEMMA FolderChain ==
    ASSUME TypeInv, NEW v, rests(v), NEW d \in v.dirs
    PROVE  /\ d \in Paths /\ v.chain[d] # <<>> /\ v.chain[d][1] \in Clusters
           /\ v.chain[d] \in Seq(Clusters) /\ linked(table, v.chain[d][1]) = v.chain[d]
<1>1. d \in Paths /\ v.chain[d] # <<>> /\ ChainsOf(table, v) /\ Proper(table)
  BY RestFacts DEF NodesOf, EntriesOf
<1> QED
  BY <1>1, ChainOfPath

\* A sequence over a set is one over a larger set.
LEMMA SeqOfMore ==
    ASSUME NEW S, NEW T, S \subseteq T, NEW s \in Seq(S)
    PROVE  s \in Seq(T)
<1>1. Len(s) \in Nat /\ \A i \in 1 .. Len(s) : s[i] \in T
  OBVIOUS
<1>2. s = [i \in 1 .. Len(s) |-> s[i]]
  OBVIOUS
<1> QED
  BY <1>1, <1>2

\* A directory shows the entries of its nodes and no others.
LEMMA FolderEntries ==
    ASSUME TypeInv, NEW v, rests(v), NEW d \in v.dirs
    PROVE  /\ \A p \in nodes(v) : p # <<>> /\ parent(p) = d =>
                 entryOf(disk, v, p) \in entriesOf(v.chain[d][1])
           /\ \A e \in entriesOf(v.chain[d][1]) :
                 \E p \in nodes(v) : p # <<>> /\ parent(p) = d /\ e = entryOf(disk, v, p)
<1> DEFINE s == v.chain[d]
           shown(c) == {disk[c][i] : i \in interpret(disk[c])}
           cs == {s[k] : k \in DOMAIN s}
<1>1. /\ d \in Paths /\ s # <<>> /\ s[1] \in Clusters /\ s \in Seq(Clusters)
      /\ linked(table, s[1]) = s
  BY FolderChain
<1>2. entriesOf(s[1]) = UNION {shown(c) : c \in cs}
  BY <1>1 DEF entriesOf
<1>3. \A c : onChain(c, s) <=> c \in cs
  BY <1>1 DEF onChain
<1>4. \A c \in cs : c \in Clusters
  BY <1>1
<1> HIDE DEF s, cs
<1>5. ASSUME NEW p \in nodes(v), p # <<>>, parent(p) = d
      PROVE  entryOf(disk, v, p) \in entriesOf(s[1])
  <2> DEFINE c == v.spot[p][1]
             i == v.spot[p][2]
  <2>1. onChain(c, s) /\ i \in interpret(disk[c])
    BY <1>5, RestFacts, SpotOfNode DEF s
  <2>2. entryOf(disk, v, p) = disk[c][i]
    BY DEF entryOf
  <2> HIDE DEF c, i
  <2> QED
    BY <1>2, <1>3, <2>1, <2>2
<1>6. ASSUME NEW e \in entriesOf(s[1])
      PROVE  \E p \in nodes(v) : p # <<>> /\ parent(p) = d /\ e = entryOf(disk, v, p)
  <2>1. PICK c \in cs : e \in shown(c)
    BY <1>2
  <2>2. PICK i \in interpret(disk[c]) : e = disk[c][i]
    BY <2>1
  <2>3. i \in 1 .. SlotCount /\ disk[c][i].kind \in {"file", "dir"}
    BY <2>2, Visible
  <2>4. c \in Clusters /\ onChain(c, v.chain[d])
    BY <1>3, <1>4, <2>1 DEF s
  <2>5. isOfNode(disk, v, d, c, i)
    BY <2>3, <2>4, RestFacts DEF NoOthers
  <2> DEFINE n == disk[c][i].name
             p == Append(d, n)
  <2>6. p \in nodes(v) /\ v.spot[p] = <<c, i>>
    BY <2>5 DEF isOfNode
  <2>7. n \in Names
    <3>1. p \in Seq(Names) /\ d \in Seq(Names) /\ Len(d) \in Nat
      <4>1. nodes(v) \subseteq Seq(Names) /\ d \in Seq(Names)
        BY <1>1, RestFacts DEF Paths
      <4> HIDE DEF p
      <4> QED
        BY <4>1, <2>6
    <3>2. d \in Seq(Names \cup {n})
      BY <3>1, SeqOfMore
    <3>3. Len(p) = Len(d) + 1 /\ p[Len(d) + 1] = n
      BY <3>2, AppendProperties
    <3> HIDE DEF p, n
    <3>4. Len(d) + 1 \in 1 .. Len(p)
      BY <3>1, <3>3
    <3> QED
      BY <3>1, <3>3, <3>4
  <2>8. p # <<>> /\ parent(p) = d
    BY <1>1, <2>7, AppendPath
  <2>9. entryOf(disk, v, p) = disk[c][i]
    BY <2>6 DEF entryOf
  <2> HIDE DEF p
  <2> QED
    BY <2>2, <2>6, <2>8, <2>9
<1> QED
  BY <1>5, <1>6 DEF s

\* The set of clusters D has the root and with a directory those it shows.
closes(D) ==
    /\ D \in SUBSET Clusters /\ 2 \in D
    /\ \A f \in D : \A e \in entriesOf(f) : e.kind = "dir" => e.first \in D

\* The first clusters of a view's directories.
heads(v) == {v.chain[d][1] : d \in v.dirs}

LEMMA HeadsClose ==
    ASSUME TypeInv, NEW v, rests(v)
    PROVE  closes(heads(v))
<1>1. heads(v) \in SUBSET Clusters
  BY FolderChain DEF heads
<1>2. 2 \in heads(v)
  BY RestFacts DEF NodesOf, heads
<1>3. ASSUME NEW f \in heads(v), NEW e \in entriesOf(f), e.kind = "dir"
      PROVE  e.first \in heads(v)
  <2>1. PICK d \in v.dirs : f = v.chain[d][1]
    BY DEF heads
  <2>2. PICK p \in nodes(v) : p # <<>> /\ parent(p) = d /\ e = entryOf(disk, v, p)
    BY <1>3, <2>1, FolderEntries
  <2>3. p \in v.dirs
    BY <1>3, <2>2, RestFacts DEF EntriesOf
  <2>4. e.first = v.chain[p][1]
    BY <2>2, <2>3, RestFacts DEF EntriesOf
  <2> QED
    BY <2>3, <2>4 DEF heads
<1> QED
  BY <1>1, <1>2, <1>3 DEF closes

LEMMA HeadsLeast ==
    ASSUME TypeInv, NEW v, rests(v), NEW D, closes(D), NEW d \in v.dirs
    PROVE  v.chain[d][1] \in D
<1> DEFINE m == Len(d)
           S == {n \in 0 .. m : \A p \in v.dirs : Len(p) = n => v.chain[p][1] \in D}
<1>1. \A p \in v.dirs : p \in Paths /\ p \in Seq(Names) /\ Len(p) \in Nat
  BY FolderChain DEF Paths
<1>2. m \in Nat
  BY <1>1
<1>3. 0 \in S
  <2>1. ASSUME NEW p \in v.dirs, Len(p) = 0 PROVE v.chain[p][1] \in D
    <3>1. p = <<>>
      BY <1>1, <2>1, EmptySeq
    <3> QED
      BY <3>1, RestFacts DEF NodesOf, closes
  <2> QED
    BY <1>2, <2>1
<1>4. ASSUME NEW n \in 0 .. m - 1, n \in S PROVE n + 1 \in S
  <2>1. ASSUME NEW p \in v.dirs, Len(p) = n + 1 PROVE v.chain[p][1] \in D
    <3>1. p # <<>>
      <4>1. Len(p) # 0
        BY <2>1, <1>2
      <4> QED
        BY <4>1
    <3>2. Len(parent(p)) = Len(p) - 1
      BY <1>1, <3>1, ParentType
    <3>3. parent(p) \in v.dirs /\ p \in nodes(v)
      BY <3>1, RestFacts DEF NodesOf
    <3>4. v.chain[parent(p)][1] \in D
      <4>1. Len(parent(p)) = n
        BY <1>2, <2>1, <3>2
      <4> QED
        BY <1>4, <3>3, <4>1
    <3>5. entryOf(disk, v, p) \in entriesOf(v.chain[parent(p)][1])
      BY <3>1, <3>3, FolderEntries
    <3>6. entryOf(disk, v, p).kind = "dir" /\ entryOf(disk, v, p).first = v.chain[p][1]
      BY <3>1, RestFacts DEF EntriesOf
    <3> QED
      BY <3>4, <3>5, <3>6 DEF closes
  <2>2. n + 1 \in 0 .. m
    BY <1>2
  <2> QED
    BY <2>1, <2>2
<1>5. 0 .. m \subseteq S
  <2> HIDE DEF S, m
  <2> QED
    BY <1>2, <1>3, <1>4, UpTo
<1>6. m \in 0 .. m
  BY <1>2
<1> QED
  BY <1>5, <1>6

LEMMA Reachable ==
    ASSUME TypeInv, NEW v, rests(v)
    PROVE  directories = heads(v)
<1> DEFINE closed == {D \in SUBSET Clusters :
                        /\ 2 \in D
                        /\ \A f \in D : \A e \in entriesOf(f) : e.kind = "dir" => e.first \in D}
<1>1. \A D : D \in closed <=> closes(D)
  BY DEF closes
<1>2. directories = {f \in Clusters : \A D \in closed : f \in D}
  BY DEF directories
<1> HIDE DEF closed
<1>3. \A f \in directories : f \in heads(v)
  BY <1>1, <1>2, HeadsClose
<1>4. \A f \in heads(v) : f \in Clusters /\ \A D \in closed : f \in D
  BY <1>1, HeadsLeast, FolderChain DEF heads
<1> QED
  BY <1>2, <1>3, <1>4

\* The tree is made of the entries of the nodes.
LEMMA TreeEntries ==
    ASSUME TypeInv, NEW v, rests(v)
    PROVE  /\ \A p \in nodes(v) : p # <<>> => entryOf(disk, v, p) \in tree
           /\ \A e \in tree : \E p \in nodes(v) : p # <<>> /\ e = entryOf(disk, v, p)
<1>1. tree = UNION {entriesOf(f) : f \in heads(v)}
  BY Reachable DEF tree
<1>2. ASSUME NEW p \in nodes(v), p # <<>> PROVE entryOf(disk, v, p) \in tree
  <2>1. parent(p) \in v.dirs
    BY <1>2, RestFacts DEF NodesOf
  <2>2. entryOf(disk, v, p) \in entriesOf(v.chain[parent(p)][1])
    BY <1>2, <2>1, FolderEntries
  <2> QED
    BY <1>1, <2>1, <2>2 DEF heads
<1>3. ASSUME NEW e \in tree
      PROVE  \E p \in nodes(v) : p # <<>> /\ e = entryOf(disk, v, p)
  <2>1. PICK d \in v.dirs : e \in entriesOf(v.chain[d][1])
    BY <1>1 DEF heads
  <2> QED
    BY <2>1, FolderEntries
<1> QED
  BY <1>2, <1>3

\* What the entry of a node says of the clusters it owns.
LEMMA NodeEntry ==
    ASSUME TypeInv, NEW v, rests(v), NEW p \in nodes(v), p # <<>>
    PROVE  LET e == entryOf(disk, v, p)
           IN  /\ e \in Slots /\ e.kind \in {"file", "dir"}
               /\ e.first = headOf(v.chain[p])
               /\ e.kind = "dir" \/ e.size > 0 <=> v.chain[p] # <<>>
               /\ e.kind = "file" => /\ Len(v.chain[p]) = clustersFor(e.size)
                                     /\ linked(table, e.first) = v.chain[p]
<1> DEFINE e == entryOf(disk, v, p)
<1>1. e.kind \in {"file", "dir"} /\ e \in Slots
  <2>1. onChain(v.spot[p][1], v.chain[parent(p)]) /\ v.spot[p][2] \in 1 .. SlotCount
        /\ parent(p) \in v.dirs /\ e.kind \in {"file", "dir"}
    BY RestFacts, SpotOfNode
  <2>2. v.spot[p][1] \in Clusters
    BY <2>1, FolderChain DEF onChain
  <2>3. disk[v.spot[p][1]] \in Contents
    BY <2>2, RestFacts DEF Disks
  <2> QED
    BY <2>1, <2>3 DEF Contents, entryOf
<1>2. CASE p \in v.dirs
  BY <1>1, <1>2, RestFacts DEF EntriesOf, headOf
<1>3. CASE p \in v.files
  <2>1. e.kind = "file" /\ owns(e, v.chain[p])
    BY <1>3, RestFacts DEF EntriesOf, rests
  <2>2. linked(table, e.first) = v.chain[p]
    BY <1>3, RestFacts, LinkedOfNode DEF rests
  <2>3. e.size \in Nat
    BY <1>1 DEF Slots
  <2>4. e.size > 0 <=> Len(v.chain[p]) # 0
    <3>1. ASSUME e.size = 0 PROVE clustersFor(e.size) = 0
      <4>1. SlotCount \in Nat \ {0}
        BY SlotFacts
      <4>2. (0 + SlotCount - 1) \div SlotCount = 0
        BY <4>1
      <4> QED
        BY <3>1, <4>2 DEF clustersFor
    <3> QED
      BY <2>1, <2>3, <3>1, ClustersForFacts DEF owns
  <2>5. v.chain[p] = <<>> <=> Len(v.chain[p]) = 0
    <3>1. v.chain[p] = <<>> \/ v.chain[p] \in Seq(Clusters)
      BY RestFacts DEF ChainsOf, isChain
    <3> QED
      BY <3>1, EmptySeq
  <2> QED
    BY <1>1, <2>1, <2>2, <2>4, <2>5 DEF owns
<1> QED
  BY <1>2, <1>3, RestFacts

\* The nodes that own clusters.
owning(v) == {p \in nodes(v) : v.chain[p] # <<>>}

\* The clusters of an owner, as the properties and as the view have them.
LEMMA OwnerChain ==
    ASSUME TypeInv, NEW v, rests(v), NEW p \in owning(v)
    PROVE  /\ p \in Paths /\ v.chain[p][1] \in Clusters
           /\ onChain(v.chain[p][1], v.chain[p])
           /\ \A c : c \in chainOf(v.chain[p][1]) <=> onChain(c, v.chain[p])
<1>1. p \in Paths /\ v.chain[p] # <<>> /\ ChainsOf(table, v) /\ Proper(table)
  BY RestFacts DEF owning
<1>2. /\ v.chain[p] \in Seq(Clusters) /\ v.chain[p][1] \in Clusters
      /\ linked(table, v.chain[p][1]) = v.chain[p] /\ Len(v.chain[p]) \in 1 .. Size
  BY <1>1, ChainOfPath
<1>3. chainOf(v.chain[p][1]) = {v.chain[p][k] : k \in 1 .. Len(v.chain[p])}
  BY <1>2 DEF chainOf
<1>4. 1 \in 1 .. Len(v.chain[p])
  BY <1>2, FatAssumption
<1> QED
  BY <1>1, <1>2, <1>3, <1>4 DEF onChain

LEMMA OneHead ==
    ASSUME TypeInv, NEW v, rests(v), NEW p \in owning(v), NEW q \in owning(v), NEW c,
           c \in chainOf(v.chain[p][1]), c \in chainOf(v.chain[q][1])
    PROVE  p = q
  BY OwnerChain, RestFacts, OneOwner

LEMMA SameHead ==
    ASSUME TypeInv, NEW v, rests(v), NEW p \in owning(v), NEW q \in owning(v),
           v.chain[p][1] = v.chain[q][1]
    PROVE  p = q
<1> DEFINE c == v.chain[p][1]
<1>1. c \in chainOf(v.chain[p][1]) /\ c \in chainOf(v.chain[q][1])
  BY OwnerChain
<1> HIDE DEF c
<1> QED
  BY <1>1, OneHead

\* The entries whose clusters the properties count.
entriesOwning == {e \in tree : e.kind = "dir" \/ e.size > 0}

LEMMA OwningEntries ==
    ASSUME TypeInv, NEW v, rests(v)
    PROVE  /\ <<>> \in owning(v) /\ v.chain[<<>>][1] = 2
           /\ \A p \in owning(v) : p # <<>> =>
                 /\ entryOf(disk, v, p) \in entriesOwning
                 /\ entryOf(disk, v, p).first = v.chain[p][1]
           /\ \A e \in entriesOwning : \E p \in owning(v) : p # <<>> /\ e = entryOf(disk, v, p)
<1>1. <<>> \in owning(v) /\ v.chain[<<>>][1] = 2
  BY RestFacts DEF NodesOf, nodes, owning
<1>2. ASSUME NEW p \in owning(v), p # <<>>
      PROVE  /\ entryOf(disk, v, p) \in entriesOwning
             /\ entryOf(disk, v, p).first = v.chain[p][1]
  <2>1. p \in nodes(v) /\ v.chain[p] # <<>>
    BY DEF owning
  <2> QED
    BY <1>2, <2>1, TreeEntries, NodeEntry DEF entriesOwning, headOf
<1>3. ASSUME NEW e \in entriesOwning
      PROVE  \E p \in owning(v) : p # <<>> /\ e = entryOf(disk, v, p)
  <2>1. PICK p \in nodes(v) : p # <<>> /\ e = entryOf(disk, v, p)
    BY TreeEntries DEF entriesOwning
  <2>2. v.chain[p] # <<>>
    BY <2>1, NodeEntry DEF entriesOwning
  <2> QED
    BY <2>1, <2>2 DEF owning
<1> QED
  BY <1>1, <1>2, <1>3

LEMMA OwnersOf ==
    ASSUME TypeInv, NEW v, rests(v)
    PROVE  /\ \A p \in owning(v) : v.chain[p][1] \in owners
           /\ \A f \in owners : \E p \in owning(v) : f = v.chain[p][1]
<1>1. owners = {2} \cup {e.first : e \in entriesOwning}
  BY DEF owners, entriesOwning
<1>2. ASSUME NEW p \in owning(v) PROVE v.chain[p][1] \in owners
  BY <1>1, OwningEntries
<1>3. ASSUME NEW f \in owners PROVE \E p \in owning(v) : f = v.chain[p][1]
  BY <1>1, OwningEntries
<1> QED
  BY <1>2, <1>3

\* As many entries as chains beside the root's.
LEMMA CountOwners ==
    ASSUME TypeInv, NEW v, rests(v)
    PROVE  Cardinality(owners) = 1 + Cardinality(entriesOwning)
<1> DEFINE T == owners \ {2}
           f == [e \in entriesOwning |-> e.first]
<1>1. owners = {2} \cup {e.first : e \in entriesOwning}
  BY DEF owners, entriesOwning
<1>2. ASSUME NEW e \in entriesOwning PROVE e.first \in T
  <2>1. PICK p \in owning(v) : p # <<>> /\ e = entryOf(disk, v, p)
    BY OwningEntries
  <2>2. e.first = v.chain[p][1] /\ <<>> \in owning(v) /\ v.chain[<<>>][1] = 2
    BY <2>1, OwningEntries
  <2>3. e.first # 2
    BY <2>1, <2>2, SameHead
  <2> QED
    BY <1>1, <2>3
<1>3. ASSUME NEW e \in entriesOwning, NEW g \in entriesOwning, e.first = g.first PROVE e = g
  <2>1. PICK p \in owning(v) : p # <<>> /\ e = entryOf(disk, v, p)
    BY OwningEntries
  <2>2. PICK q \in owning(v) : q # <<>> /\ g = entryOf(disk, v, q)
    BY OwningEntries
  <2>3. v.chain[p][1] = v.chain[q][1]
    BY <1>3, <2>1, <2>2, OwningEntries
  <2>4. p = q
    BY <2>3, SameHead
  <2> QED
    BY <2>1, <2>2, <2>4
<1>4. f \in Injection(entriesOwning, T)
  BY <1>2, <1>3 DEF Injection, IsInjective
<1>5. f \in Surjection(entriesOwning, T)
  <2>1. f \in [entriesOwning -> T]
    BY <1>2
  <2>2. ASSUME NEW c \in T PROVE \E e \in entriesOwning : f[e] = c
    BY <1>1
  <2> QED
    BY <2>1, <2>2 DEF Surjection
<1>6. IsFiniteSet(T)
  <2>1. IsFiniteSet(Clusters)
    BY FatAssumption, FS_Interval DEF Clusters
  <2>2. T \in SUBSET Clusters
    BY OwnersOf, OwnerChain
  <2> HIDE DEF T
  <2> QED
    BY <2>1, <2>2, FS_Subset
<1>7. Cardinality(entriesOwning) = Cardinality(T)
  <2> HIDE DEF T, f
  <2> QED
    BY <1>4, <1>5, <1>6, FS_Injection
<1>8. owners = T \cup {2} /\ 2 \notin T
  BY <1>1
<1>9. Cardinality(T \cup {2}) = Cardinality(T) + 1 /\ Cardinality(T) \in Nat
  <2> HIDE DEF T
  <2> QED
    BY <1>6, <1>8, FS_AddElement, FS_CardinalityType
<1> HIDE DEF T
<1> QED
  BY <1>7, <1>8, <1>9

-----------------------------------------------------------------------------
(* What FileSystem's properties say.                                       *)

\* No operation overwrites the media descriptor: only a mishap that the history
\* names does, and neither a dropped file nor an orphan is one.
THEOREM MediaIsKept == Spec => []MediaKept
<1>1. TreeInv => MediaKept
  BY DEF TreeInv, MediaKept, calm, isViewed, Sound, ChainsOf
<1> QED
  BY <1>1, TreeKept, PTL

\* Chains that end, do not meet and belong to one entry each: however many
\* threads create, truncate, remove and rename, between operations every file
\* and directory has its clusters to itself, at every depth of the tree.
THEOREM ChainsAreSound == Spec => []ChainsSound
<1>1. ASSUME TreeInv, sound
      PROVE  /\ \A f \in owners : chainOf(f) # {} /\ chainOf(f) \subseteq Clusters
             /\ \A f, g \in owners : f # g => chainOf(f) \cap chainOf(g) = {}
             /\ Cardinality(owners) = 1 + Cardinality(entriesOwning)
  <2>1. PICK v : rests(v)
    BY <1>1, SoundView
  <2>2. TypeInv
    BY <1>1 DEF TreeInv
  <2>3. ASSUME NEW f \in owners
        PROVE  chainOf(f) # {} /\ chainOf(f) \subseteq Clusters
    <3>1. PICK p \in owning(v) : f = v.chain[p][1]
      BY <2>1, <2>2, OwnersOf
    <3>2. /\ p \in Paths /\ f \in chainOf(f)
          /\ \A c : c \in chainOf(f) => onChain(c, v.chain[p])
      BY <2>1, <2>2, <3>1, OwnerChain
    <3>3. \A c : onChain(c, v.chain[p]) => c \in Clusters
      BY <2>1, <2>2, <3>2, RestFacts, OwnedIsUsed
    <3> QED
      BY <3>2, <3>3
  <2>4. ASSUME NEW f \in owners, NEW g \in owners, f # g
        PROVE  chainOf(f) \cap chainOf(g) = {}
    <3>1. PICK p \in owning(v) : f = v.chain[p][1]
      BY <2>1, <2>2, OwnersOf
    <3>2. PICK q \in owning(v) : g = v.chain[q][1]
      BY <2>1, <2>2, OwnersOf
    <3> QED
      BY <2>1, <2>2, <2>4, <3>1, <3>2, OneHead
  <2> QED
    BY <2>1, <2>2, <2>3, <2>4, CountOwners
<1>2. TreeInv => ChainsSound
  BY <1>1 DEF ChainsSound, entriesOwning
<1> QED
  BY <1>2, TreeKept, PTL

\* The size in a file's entry is the length of its chain in clusters, whatever
\* truncates, renames and crashes led there.
THEOREM SizesAreMatched == Spec => []SizesMatch
<1>1. ASSUME TreeInv, sound, NEW e \in tree, e.kind = "file"
      PROVE  Len(linked(table, e.first)) = clustersFor(e.size)
  <2>1. PICK v : rests(v)
    BY <1>1, SoundView
  <2>2. TypeInv
    BY <1>1 DEF TreeInv
  <2>3. PICK p \in nodes(v) : p # <<>> /\ e = entryOf(disk, v, p)
    BY <2>1, <2>2, TreeEntries
  <2> QED
    BY <1>1, <2>1, <2>2, <2>3, NodeEntry
<1>2. TreeInv => SizesMatch
  BY <1>1 DEF SizesMatch
<1> QED
  BY <1>2, TreeKept, PTL

\* No cluster is lost and none is used twice: what the table marks used is what
\* the chains of the tree hold.
THEOREM NothingIsLost == Spec => []NothingLost
<1>1. ASSUME TreeInv, sound
      PROVE  Clusters \ freeClusters(table) = UNION {chainOf(f) : f \in owners}
  <2>1. PICK v : rests(v)
    BY <1>1, SoundView
  <2>2. TypeInv
    BY <1>1 DEF TreeInv
  <2>3. ASSUME NEW c \in Clusters, table[c] # 0
        PROVE  \E f \in owners : c \in chainOf(f)
    <3>1. PICK p \in Paths : onChain(c, v.chain[p])
      BY <2>1, <2>3 DEF rests, Covers
    <3>2. v.chain[p] # <<>>
      BY <3>1 DEF onChain
    <3>3. p \in owning(v)
      BY <2>1, <2>2, <3>2, RestFacts DEF owning
    <3> QED
      BY <2>1, <2>2, <3>1, <3>3, OwnerChain, OwnersOf
  <2>4. ASSUME NEW f \in owners, NEW c \in chainOf(f)
        PROVE  c \in Clusters /\ table[c] # 0
    <3>1. PICK p \in owning(v) : f = v.chain[p][1]
      BY <2>1, <2>2, OwnersOf
    <3>2. p \in Paths /\ onChain(c, v.chain[p])
      BY <2>1, <2>2, <2>4, <3>1, OwnerChain
    <3> QED
      BY <2>1, <2>2, <3>2, RestFacts, OwnedIsUsed
  <2> QED
    BY <2>3, <2>4 DEF freeClusters
<1>2. TreeInv => NothingLost
  BY <1>1 DEF NothingLost
<1> QED
  BY <1>2, TreeKept, PTL

-----------------------------------------------------------------------------
(* What an operation leaves as it was.                                      *)

LEMMA SearchStep ==
    ASSUME NEW t \in Threads, MkSearch(t)
    PROVE  /\ pc[t] = "start" /\ op[t].kind \in {"create", "mkdir"} /\ op' = op
           /\ UNCHANGED <<phase, table, modified, diskTable, disk, damage>>
           /\ \E place : pc' = [pc EXCEPT ![t] = place]
           /\ \E r : reg' = [reg EXCEPT ![t] = r]
<1> DEFINE chain == linked(table, folder(parent(op[t].path)))
           open == {k \in DOMAIN chain : holes(disk[chain[k]]) # {}}
           k == Min(open)
           name == op[t].path[Len(op[t].path)]
           kind == IF op[t].kind = "mkdir" THEN "dir" ELSE "file"
           i == image(chain[k], Min(holes(disk[chain[k]])), slot(kind, name, 0, 0))
           place == IF open = {} THEN "link" ELSE IF kind = "dir" THEN "find" ELSE "place"
<1>1. /\ pc[t] = "start" /\ op[t].kind \in {"create", "mkdir"}
      /\ UNCHANGED <<phase, table, modified, diskTable, disk, damage>>
      /\ pc' = [pc EXCEPT ![t] = place] /\ op' = op
  BY DEF MkSearch, at, fatVars, goto
<1>2. CASE open = {}
  <2>1. reg' = [reg EXCEPT ![t].image.put = slot(kind, name, 0, 0)]
    BY <1>2 DEF MkSearch
  <2>2. reg' = [reg EXCEPT ![t] = [@ EXCEPT !.image.put = slot(kind, name, 0, 0)]]
    BY <2>1
  <2> QED
    BY <1>1, <2>2
<1>3. CASE open # {}
  <2>1. reg' = [reg EXCEPT ![t].image = i]
    BY <1>3 DEF MkSearch
  <2> HIDE DEF i
  <2>2. reg' = [reg EXCEPT ![t] = [@ EXCEPT !.image = i]]
    BY <2>1
  <2> QED
    BY <1>1, <2>2
<1> QED
  BY <1>2, <1>3

LEMMA OnlyWriters ==
    ASSUME NEW t \in Threads,
           \/ Begin(t) \/ MkSearch(t) \/ MkLink(t) \/ FindFree(t) \/ UseFree(t)
           \/ TruncateStart(t) \/ Shrink(t) \/ Extend(t) \/ Reread(t) \/ RemoveStart(t)
           \/ FreeOne(t) \/ RenameNothing(t) \/ RenameStart(t) \/ Save(t) \/ Die(t)
    PROVE  disk' = disk
<1>1. Begin(t) => disk' = disk
  BY DEF Begin
<1>2. MkSearch(t) => disk' = disk
  BY SearchStep
<1>3. MkLink(t) => disk' = disk
  BY DEF MkLink
<1>4. FindFree(t) => disk' = disk
  BY DEF FindFree
<1>5. UseFree(t) => disk' = disk
  BY DEF UseFree
<1>6. TruncateStart(t) => disk' = disk
  BY DEF TruncateStart
<1>7. Shrink(t) => disk' = disk
  BY DEF Shrink
<1>8. Extend(t) => disk' = disk
  BY DEF Extend
<1>9. Reread(t) => disk' = disk
  BY DEF Reread
<1>10. RemoveStart(t) => disk' = disk
  BY DEF RemoveStart
<1>11. FreeOne(t) => disk' = disk
  BY DEF FreeOne
<1>12. RenameNothing(t) => disk' = disk
  BY DEF RenameNothing
<1>13. RenameStart(t) => disk' = disk
  BY DEF RenameStart
<1>14. Save(t) => disk' = disk
  BY DEF Save
<1>15. Die(t) => disk' = disk
  BY DEF Die, Stop
<1> QED
  BY <1>1, <1>2, <1>3, <1>4, <1>5, <1>6, <1>7, <1>8,
     <1>9, <1>10, <1>11, <1>12, <1>13, <1>14, <1>15

writing(t) == MkDots(t) \/ Clear(t) \/ ClearTail(t) \/ Place(t) \/ PlaceTarget(t)

LEMMA Writers ==
    ASSUME [Next]_vars, disk' # disk
    PROVE  \E t \in Threads : writing(t)
<1>1. CASE Crash \/ Mount \/ UNCHANGED vars
  BY <1>1 DEF Crash, Stop, Mount, vars
<1>2. ASSUME NEW t \in Threads, ~ writing(t),
             \/ Begin(t) \/ MkSearch(t) \/ MkLink(t) \/ FindFree(t) \/ UseFree(t)
             \/ MkDots(t) \/ TruncateStart(t) \/ Shrink(t) \/ Clear(t) \/ Extend(t)
             \/ ClearTail(t) \/ Reread(t) \/ RemoveStart(t) \/ FreeOne(t)
             \/ RenameNothing(t) \/ RenameStart(t) \/ PlaceTarget(t) \/ Place(t)
             \/ Save(t) \/ Die(t)
      PROVE  FALSE
  BY <1>2, OnlyWriters DEF writing
<1> QED
  BY <1>1, <1>2 DEF Next

\* While nothing went wrong, a step that writes a cluster leads from every view to
\* one that follows it.
LEMMA WriteFollows ==
    ASSUME TreeInv, Dropping, NEW t \in Threads, writing(t), damage' = {}, NEW v, isViewed(v)
    PROVE  /\ \E w : isViewed(w)' /\ follows(t, v, w)
           /\ table' = table /\ diskTable' = diskTable /\ pc[t] # "idle"
<1>1. calm'
  BY DEF calm
<1>2. CASE MkDots(t)
  <2>1. table' = table /\ diskTable' = diskTable /\ pc[t] # "idle"
    BY <1>2 DEF MkDots, at, fatVars
  <2> QED
    BY <1>1, <1>2, <2>1, MkDotsView
<1>3. CASE Clear(t)
  <2>1. table' = table /\ diskTable' = diskTable /\ pc[t] # "idle"
    BY <1>3 DEF Clear, at, fatVars
  <2> QED
    BY <1>3, <2>1, ClearView
<1>4. CASE ClearTail(t)
  <2>1. table' = table /\ diskTable' = diskTable /\ pc[t] # "idle"
    BY <1>4 DEF ClearTail, at, fatVars
  <2> QED
    BY <1>4, <2>1, ClearTailView
<1>5. CASE Place(t)
  <2>1. table' = table /\ diskTable' = diskTable /\ pc[t] # "idle"
    BY <1>5 DEF Place, at, fatVars
  <2> QED
    BY <1>1, <1>5, <2>1, PlaceFollows
<1>6. CASE PlaceTarget(t)
  <2>1. table' = table /\ diskTable' = diskTable /\ pc[t] # "idle"
    BY <1>6 DEF PlaceTarget, at, fatVars
  <2> QED
    BY <1>1, <1>6, <2>1, TargetPlaces
<1> QED
  BY <1>2, <1>3, <1>4, <1>5, <1>6 DEF writing

\* Lookups of what the operation is not about find what they found.
LEMMA AnswerKept ==
    ASSUME TypeInv, TypeInv', NEW t \in Threads, NEW v, isViewed(v), NEW w, isViewed(w)',
           follows(t, v, w), NEW p \in Paths, p \notin subjects(op[t]),
           \A q \in prefixes(p) : q \notin v.doomed
    PROVE  entryAt(table', disk', p) = entryAt(table, disk, p)
<1>1. entryAt(table, disk, p) = answer(disk, v, p)
  BY ViewFacts, FindNode
<1>2. /\ ChainsOf(table', w) /\ NodesOf(w) /\ EntriesOf(disk', w) /\ NoOthers(disk', w)
      /\ Proper(table') /\ disk' \in Disks
  BY DEF isViewed, Sound, TypeInv, TypeOK, Disks
<1>3. \A q \in prefixes(p) : q \notin w.doomed
  BY DEF follows
<1>4. entryAt(table', disk', p) = answer(disk', w, p)
  BY <1>2, <1>3, FindNode
<1>5. p \in nodes(w) <=> p \in nodes(v)
  BY DEF follows, sameAt, nodes
<1>6. p \in nodes(v) /\ p # <<>> => hitOf(disk', w, p) = hitOf(disk, v, p)
  BY DEF follows, hitOf
<1> QED
  BY <1>1, <1>4, <1>5, <1>6 DEF answer

\* A prefix that is being removed is so by an operation under way.
LEMMA DoomedBy ==
    ASSUME NEW v, isViewed(v), NEW q \in v.doomed
    PROVE  \E u \in Threads : /\ op[u].kind \in {"unlink", "rmdir"} /\ op[u].path = q
                              /\ busy(pc[u], op[u]) /\ q \in removes(op[u])
<1>1. PICK u \in Threads :
          op[u].kind \in {"unlink", "rmdir"} /\ op[u].path = q /\ busy(pc[u], op[u])
  BY DEF isViewed, Sound, Holders, isBy
<1>2. q \in removes(op[u])
  BY <1>1 DEF removes
<1> QED
  BY <1>1, <1>2

\* The history only grows.
LEMMA HistoryGrows == ASSUME [Next]_vars PROVE damage \subseteq damage'
<1>1. ASSUME NEW t \in Threads
      PROVE  (\/ Begin(t) \/ MkSearch(t) \/ MkLink(t) \/ FindFree(t)
              \/ UseFree(t) \/ MkDots(t) \/ TruncateStart(t) \/ Shrink(t)
              \/ Clear(t) \/ Extend(t) \/ ClearTail(t) \/ Reread(t)
              \/ RemoveStart(t) \/ FreeOne(t) \/ RenameNothing(t)
              \/ RenameStart(t) \/ PlaceTarget(t) \/ Place(t) \/ Save(t)
              \/ Die(t)) => damage \subseteq damage'
  <2>1. Begin(t) => damage \subseteq damage'
    BY DEF Begin, because
  <2>2. MkSearch(t) => damage \subseteq damage'
    BY DEF MkSearch, because
  <2>3. MkLink(t) => damage \subseteq damage'
    BY DEF MkLink, because
  <2>4. FindFree(t) => damage \subseteq damage'
    BY DEF FindFree, because
  <2>5. UseFree(t) => damage \subseteq damage'
    BY DEF UseFree, because
  <2>6. MkDots(t) => damage \subseteq damage'
    BY DEF MkDots, because
  <2>7. TruncateStart(t) => damage \subseteq damage'
    BY DEF TruncateStart, because
  <2>8. Shrink(t) => damage \subseteq damage'
    BY DEF Shrink, because
  <2>9. Clear(t) => damage \subseteq damage'
    BY DEF Clear, because
  <2>10. Extend(t) => damage \subseteq damage'
    BY DEF Extend, because
  <2>11. ClearTail(t) => damage \subseteq damage'
    BY DEF ClearTail, because
  <2>12. Reread(t) => damage \subseteq damage'
    BY DEF Reread, because
  <2>13. RemoveStart(t) => damage \subseteq damage'
    BY DEF RemoveStart, because
  <2>14. FreeOne(t) => damage \subseteq damage'
    BY DEF FreeOne, because
  <2>15. RenameNothing(t) => damage \subseteq damage'
    BY DEF RenameNothing, because
  <2>16. RenameStart(t) => damage \subseteq damage'
    BY DEF RenameStart, because
  <2>17. PlaceTarget(t) => damage \subseteq damage'
    BY DEF PlaceTarget, because
  <2>18. Place(t) => damage \subseteq damage'
    BY DEF Place, because
  <2>19. Save(t) => damage \subseteq damage'
    BY DEF Save, because
  <2>20. Die(t) => damage \subseteq damage'
    BY DEF Die, Stop, because
  <2> QED
    BY <2>1, <2>2, <2>3, <2>4, <2>5, <2>6, <2>7, <2>8, <2>9, <2>10,
       <2>11, <2>12, <2>13, <2>14, <2>15, <2>16, <2>17, <2>18, <2>19, <2>20
<1>2. Crash \/ Mount \/ UNCHANGED vars => damage \subseteq damage'
  BY DEF Crash, Stop, Mount, vars, because
<1> QED
  BY <1>1, <1>2 DEF Next

\* An operation changes what the paths of its own find and nothing else, but for
\* what lies under a directory being removed: operations that write entries into
\* one cluster of a directory keep to their slots.
THEOREM OthersAreKept == Spec => OthersKept
<1>1. ASSUME TreeInv, Dropping, TreeInv', [Next]_vars, disk' # disk, damage' = {},
             NEW o \in Operations,
             entryAt(table, disk, o.path).entry # entryAt(table, disk', o.path).entry
      PROVE  \E t \in Threads : \/ pc[t] # pc'[t] /\ o.path \in {op[t].path, op[t].to}
                                \/ removes(op[t]) \cap prefixes(o.path) # {}
  <2> DEFINE p == o.path
  <2>1. p \in Paths
    BY FileSystemAssumption DEF Operations, Calls, Paths
  <2>2. PICK t \in Threads : writing(t)
    BY <1>1, Writers
  <2>3. PICK v : isViewed(v)
    BY <1>1, HistoryGrows, CalmBefore DEF TreeInv, calm
  <2>4. /\ TypeInv /\ TypeInv' /\ table' = table
        /\ \E w : isViewed(w)' /\ follows(t, v, w)
    BY <1>1, <2>2, <2>3, WriteFollows DEF TreeInv
  <2>5. pc[t] # pc'[t]
    <3>1. pc = [u \in Threads |-> pc[u]]
      BY <2>4, StateFacts
    <3> QED
      BY <2>2, <3>1 DEF writing, MkDots, Clear, ClearTail, Place, PlaceTarget, at, goto, afterPlace
  <2>6. CASE p \in subjects(op[t])
    BY <2>5, <2>6 DEF subjects
  <2>7. CASE \E q \in prefixes(p) : q \in v.doomed
    <3>1. PICK q \in prefixes(p) : q \in v.doomed
      BY <2>7
    <3> QED
      BY <2>3, <3>1, DoomedBy
  <2>8. CASE p \notin subjects(op[t]) /\ \A q \in prefixes(p) : q \notin v.doomed
    <3> HIDE DEF p
    <3>1. entryAt(table', disk', p) = entryAt(table, disk, p)
      BY <2>1, <2>3, <2>4, <2>8, AnswerKept
    <3> QED
      BY <1>1, <2>4, <3>1 DEF p
  <2> QED
    BY <2>6, <2>7, <2>8
<1>2. TreeInv /\ Dropping /\ TreeInv' /\ [Next]_vars =>
        [damage' = {} /\ phase' = "mounted" =>
           \A p \in {o.path : o \in Operations} :
             entryAt(table, disk, p).entry # entryAt(table, disk', p).entry =>
                 \E t \in Threads :
                    \/ pc[t] # pc'[t] /\ p \in {op[t].path, op[t].to}
                    \/ removes(op[t]) \cap prefixes(p) # {}]_disk
  BY <1>1
<1> QED
  BY <1>2, TreeKept, PTL DEF Spec, OthersKept

-----------------------------------------------------------------------------
(* What the device lacks of the table.                                      *)

\* FAT_write_table is still to come in the operation.
awaits(place, o, r) ==
    \/ o.kind = "truncate" /\ place \notin {"idle", "start"}
    \/ o.kind \in {"unlink", "rmdir"} /\ place \in {"free", "save"}
    \/ /\ o.kind \in {"create", "mkdir"}
       /\ place = "save" \/ (place \in {"find", "use", "dots", "place"} /\ r.count = 1)

\* The cluster that a mkdir has taken and that no entry names yet.
taken(place, o, r, c) == o.kind = "mkdir" /\ place \in {"dots", "place"} /\ r.free = c

\* Neither the path nor what it lies under is being removed.
kept(places, ops, p) ==
    \A u \in Threads : ops[u].kind \in {"unlink", "rmdir"} /\ busy(places[u], ops[u]) =>
                           ops[u].path \notin prefixes(p)

leadsTo(e, c) == e.kind = "dir" /\ e.first = c

\* The first cluster of a directory, found by a lookup or about to be.
tracked(tab, content, places, ops, regs, c) ==
    \/ \E t \in Threads : taken(places[t], ops[t], regs[t], c)
    \/ \E p \in Paths : /\ p # <<>> /\ kept(places, ops, p)
                        /\ leadsTo(entryAt(tab, content, p).entry, c)

\* When no FAT_write_table is to come, the device lacks first clusters only.
Unsaved ==
    damage = {} /\ (\A t \in Threads : ~ awaits(pc[t], op[t], reg[t])) =>
        \A c \in Entries : table[c] # diskTable[c] => tracked(table, disk, pc, op, reg, c)

\* What a node lies under is a directory.
LEMMA Above ==
    ASSUME NEW v, NodesOf(v), NEW p \in nodes(v), NEW q \in prefixes(p), q # p
    PROVE  q \in v.dirs
<1> DEFINE m == Len(p)
           S == {n \in 0 .. m : \A x \in nodes(v) : Len(x) = n =>
                                   \A y \in prefixes(x) : y # x => y \in v.dirs}
<1>1. \A x \in nodes(v) : x \in Paths /\ x \in Seq(Names) /\ Len(x) \in Nat
  BY DEF NodesOf, Paths
<1>2. m \in Nat
  BY <1>1
<1>3. 0 \in S
  <2>1. ASSUME NEW x \in nodes(v), Len(x) = 0 PROVE prefixes(x) = {}
    BY <2>1 DEF prefixes
  <2> QED
    BY <1>2, <2>1
<1>4. ASSUME NEW n \in 0 .. m - 1, n \in S PROVE n + 1 \in S
  <2>1. ASSUME NEW x \in nodes(v), Len(x) = n + 1, NEW y \in prefixes(x), y # x
        PROVE  y \in v.dirs
    <3>1. x # <<>>
      <4>1. Len(x) # 0
        BY <2>1, <1>2
      <4> QED
        BY <4>1
    <3>2. Len(parent(x)) = Len(x) - 1
      BY <1>1, <3>1, ParentType
    <3>3. parent(x) \in v.dirs /\ parent(x) \in nodes(v)
      BY <3>1 DEF NodesOf, nodes
    <3>4. y \in prefixes(parent(x))
      BY <1>1, <2>1, <3>1, PrefixFacts
    <3>5. Len(parent(x)) = n
      BY <1>2, <2>1, <3>2
    <3> QED
      BY <1>4, <3>3, <3>4, <3>5
  <2>2. n + 1 \in 0 .. m
    BY <1>2
  <2> QED
    BY <2>1, <2>2
<1>5. 0 .. m \subseteq S
  <2> HIDE DEF S, m
  <2> QED
    BY <1>2, <1>3, <1>4, UpTo
<1>6. m \in 0 .. m
  BY <1>2
<1> QED
  BY <1>5, <1>6

LEMMA DirsFound ==
    ASSUME NEW tab, Proper(tab), NEW content \in Disks, NEW places, NEW ops, NEW regs, NEW v,
           Sound(tab, content, places, ops, regs, v), NEW p \in Paths, p # <<>>
    PROVE  LET e == entryAt(tab, content, p).entry
           IN  /\ p \in v.dirs => kept(places, ops, p) /\ leadsTo(e, v.chain[p][1])
               /\ kept(places, ops, p) /\ e.kind = "dir" => p \in v.dirs
<1> DEFINE e == entryAt(tab, content, p).entry
<1>1. /\ ChainsOf(tab, v) /\ NodesOf(v) /\ EntriesOf(content, v) /\ NoOthers(content, v)
      /\ Holders(places, ops, v)
      /\ \A t \in Threads : Doing(places[t], ops[t], regs[t], content, v)
  BY DEF Sound
<1>2. ASSUME \A q \in prefixes(p) : q \notin v.doomed
      PROVE  /\ p \in v.dirs => leadsTo(e, v.chain[p][1])
             /\ e.kind = "dir" => p \in v.dirs
  <2>1. entryAt(tab, content, p) = answer(content, v, p)
    BY <1>1, <1>2, FindNode
  <2>2. p \notin v.doomed
    BY <1>2, PrefixFacts
  <2>3. CASE p \in nodes(v)
    <3>1. e = entryOf(content, v, p)
      BY <2>1, <2>3 DEF answer, hitOf
    <3> QED
      BY <1>1, <2>2, <2>3, <3>1 DEF EntriesOf, nodes, leadsTo
  <2>4. CASE p \notin nodes(v)
    <3>1. e = End
      BY <2>1, <2>4 DEF answer, NotFound
    <3> QED
      BY <2>4, <3>1 DEF End, slot, nodes
  <2> QED
    BY <2>3, <2>4
<1>3. ASSUME p \in v.dirs PROVE \A q \in prefixes(p) : q \notin v.doomed
  BY <1>1, <1>3, Above DEF NodesOf, nodes
<1>4. ASSUME p \in v.dirs PROVE kept(places, ops, p)
  <2>1. ASSUME NEW u \in Threads, ops[u].kind \in {"unlink", "rmdir"}, busy(places[u], ops[u])
        PROVE  ops[u].path \in v.doomed
    BY <1>1, <2>1 DEF Doing, Removing, busy
  <2> QED
    BY <1>3, <1>4, <2>1 DEF kept
<1>5. ASSUME kept(places, ops, p) PROVE \A q \in prefixes(p) : q \notin v.doomed
  BY <1>1, <1>5 DEF kept, Holders, isBy
<1> QED
  BY <1>2, <1>3, <1>4, <1>5

\* What a view says of the clusters that are tracked.
LEMMA ViewTracks ==
    ASSUME NEW tab, Proper(tab), NEW content \in Disks, NEW places, NEW ops, NEW regs, NEW v,
           Sound(tab, content, places, ops, regs, v), NEW c
    PROVE  tracked(tab, content, places, ops, regs, c) <=>
              \/ \E t \in Threads : taken(places[t], ops[t], regs[t], c)
              \/ \E p \in v.dirs : p # <<>> /\ v.chain[p][1] = c
<1>1. \A p \in v.dirs : p \in Paths
  BY DEF Sound, NodesOf, nodes
<1>2. ASSUME NEW p \in v.dirs, p # <<>>, v.chain[p][1] = c
      PROVE  tracked(tab, content, places, ops, regs, c)
  <2>1. p \in Paths
    BY <1>1
  <2>2. kept(places, ops, p) /\ leadsTo(entryAt(tab, content, p).entry, c)
    BY <1>2, <2>1, DirsFound
  <2> QED
    BY <1>2, <2>1, <2>2 DEF tracked
<1>3. ASSUME NEW p \in Paths, p # <<>>, kept(places, ops, p),
             leadsTo(entryAt(tab, content, p).entry, c)
      PROVE  p \in v.dirs /\ v.chain[p][1] = c
  <2>1. p \in v.dirs
    BY <1>3, DirsFound DEF leadsTo
  <2>2. leadsTo(entryAt(tab, content, p).entry, v.chain[p][1])
    BY <1>3, <2>1, DirsFound
  <2> QED
    BY <1>3, <2>1, <2>2 DEF leadsTo
<1> QED
  BY <1>2, <1>3 DEF tracked

\* A step of t leaves the other threads where they are.
others(t) ==
    \A u \in Threads : u # t => pc'[u] = pc[u] /\ op'[u] = op[u] /\ reg'[u] = reg[u]

LEMMA OthersStay ==
    ASSUME TypeInv, NEW t \in Threads,
           \/ Begin(t) \/ MkSearch(t) \/ MkLink(t) \/ FindFree(t) \/ UseFree(t)
           \/ MkDots(t) \/ TruncateStart(t) \/ Shrink(t) \/ Clear(t) \/ Extend(t)
           \/ ClearTail(t) \/ Reread(t) \/ RemoveStart(t) \/ FreeOne(t)
           \/ RenameNothing(t) \/ RenameStart(t) \/ PlaceTarget(t) \/ Place(t) \/ Save(t)
    PROVE  others(t)
<1>1. /\ reg = [u \in Threads |-> reg[u]] /\ pc = [u \in Threads |-> pc[u]]
      /\ op = [u \in Threads |-> op[u]]
  BY StateFacts
<1>2. Begin(t) => others(t)
  <2> SUFFICES ASSUME Begin(t) PROVE others(t)
    OBVIOUS
  <2>1. pc' = [pc EXCEPT ![t] = "start"] /\ reg' = reg
    BY DEF Begin
  <2>2. PICK o : op' = [op EXCEPT ![t] = o]
    BY DEF Begin
  <2> QED
    BY <1>1, <2>1, <2>2 DEF others
<1>3. MkSearch(t) => others(t)
  BY <1>1, SearchStep DEF others
<1>4. MkLink(t) => others(t)
  BY <1>1 DEF MkLink, goto, others
<1>5. FindFree(t) => others(t)
  BY <1>1 DEF FindFree, goto, others
<1>6. UseFree(t) => others(t)
  BY <1>1 DEF UseFree, goto, others
<1>7. MkDots(t) => others(t)
  BY <1>1 DEF MkDots, goto, others
<1>8. TruncateStart(t) => others(t)
  BY <1>1 DEF TruncateStart, goto, others
<1>9. Shrink(t) => others(t)
  BY <1>1 DEF Shrink, goto, others
<1>10. Clear(t) => others(t)
  BY <1>1 DEF Clear, goto, others
<1>11. Extend(t) => others(t)
  BY <1>1 DEF Extend, goto, others
<1>12. ClearTail(t) => others(t)
  BY <1>1 DEF ClearTail, goto, others
<1>13. Reread(t) => others(t)
  BY <1>1 DEF Reread, goto, others
<1>14. RemoveStart(t) => others(t)
  BY <1>1 DEF RemoveStart, goto, others
<1>15. FreeOne(t) => others(t)
  BY <1>1 DEF FreeOne, goto, others
<1>16. RenameNothing(t) => others(t)
  BY <1>1 DEF RenameNothing, goto, others
<1>17. RenameStart(t) => others(t)
  BY <1>1 DEF RenameStart, goto, others
<1>18. PlaceTarget(t) => others(t)
  BY <1>1 DEF PlaceTarget, goto, others
<1>19. Place(t) => others(t)
  BY <1>1 DEF Place, goto, others
<1>20. Save(t) => others(t)
  BY <1>1 DEF Save, goto, others
<1> QED
  BY <1>2, <1>3, <1>4, <1>5, <1>6, <1>7, <1>8, <1>9, <1>10, <1>11,
     <1>12, <1>13, <1>14, <1>15, <1>16, <1>17, <1>18, <1>19, <1>20


\* After a step that leaves its thread before a FAT_write_table nothing is claimed.
LEMMA AwaitStep ==
    ASSUME NEW t \in Threads, awaits(pc'[t], op'[t], reg'[t])
    PROVE  Unsaved'
  BY DEF Unsaved

\* A step that reads, or moves to another place.
LEMMA QuietStep ==
    ASSUME Unsaved, NEW t \in Threads, others(t), UNCHANGED <<table, disk, diskTable>>,
           damage \subseteq damage', \A c : ~ taken(pc[t], op[t], reg[t], c),
           awaits(pc[t], op[t], reg[t]) => awaits(pc'[t], op'[t], reg'[t]),
           ~ (op'[t].kind \in {"unlink", "rmdir"} /\ busy(pc'[t], op'[t]))
    PROVE  Unsaved'
<1> SUFFICES ASSUME damage' = {}, \A u \in Threads : ~ awaits(pc'[u], op'[u], reg'[u]),
                    NEW c \in Entries, table'[c] # diskTable'[c]
             PROVE  tracked(table', disk', pc', op', reg', c)
  BY DEF Unsaved
<1>1. damage = {} /\ \A u \in Threads : ~ awaits(pc[u], op[u], reg[u])
  BY DEF others
<1>2. tracked(table, disk, pc, op, reg, c)
  BY <1>1 DEF Unsaved
<1>3. ASSUME NEW u \in Threads, taken(pc[u], op[u], reg[u], c)
      PROVE  taken(pc'[u], op'[u], reg'[u], c)
  BY <1>3 DEF others
<1>4. ASSUME NEW p \in Paths, kept(pc, op, p)
      PROVE  kept(pc', op', p)
  BY <1>4 DEF others, kept
<1> QED
  BY <1>2, <1>3, <1>4 DEF tracked

\* A step that writes a cluster.
LEMMA WriteStep ==
    ASSUME TreeInv, TypeInv', Dropping, Unsaved, NEW t \in Threads, others(t), writing(t),
           awaits(pc[t], op[t], reg[t]) => awaits(pc'[t], op'[t], reg'[t]),
           \A c : taken(pc[t], op[t], reg[t], c) /\ pc[t] # "place" => taken(pc'[t], op'[t], reg'[t], c),
           damage \subseteq damage'
    PROVE  Unsaved'
<1> SUFFICES ASSUME damage' = {}, \A u \in Threads : ~ awaits(pc'[u], op'[u], reg'[u]),
                    NEW c \in Entries, table'[c] # diskTable'[c]
             PROVE  tracked(table', disk', pc', op', reg', c)
  BY DEF Unsaved
<1>1. damage = {} /\ \A u \in Threads : ~ awaits(pc[u], op[u], reg[u])
  BY DEF others
<1>2. TypeInv /\ \E v : isViewed(v)
  BY <1>1 DEF TreeInv, calm
<1>3. PICK v : isViewed(v)
  BY <1>2
<1>4. /\ table' = table /\ diskTable' = diskTable /\ pc[t] # "idle"
      /\ \E w : isViewed(w)' /\ follows(t, v, w)
  BY <1>3, WriteFollows
<1>5. PICK w : isViewed(w)' /\ follows(t, v, w)
  BY <1>4
<1>6. /\ Sound(table, disk, pc, op, reg, v) /\ Sound(table', disk', pc', op', reg', w)
      /\ Proper(table) /\ disk \in Disks /\ Proper(table') /\ disk' \in Disks
  BY <1>2, <1>3, <1>5 DEF isViewed, TypeInv, TypeOK, Disks
<1>7. tracked(table, disk, pc, op, reg, c)
  BY <1>1, <1>4 DEF Unsaved
<1>8. \/ \E u \in Threads : taken(pc[u], op[u], reg[u], c)
      \/ \E p \in v.dirs : p # <<>> /\ v.chain[p][1] = c
  BY <1>6, <1>7, ViewTracks
<1>9. ASSUME NEW p \in v.dirs, p # <<>>, v.chain[p][1] = c
      PROVE  p \in w.dirs /\ w.chain[p][1] = c
  BY <1>5, <1>9 DEF follows
<1>10. ASSUME taken(pc[t], op[t], reg[t], c), pc[t] = "place"
       PROVE  \E p \in w.dirs : p # <<>> /\ w.chain[p][1] = c
  <2>1. op[t].kind = "mkdir" /\ reg[t].free = c
    BY <1>10 DEF taken
  <2>2. Making("place", op[t], reg[t], disk, v)
    BY <1>6, <1>10, <2>1 DEF Sound, Doing
  <2>3. v.chain[op[t].path] = <<c>>
    BY <2>1, <2>2 DEF Making
  <2>4. op[t].path \in w.dirs /\ w.chain[op[t].path] = v.chain[op[t].path]
    BY <1>5, <1>10, <2>1 DEF follows
  <2>5. op[t].path # <<>>
    BY <1>2, <1>4, OwnPaths
  <2> QED
    BY <2>3, <2>4, <2>5
<1>11. ASSUME NEW u \in Threads, taken(pc[u], op[u], reg[u], c), u # t \/ pc[t] # "place"
       PROVE  taken(pc'[u], op'[u], reg'[u], c)
  BY <1>11 DEF others
<1>12. \/ \E u \in Threads : taken(pc'[u], op'[u], reg'[u], c)
       \/ \E p \in w.dirs : p # <<>> /\ w.chain[p][1] = c
  BY <1>8, <1>9, <1>10, <1>11
<1> QED
  BY <1>6, <1>12, ViewTracks

\* mkdir marks its cluster used; nothing else of the table changes.
LEMMA UseStepTracks ==
    ASSUME TreeInv, TypeInv', Unsaved, NEW t \in Threads, others(t), UseFree(t)
    PROVE  Unsaved'
<1>1. /\ pc[t] = "use" /\ disk' = disk /\ diskTable' = diskTable /\ op' = op
      /\ table' = setUsed(table, reg[t].free) /\ damage \subseteq damage'
      /\ reg[t].free # 0 /\ table[reg[t].free] # 0 => "race" \in damage'
      /\ TypeInv /\ pc = [u \in Threads |-> pc[u]]
      /\ pc' = [pc EXCEPT ![t] = IF op[t].kind = "mkdir" THEN "dots" ELSE "clear"]
  BY StateFacts DEF UseFree, at, goto, because, TreeInv
<1>2. op[t].kind \in {"mkdir", "truncate"} /\ reg[t] \in Regs /\ reg = [u \in Threads |-> reg[u]]
  BY <1>1, StateFacts DEF fits
<1>3. CASE op[t].kind = "truncate"
  <2>1. pc'[t] = "clear" /\ op'[t] = op[t]
    BY <1>1, <1>3
  <2>2. awaits(pc'[t], op'[t], reg'[t])
    BY <1>3, <2>1 DEF awaits
  <2> QED
    BY <2>2, AwaitStep
<1>4. CASE op[t].kind = "mkdir"
  <2>1. pc'[t] = "dots" /\ op'[t] = op[t]
    BY <1>1, <1>4
  <2>2. reg'[t].free = reg[t].free /\ reg'[t].count = reg[t].count
    <3>1. reg' = [reg EXCEPT ![t].image.put.first = reg[t].free]
      BY DEF UseFree
    <3>2. reg'[t] = [reg[t] EXCEPT !.image.put.first = reg[t].free]
      BY <1>2, <3>1
    <3> QED
      BY <1>2, <3>2, RegParts
  <2> SUFFICES ASSUME damage' = {}, \A u \in Threads : ~ awaits(pc'[u], op'[u], reg'[u]),
                      NEW c \in Entries, table'[c] # diskTable'[c]
               PROVE  tracked(table', disk', pc', op', reg', c)
    BY DEF Unsaved
  <2>3. awaits(pc[t], op[t], reg[t]) => awaits(pc'[t], op'[t], reg'[t])
    BY <1>1, <1>4, <2>1, <2>2 DEF awaits
  <2>4. damage = {} /\ \A u \in Threads : ~ awaits(pc[u], op[u], reg[u])
    BY <1>1, <2>3 DEF others
  <2>5. taken(pc'[t], op'[t], reg'[t], reg[t].free)
    BY <1>4, <2>1, <2>2 DEF taken
  <2>6. CASE c = reg[t].free
    BY <2>5, <2>6 DEF tracked
  <2>7. CASE c # reg[t].free
    <3>1. table'[c] = table[c]
      BY <1>1, <2>7 DEF setUsed, TypeInv, TypeOK, Tables
    <3>2. tracked(table, disk, pc, op, reg, c)
      BY <1>1, <2>4, <3>1 DEF Unsaved
    <3>3. PICK v : isViewed(v)
      BY <2>4 DEF TreeInv, calm
    <3>4. /\ ChainsOf(table, v) /\ NodesOf(v) /\ EntriesOf(disk, v) /\ NoOthers(disk, v)
          /\ Proper(table) /\ disk \in Disks /\ Doing("use", op[t], reg[t], disk, v)
          /\ Proper(table')
      BY <1>1, <3>3, ViewFacts DEF TypeInv
    <3>5. reg[t].free # 0
      BY <1>4, <3>4 DEF Doing, Making
    <3>6. table[reg[t].free] = 0 /\ reg[t].free \in Clusters
      BY <1>1, <1>2, <3>5, RegParts, LinkFacts
    <3>7. ChainsOf(table', v)
      <4>1. table'[0] = table[0] /\ \A x \in Entries : x # reg[t].free => table'[x] = table[x]
        BY <1>1, <3>5, FatAssumption DEF setUsed, TypeInv, TypeOK, Tables, Entries
      <4>2. ASSUME NEW p \in Paths, v.chain[p] # <<>>
            PROVE  isChain(v.chain[p], table')
        <5>1. isChain(v.chain[p], table)
          BY <3>4, <4>2 DEF ChainsOf
        <5>2. ASSUME NEW x \in Clusters, onChain(x, v.chain[p]) PROVE table'[x] = table[x]
          <6>1. x # reg[t].free /\ x \in Entries
            BY <3>4, <3>6, <5>2, OwnedIsUsed DEF Clusters, Entries
          <6> QED
            BY <4>1, <6>1
        <5> QED
          BY <5>1, <5>2, KeepChain
      <4> QED
        BY <3>4, <4>1, <4>2 DEF ChainsOf
    <3>8. ASSUME NEW p \in Paths, kept(pc, op, p)
          PROVE  kept(pc', op', p) /\ entryAt(table', disk', p) = entryAt(table, disk, p)
      <4>1. \A q \in prefixes(p) : q \notin v.doomed
        BY <3>3, <3>8, DoomedBy DEF kept
      <4>2. entryAt(table, disk, p) = answer(disk, v, p)
        BY <3>4, <4>1, FindNode
      <4>3. entryAt(table', disk, p) = answer(disk, v, p)
        BY <3>4, <3>7, <4>1, FindNode
      <4>4. kept(pc', op', p)
        BY <1>1, <1>4, <3>8 DEF kept, others
      <4> QED
        BY <1>1, <4>2, <4>3, <4>4
    <3>9. ASSUME NEW u \in Threads, taken(pc[u], op[u], reg[u], c)
          PROVE  taken(pc'[u], op'[u], reg'[u], c)
      BY <1>1, <3>9 DEF others, taken
    <3> QED
      BY <3>2, <3>8, <3>9 DEF tracked
  <2> QED
    BY <2>6, <2>7
<1> QED
  BY <1>2, <1>3, <1>4

\* A device that has all of the table.
LEMMA AllSaved == ASSUME \A c \in Entries : table'[c] = diskTable'[c] PROVE Unsaved'
  BY DEF Unsaved

LEMMA UnsavedQuiet ==
    ASSUME TypeInv, Unsaved, NEW t \in Threads, others(t),
           Begin(t) \/ MkSearch(t) \/ FindFree(t) \/ RenameNothing(t) \/ RenameStart(t)
    PROVE  Unsaved'
<1>0. /\ reg = [u \in Threads |-> reg[u]] /\ pc = [u \in Threads |-> pc[u]]
      /\ op = [u \in Threads |-> op[u]] /\ fits(pc[t], op[t]) /\ reg[t] \in Regs
  BY StateFacts
<1>1. /\ UNCHANGED <<table, disk, diskTable>> /\ damage \subseteq damage'
      /\ pc[t] \in {"idle", "start", "find"}
  <2>1. CASE Begin(t)
    BY <2>1 DEF Begin, fatVars
  <2>2. CASE MkSearch(t)
    BY <2>2, SearchStep
  <2>3. CASE FindFree(t)
    BY <2>3 DEF FindFree, at, fatVars, because
  <2>4. CASE RenameNothing(t)
    BY <2>4 DEF RenameNothing, at, fatVars
  <2>5. CASE RenameStart(t)
    BY <2>5 DEF RenameStart, at, fatVars, because
  <2> QED
    BY <2>1, <2>2, <2>3, <2>4, <2>5
<1>2. \A c : ~ taken(pc[t], op[t], reg[t], c)
  BY <1>1 DEF taken
<1>3. CASE Begin(t)
  <2>1. pc[t] = "idle" /\ pc'[t] = "start" /\ op[t] = None
    BY <1>0, <1>3 DEF Begin, fits
  <2> QED
    BY <1>1, <1>2, <2>1, QuietStep DEF awaits, busy, None
<1>4. CASE MkSearch(t)
  <2>1. pc[t] = "start" /\ op[t].kind \in {"create", "mkdir"} /\ op' = op
    BY <1>4, SearchStep
  <2> QED
    BY <1>1, <1>2, <2>1, QuietStep DEF awaits
<1>5. CASE FindFree(t)
  <2>1. pc[t] = "find" /\ pc'[t] = "use" /\ op' = op /\ op[t].kind \in {"mkdir", "truncate"}
    BY <1>0, <1>5 DEF FindFree, at, goto, fits
  <2>2. reg'[t].count = reg[t].count
    <3>1. reg'[t] = [reg[t] EXCEPT !.free = nextFree(table)]
      BY <1>0, <1>5 DEF FindFree
    <3> QED
      BY <1>0, <3>1, RegParts
  <2> QED
    BY <1>1, <1>2, <2>1, <2>2, QuietStep DEF awaits
<1>6. CASE RenameNothing(t) \/ RenameStart(t)
  <2>1. op[t].kind = "rename" /\ (op'[t] = op[t] \/ op'[t] = None)
    BY <1>0, <1>6 DEF RenameNothing, RenameStart, goto
  <2> QED
    BY <1>1, <1>2, <2>1, QuietStep DEF awaits, None
<1> QED
  BY <1>3, <1>4, <1>5, <1>6

LEMMA Removes ==
    ASSUME NEW t \in Threads, RemoveStart(t)
    PROVE  /\ op[t].kind \in {"unlink", "rmdir"}
           /\ goto(t, "save") \/ goto(t, "free")
<1> DEFINE clusters == linked(table, getFileEntry(op[t].path).entry.first)
<1>1. op[t].kind \in {"unlink", "rmdir"}
  BY DEF RemoveStart
<1>2. goto(t, IF clusters = <<>> THEN "save" ELSE "free")
  BY DEF RemoveStart
<1> QED
  BY <1>1, <1>2

LEMMA UnsavedAwaits ==
    ASSUME TypeInv, NEW t \in Threads,
           \/ MkLink(t) \/ TruncateStart(t) \/ Shrink(t) \/ Clear(t) \/ Extend(t)
           \/ ClearTail(t) \/ Reread(t) \/ RemoveStart(t) \/ FreeOne(t)
    PROVE  Unsaved'
<1>0. /\ reg = [u \in Threads |-> reg[u]] /\ pc = [u \in Threads |-> pc[u]]
      /\ fits(pc[t], op[t]) /\ reg[t] \in Regs
  BY StateFacts
<1>1. CASE MkLink(t)
  <2>1. /\ op' = op /\ op[t].kind \in {"create", "mkdir"} /\ pc'[t] \in {"find", "place"}
    BY <1>0, <1>1 DEF MkLink, at, goto, fits
  <2>2. reg'[t].count = 1
    <3> DEFINE i == image(nextFree(table), 1, reg[t].image.put)
    <3>1. reg' = [reg EXCEPT ![t] = [[reg[t] EXCEPT !.image = i] EXCEPT !.count = 1]]
      BY <1>1 DEF MkLink
    <3> HIDE DEF i
    <3>2. reg'[t] = [[reg[t] EXCEPT !.image = i] EXCEPT !.count = 1]
      BY <1>0, <3>1
    <3>3. reg[t] = [image |-> reg[t].image, target |-> reg[t].target, free |-> reg[t].free,
                    clusters |-> reg[t].clusters, count |-> reg[t].count]
      BY <1>0, RegParts
    <3> QED
      BY <3>2, <3>3
  <2> QED
    BY <2>1, <2>2, AwaitStep DEF awaits
<1>2. CASE TruncateStart(t) \/ Shrink(t) \/ Clear(t) \/ Extend(t) \/ ClearTail(t) \/ Reread(t)
  <2>1. op[t].kind = "truncate" /\ \E place \in Places \ {"idle", "start"} : goto(t, place)
    <3>1. CASE TruncateStart(t)
      BY <1>0, <3>1 DEF TruncateStart, at, fits, Places
    <3>2. CASE Shrink(t)
      BY <1>0, <3>2 DEF Shrink, at, fits, Places
    <3>3. CASE Clear(t)
      BY <1>0, <3>3 DEF Clear, at, fits, Places
    <3>4. CASE Extend(t)
      BY <1>0, <3>4 DEF Extend, at, fits, Places
    <3>5. CASE ClearTail(t)
      BY <1>0, <3>5 DEF ClearTail, at, fits, Places
    <3>6. CASE Reread(t)
      <4>1. pc[t] = "reread" /\ goto(t, "place")
        BY <3>6 DEF Reread, at
      <4> QED
        BY <1>0, <4>1 DEF fits, Places
    <3> QED
      BY <1>2, <3>1, <3>2, <3>3, <3>4, <3>5, <3>6
  <2>2. op' = op /\ pc'[t] \notin {"idle", "start"}
    BY <1>0, <2>1 DEF goto
  <2> QED
    BY <2>1, <2>2, AwaitStep DEF awaits
<1>3. CASE RemoveStart(t) \/ FreeOne(t)
  <2>1. op[t].kind \in {"unlink", "rmdir"} /\ \E place \in {"free", "save"} : goto(t, place)
    <3>1. CASE RemoveStart(t)
      <4>1. /\ op[t].kind \in {"unlink", "rmdir"}
            /\ goto(t, "save") \/ goto(t, "free")
        BY <3>1, Removes
      <4> QED
        BY <4>1
    <3>2. CASE FreeOne(t)
      BY <1>0, <3>2 DEF FreeOne, at, fits
    <3> QED
      BY <1>3, <3>1, <3>2
  <2>2. op' = op /\ pc'[t] \in {"free", "save"}
    BY <1>0, <2>1 DEF goto
  <2> QED
    BY <2>1, <2>2, AwaitStep DEF awaits
<1> QED
  BY <1>1, <1>2, <1>3

LEMMA UnsavedWrites ==
    ASSUME TreeInv, TypeInv', Dropping, Unsaved, NEW t \in Threads, others(t),
           MkDots(t) \/ Place(t) \/ PlaceTarget(t)
    PROVE  Unsaved'
<1>0. /\ reg = [u \in Threads |-> reg[u]] /\ pc = [u \in Threads |-> pc[u]]
      /\ op = [u \in Threads |-> op[u]] /\ fits(pc[t], op[t]) /\ TypeInv
  BY StateFacts DEF TreeInv
<1>1. writing(t) /\ damage \subseteq damage'
  BY DEF writing, MkDots, Place, PlaceTarget, because
<1>2. CASE MkDots(t)
  <2>1. pc[t] = "dots" /\ pc'[t] = "place" /\ op' = op /\ reg' = reg /\ op[t].kind = "mkdir"
    BY <1>0, <1>2 DEF MkDots, at, goto, fits
  <2> QED
    BY <1>1, <2>1, WriteStep DEF awaits, taken
<1>3. CASE Place(t)
  <2>1. pc[t] = "place" /\ pc'[t] = afterPlace(t)
    BY <1>0, <1>3 DEF Place, at, goto
  <2>2. op[t].kind \in {"create", "mkdir", "truncate", "unlink", "rmdir", "rename"}
    BY <1>0, <2>1, OwnPaths
  <2>3. awaits(pc[t], op[t], reg[t]) => awaits(pc'[t], op'[t], reg'[t])
    <3>1. ASSUME awaits(pc[t], op[t], reg[t]) PROVE afterPlace(t) = "save" /\ op[t].kind \notin {"unlink", "rmdir", "rename"}
      BY <2>1, <2>2, <3>1 DEF awaits, afterPlace
    <3>2. ASSUME afterPlace(t) = "save" PROVE op' = op
      BY <1>3, <3>2 DEF Place, goto
    <3> QED
      BY <2>1, <2>2, <3>1, <3>2 DEF awaits
  <2> QED
    BY <1>1, <2>1, <2>3, WriteStep
<1>4. CASE PlaceTarget(t)
  <2>1. pc[t] = "target" /\ op[t].kind = "rename"
    BY <1>0, <1>4 DEF PlaceTarget, at, fits
  <2> QED
    BY <1>1, <2>1, WriteStep DEF awaits, taken
<1> QED
  BY <1>2, <1>3, <1>4

LEMMA UnsavedSame ==
    ASSUME Unsaved, UNCHANGED <<table, diskTable, disk, pc, op, reg, damage>> PROVE Unsaved'
  BY DEF Unsaved

LEMMA UnsavedNext ==
    TreeInv /\ Dropping /\ MarkInv /\ Unsaved /\ TypeInv' /\ [Next]_vars => Unsaved'
<1> SUFFICES ASSUME TreeInv, Dropping, MarkInv, Unsaved, TypeInv', [Next]_vars PROVE Unsaved'
  OBVIOUS
<1>1. TypeInv
  BY DEF TreeInv
<1>2. ASSUME NEW t \in Threads,
             \/ Begin(t) \/ MkSearch(t) \/ MkLink(t) \/ FindFree(t) \/ UseFree(t)
             \/ MkDots(t) \/ TruncateStart(t) \/ Shrink(t) \/ Clear(t) \/ Extend(t)
             \/ ClearTail(t) \/ Reread(t) \/ RemoveStart(t) \/ FreeOne(t)
             \/ RenameNothing(t) \/ RenameStart(t) \/ PlaceTarget(t) \/ Place(t)
      PROVE  Unsaved'
  <2>1. others(t)
    BY <1>1, <1>2, OthersStay
  <2> QED
    BY <1>1, <1>2, <2>1, UnsavedQuiet, UnsavedAwaits, UseStepTracks, UnsavedWrites
<1>3. ASSUME NEW t \in Threads, Save(t) PROVE Unsaved'
  <2>1. \A c \in Entries : table'[c] = diskTable'[c]
    BY <1>3 DEF Save, written, MarkInv, MarksComplete
  <2> QED
    BY <2>1, AllSaved
<1>4. ASSUME Crash \/ \E t \in Threads : Die(t) PROVE Unsaved'
  <2>1. \A c \in Entries : table'[c] = diskTable'[c]
    BY <1>4 DEF Crash, Die, Stop
  <2> QED
    BY <2>1, AllSaved
<1>5. CASE Mount \/ UNCHANGED vars
  BY <1>5, UnsavedSame DEF Mount, vars, fatVars
<1> QED
  BY <1>2, <1>3, <1>4, <1>5 DEF Next

LEMMA UnsavedInit == Init => Unsaved
  BY DEF Init, Unsaved

\* FAT_write_table runs at the end of every operation that changes the table but
\* mkdir: between operations, what the device lacks is the cluster of a directory
\* of the tree.
THEOREM OnlyMkdirIsUnsaved == Spec => []OnlyMkdirUnsaved
<1>1. ASSUME TreeInv, Unsaved, sound, NEW c \in Entries, table[c] # diskTable[c]
      PROVE  \E e \in tree : e.kind = "dir" /\ e.first = c
  <2>1. PICK v : rests(v)
    BY <1>1, SoundView
  <2>2. TypeInv /\ damage = {} /\ \A t \in Threads : pc[t] = "idle"
    BY <1>1 DEF TreeInv, sound
  <2>3. \A t \in Threads : op[t] = None
    BY <2>2, StateFacts DEF fits
  <2>4. \A t \in Threads : ~ awaits(pc[t], op[t], reg[t]) /\ ~ taken(pc[t], op[t], reg[t], c)
    BY <2>2, <2>3 DEF awaits, taken, None
  <2>5. tracked(table, disk, pc, op, reg, c)
    BY <1>1, <2>2, <2>4 DEF Unsaved
  <2>6. Sound(table, disk, pc, op, reg, v) /\ Proper(table) /\ disk \in Disks
    BY <2>1, <2>2, StateFacts DEF rests, isViewed
  <2>7. PICK p \in v.dirs : p # <<>> /\ v.chain[p][1] = c
    BY <2>4, <2>5, <2>6, ViewTracks
  <2>8. p \in nodes(v) /\ entryOf(disk, v, p) \in tree
    BY <2>1, <2>2, <2>7, TreeEntries DEF nodes
  <2>9. entryOf(disk, v, p).kind = "dir" /\ entryOf(disk, v, p).first = v.chain[p][1]
    BY <2>6, <2>7 DEF Sound, EntriesOf
  <2> QED
    BY <2>7, <2>8, <2>9
<1>2. TreeInv /\ Unsaved => OnlyMkdirUnsaved
  BY <1>1 DEF OnlyMkdirUnsaved
<1>3. TreeInv /\ Dropping /\ MarkInv /\ Unsaved /\ TreeInv' /\ [Next]_vars => Unsaved'
  BY UnsavedNext DEF TreeInv
<1> QED
  BY <1>2, <1>3, UnsavedInit, InitInv, NextInv, TreeKept, PTL DEF Spec
=============================================================================
