-------------------------------- MODULE Fat ---------------------------------
(***************************************************************************)
(* The file allocation table of PFS (PFS/src/tad_fat.c): a function from   *)
(* cluster numbers to the cluster that follows, 0 for a free cluster, or   *)
(* an end mark.  Entry 0 holds the media descriptor, whose value is also   *)
(* in the range of the end marks, and entry 1 the end mark PFS writes.     *)
(* Every operation of the code is one critical section of fat.mutex, and   *)
(* so is one operator here: it gives the table after the operation.        *)
(***************************************************************************)
EXTENDS Integers, Sequences, FiniteSets, FiniteSetsExt

CONSTANTS
    Size,             \* fat.size: entries of the table
    EntriesPerSector

ASSUME FatAssumption ==
    /\ Size \in Nat /\ Size > 2
    /\ EntriesPerSector \in Nat \ {0}

Media == Size          \* the end mark of entry 0: 0x0FFFFFF8
EOC   == Size + 1      \* the end mark of entry 1: 0x0FFFFFFF

Entries  == 0 .. Size - 1
Clusters == 2 .. Size - 1
Tables   == [Entries -> 0 .. Size + 1]

isEOC(n) == n \in {Media, EOC}

\* FAT_searchSectorByPointer
sectorOf(c) == c \div EntriesPerSector
Sectors == {sectorOf(c) : c \in Entries}

\* The clusters met from c on until an end mark, at most Size of them.
walk(table, c) ==
    LET from[n \in 0 .. Size] ==
            [d \in Entries |-> IF n = 0 \/ isEOC(table[d]) THEN <<d>>
                              ELSE <<d>> \o from[n - 1][table[d]]]
    IN  from[Size][c]

lastOf(s) == s[Len(s)]

\* Mutant of linked: cluster 0 is taken for the start of a chain.
linkedFromAny(table, first) ==
    IF table[first] = 0 THEN <<>> ELSE walk(table, first)

\* FAT_get_linked_clusters
linked(table, first) ==
    IF first \in {0, 1} \/ table[first] = 0 THEN <<>> ELSE walk(table, first)

\* FAT_get_last_linked
lastLinked(table, first) ==
    IF isEOC(first) THEN EOC ELSE lastOf(walk(table, first))

\* FAT_get_next_linked
nextLinked(table, c) == IF isEOC(c) THEN EOC ELSE table[c]

\* FAT_get_free_clusters
freeClusters(table) == {c \in Clusters : table[c] = 0}

\* FAT_get_next_free_cluster: 0 when there is none.
nextFree(table) ==
    IF freeClusters(table) = {} THEN 0 ELSE Min(freeClusters(table))

\* Mutant of setUsed: the entry gets a value beyond the end marks.
setBeyond(table, c) == [table EXCEPT ![c] = EOC + 1]

\* FAT_set_used_cluster
setUsed(table, c) == [table EXCEPT ![c] = EOC]

\* FAT_set_free_cluster
setFree(table, c) == [table EXCEPT ![c] = 0]

\* Mutant of linkFree: the new cluster does not get its end mark.
linkUnended(table, first) ==
    [table EXCEPT ![lastOf(walk(table, first))] = nextFree(table)]

\* FAT_link_free_cluster when there is a free cluster, nextFree(table).
linkFree(table, first) ==
    [table EXCEPT ![lastOf(walk(table, first))] = nextFree(table),
                  ![nextFree(table)] = EOC]

\* Mutant of removeLast: the cluster before the removed one still leads to it.
removeOnly(table, first) == [table EXCEPT ![lastOf(walk(table, first))] = 0]

\* FAT_remove_last_linked_cluster
removeLast(table, first) ==
    LET chain == walk(table, first)
    IN  IF Len(chain) = 1 THEN [table EXCEPT ![lastOf(chain)] = 0]
        ELSE [table EXCEPT ![lastOf(chain)] = 0, ![chain[Len(chain) - 1]] = EOC]

\* What FAT_remove_last_linked_cluster returns: 0 for the only cluster.
removed(table, first) ==
    IF isEOC(table[first]) THEN 0 ELSE lastOf(walk(table, first))

\* The sectors an operation marks as modified: those of the entries it assigns.
touched(cs) == {sectorOf(c) : c \in cs}
=============================================================================
