----------------------------- MODULE FileSystem -----------------------------
(***************************************************************************)
(* The operations of PFS that change the directory tree: create, mkdir,    *)
(* truncate, unlink, rmdir and rename (PFS/src/pfs.c, pfs_fat32.c,         *)
(* tad_direntry.c), run by several FUSE threads over one allocation table  *)
(* in memory (Fat) and the clusters of the device, with the process dying  *)
(* and being started again at any moment.                                  *)
(*                                                                         *)
(* One step is one critical section of fat.mutex, or one read or write of  *)
(* a cluster (the device performs it as a whole: a cluster of one sector); *)
(* the reads that resolve a path are one step.  A directory cluster is a   *)
(* sequence of SlotCount slots, each standing for the pair of 32-byte      *)
(* entries (long name, short entry) that PFS writes, or for "." and "..";  *)
(* the bytes of a cluster are counted in slots, so a file cluster has      *)
(* SlotCount of them.                                                      *)
(***************************************************************************)
EXTENDS Fat

CONSTANTS
    Threads,
    Names,
    OperationsOf, \* what each thread is asked for: [kind, path, to, size]
    Leftovers,    \* what an earlier use of the device left in free clusters
    SlotCount,
    SignedChar,   \* whether plain char is signed, as it is on x86
    MaxDamage     \* no call starts once this many causes of damage occurred

VARIABLES
    phase,      \* "mounted", "down", or "failed": FAT_read_table's assertion
    table,      \* fat.table
    modified,   \* sectors of it with the mark
    diskTable,  \* the table on the device
    disk,       \* the clusters on the device; 0 is the tail of the second FAT
    pc, op,     \* where each thread is, in which operation
    reg,        \* its local variables
    damage      \* history: the known ways of losing consistency that happened

vars == <<phase, table, modified, diskTable, disk, pc, op, reg, damage>>
fatVars == <<table, modified>>

Operations == UNION {OperationsOf[t] : t \in Threads}

NoName == "-"
slot(kind, name, first, size) ==
    [kind |-> kind, name |-> name, first |-> first, size |-> size]

End     == slot("end", NoName, 0, 0)
Deleted == slot("deleted", NoName, 0, 0)
Dots    == slot("dots", NoName, 0, 0)
Zeros   == [i \in 1 .. SlotCount |-> End]

\* Cluster 1 is no cluster, and no entry of a directory names it.
Slots == [kind : {"end", "deleted", "dots", "file", "dir"}, name : Names \cup {NoName},
          first : Entries \ {1}, size : Nat]
Contents == [1 .. SlotCount -> Slots]

Calls ==
    {o \in [kind : {"create", "mkdir", "truncate", "unlink", "rmdir", "rename"},
            path : Seq(Names), to : Seq(Names), size : Nat] :
       o.path # <<>> /\ (o.kind = "rename" => o.to # <<>>)}

ASSUME FileSystemAssumption ==
    /\ SlotCount \in Nat \ {0}
    /\ OperationsOf \in [Threads -> SUBSET Calls]
    /\ DOMAIN Leftovers \subseteq Clusters \ {2}
    /\ \A c \in DOMAIN Leftovers : Leftovers[c] \in Contents

None == [kind |-> "none", path |-> <<>>, to |-> <<>>, size |-> 0]

\* A cluster in memory: its number, its content when it was read, the slot that
\* changes and what goes into it.  Slot 0 changes nothing.
image(cluster, place, put) ==
    [cluster |-> cluster, slot |-> place, put |-> put,
     seen |-> IF cluster = 0 THEN Zeros ELSE disk[cluster]]

\* Mutant of changed: the offset of the entry is left out.
changedFirst(i) == [j \in 1 .. SlotCount |-> IF j = 1 THEN i.put ELSE i.seen[j]]

changed(i) == [j \in 1 .. SlotCount |-> IF j = i.slot THEN i.put ELSE i.seen[j]]

NoReg == [image |-> image(0, 0, End), target |-> image(0, 0, End), free |-> 0,
          clusters |-> <<>>, count |-> 0]

-----------------------------------------------------------------------------
(* Reading directories.                                                    *)

\* DIRTABLE_interpretFromCluster: the entries before the first end mark.
interpret(content) ==
    {i \in 1 .. SlotCount : /\ content[i].kind \in {"file", "dir"}
                            /\ \A j \in 1 .. i : content[j].kind # "end"}

\* fat32_getFileEntry's loop over a directory: the first entry with the name.
NotFound == [cluster |-> 0, slot |-> 0, entry |-> End]
entryIn(tab, content, first, name) ==
    LET chain == linked(tab, first)
        named == {p \in (DOMAIN chain) \X (1 .. SlotCount) :
                    /\ content[chain[p[1]]][p[2]].name = name
                    /\ p[2] \in interpret(content[chain[p[1]]])}
        p == CHOOSE p \in named :
                \A q \in named : p[1] * SlotCount + p[2] <= q[1] * SlotCount + q[2]
    IN  IF named = {} THEN NotFound
        ELSE [cluster |-> chain[p[1]], slot |-> p[2],
              entry |-> content[chain[p[1]]][p[2]]]

\* fat32_readDirectory and fat32_getFileEntry along a path: only directories
\* are entered, and the entry of the root is nowhere.
Root == [cluster |-> 0, slot |-> 0, entry |-> slot("dir", NoName, 2, 0)]
parent(path) == SubSeq(path, 1, Len(path) - 1)
entryAt(tab, content, path) ==
    LET found[n \in 0 .. Len(path)] ==
            IF n = 0 THEN Root
            ELSE IF found[n - 1].entry.kind # "dir" THEN NotFound
            ELSE entryIn(tab, content, found[n - 1].entry.first, path[n])
    IN  found[Len(path)]

getFileEntry(path) == entryAt(table, disk, path)
exists(path) == getFileEntry(path).cluster # 0

\* The first cluster of a directory, by its path.
folder(path) == getFileEntry(path).entry.first

\* The slots the code takes for unused ones: a char that is signed never
\* equals 0xE5, so then only the end mark counts (pfs_fat32.c:263, pfs.c:469).
isHole(s) == s.kind = "end" \/ (s.kind = "deleted" /\ ~SignedChar)
holes(content) == {i \in 1 .. SlotCount : isHole(content[i])}

\* A cluster that becomes part of a directory shows entries from what it held
\* before, or will when the end marks before them are overwritten.
showsOld(content) == \E i \in 1 .. SlotCount : content[i].kind \in {"file", "dir"}

clustersFor(size) == (size + SlotCount - 1) \div SlotCount

-----------------------------------------------------------------------------
(* What the kernel and libfuse admit together (external): an operation     *)
(* that changes a directory has it to itself, one that changes a file's    *)
(* size has the file, and no path is used while it is removed or renamed.  *)

inodes(o) ==
    CASE o.kind \in {"create", "mkdir"} -> {parent(o.path)}
      [] o.kind = "truncate" -> {o.path}
      [] o.kind \in {"unlink", "rmdir"} -> {parent(o.path), o.path}
      [] o.kind = "rename" -> {parent(o.path), parent(o.to), o.to}
      [] OTHER -> {}

removes(o) ==
    CASE o.kind \in {"unlink", "rmdir"} -> {o.path}
      [] o.kind = "rename" -> {o.path, o.to}
      [] OTHER -> {}

prefixes(path) == {SubSeq(path, 1, n) : n \in 1 .. Len(path)}
excludes(o, q) ==
    \/ inodes(o) \cap inodes(q) # {}
    \/ removes(o) \cap (prefixes(q.path) \cup prefixes(q.to)) # {}
    \/ removes(q) \cap (prefixes(o.path) \cup prefixes(o.to)) # {}

\* What the kernel looks up (fuselage_getattr) before it passes a call on.
admitted(o) ==
    LET kind == getFileEntry(o.path).entry.kind
        isDir(path) == getFileEntry(path).entry.kind = "dir"
    IN  /\ isDir(parent(o.path))
        /\ CASE o.kind \in {"create", "mkdir"} -> ~exists(o.path)
             [] o.kind \in {"truncate", "unlink"} -> kind = "file"
             [] o.kind = "rmdir" -> kind = "dir"
             [] o.kind = "rename" -> kind = "file" /\ isDir(parent(o.to))

Begin(t) ==
    /\ phase = "mounted" /\ pc[t] = "idle"
    /\ Cardinality(damage) <= MaxDamage
    /\ \E o \in OperationsOf[t] :
        /\ admitted(o)
        /\ \A u \in Threads : ~excludes(o, op[u])
        /\ op' = [op EXCEPT ![t] = o]
        /\ pc' = [pc EXCEPT ![t] = "start"]
    /\ UNCHANGED <<phase, fatVars, diskTable, disk, reg, damage>>

\* The end of a step: the thread goes on at a place, or its operation is over.
goto(t, place) ==
    /\ pc' = [pc EXCEPT ![t] = place]
    /\ op' = IF place = "idle" THEN [op EXCEPT ![t] = None] ELSE op

at(t, place) == phase = "mounted" /\ pc[t] = place
because(cause, condition) == damage' = damage \cup (IF condition THEN {cause} ELSE {})

-----------------------------------------------------------------------------
(* create and mkdir: fat32_mk.                                             *)

\* The search for a hole in the clusters of the directory, in their order; the
\* cluster that has it stays in memory until it is written back.
MkSearch(t) ==
    /\ at(t, "start") /\ op[t].kind \in {"create", "mkdir"}
    /\ parent(op[t].path) = <<>> \/ exists(parent(op[t].path))
    /\ LET chain == linked(table, folder(parent(op[t].path)))
           open == {k \in DOMAIN chain : holes(disk[chain[k]]) # {}}
           k == Min(open)
           name == op[t].path[Len(op[t].path)]
           kind == IF op[t].kind = "mkdir" THEN "dir" ELSE "file"
       IN  IF open = {}
           THEN /\ reg' = [reg EXCEPT ![t].image.put = slot(kind, name, 0, 0)]
                /\ goto(t, "link")
           ELSE /\ reg' = [reg EXCEPT ![t].image =
                             image(chain[k], Min(holes(disk[chain[k]])),
                                   slot(kind, name, 0, 0))]
                /\ goto(t, IF kind = "dir" THEN "find" ELSE "place")
    /\ UNCHANGED <<phase, fatVars, diskTable, disk, damage>>

\* A full directory gets another cluster, which is not cleared.
MkLink(t) ==
    /\ at(t, "link") /\ freeClusters(table) # {}
    /\ LET first == folder(parent(op[t].path))
           c == nextFree(table)
       IN  /\ table' = linkFree(table, first)
           /\ modified' = modified \cup touched({lastOf(walk(table, first)), c})
           /\ reg' = [reg EXCEPT ![t].image = image(c, 1, @.put), ![t].count = 1]
           /\ because("stale", showsOld(disk[c]))
    /\ goto(t, IF op[t].kind = "mkdir" THEN "find" ELSE "place")
    /\ UNCHANGED <<phase, diskTable, disk>>

\* FAT_get_next_free_cluster and FAT_set_used_cluster, two critical sections.
FindFree(t) ==
    /\ at(t, "find")
    /\ reg' = [reg EXCEPT ![t].free = nextFree(table)]
    /\ because("full", nextFree(table) = 0)
    /\ goto(t, "use")
    /\ UNCHANGED <<phase, fatVars, diskTable, disk>>

UseFree(t) ==
    /\ at(t, "use")
    /\ table' = setUsed(table, reg[t].free)
    /\ modified' = modified \cup touched({reg[t].free})
    /\ because("race", reg[t].free # 0 /\ table[reg[t].free] # 0)
    /\ reg' = [reg EXCEPT ![t].image.put.first = reg[t].free]
    /\ goto(t, IF op[t].kind = "mkdir" THEN "dots" ELSE "clear")
    /\ UNCHANGED <<phase, diskTable, disk>>

\* "." and ".." over whatever the cluster held.
MkDots(t) ==
    /\ at(t, "dots")
    /\ disk' = [disk EXCEPT ![reg[t].free][1] = Dots]
    /\ because("stale", showsOld([disk[reg[t].free] EXCEPT ![1] = Dots]))
    /\ goto(t, "place")
    /\ UNCHANGED <<phase, fatVars, diskTable, reg>>

-----------------------------------------------------------------------------
(* truncate: fat32_truncate.                                               *)

TruncateStart(t) ==
    /\ at(t, "start") /\ op[t].kind = "truncate"
    /\ exists(op[t].path)
    /\ LET e == getFileEntry(op[t].path)
           actual == clustersFor(e.entry.size)
           needed == clustersFor(op[t].size)
       IN  /\ reg' = [reg EXCEPT ![t].image = image(e.cluster, e.slot, e.entry),
                                 ![t].count = IF needed < actual THEN actual - needed
                                              ELSE needed - actual]
           /\ goto(t, IF needed < actual THEN "shrink"
                      ELSE IF needed = actual THEN
                              IF e.entry.size > op[t].size THEN "tail" ELSE "reread"
                      ELSE IF actual = 0 THEN "find" ELSE "extend")
    /\ UNCHANGED <<phase, fatVars, diskTable, disk, damage>>

\* One turn of the loop that removes clusters; the entry loses its first
\* cluster when the last call says 0.
Shrink(t) ==
    /\ at(t, "shrink")
    /\ LET first == reg[t].image.put.first
           chain == walk(table, first)
       IN  /\ table' = removeLast(table, first)
           /\ modified' = modified \cup touched({lastOf(chain),
                                 chain[IF Len(chain) = 1 THEN 1 ELSE Len(chain) - 1]})
           /\ reg' = [reg EXCEPT ![t].count = @ - 1,
                        ![t].image.put.first = IF reg[t].count = 1 /\ removed(table, first) = 0
                                         THEN 0 ELSE @]
           /\ goto(t, IF reg[t].count = 1 THEN "reread" ELSE "shrink")
    /\ UNCHANGED <<phase, diskTable, disk, damage>>

\* A new data cluster is cleared; then the next one, or the entry.
Clear(t) ==
    /\ at(t, "clear")
    /\ disk' = [disk EXCEPT ![reg[t].free] = Zeros]
    /\ reg' = [reg EXCEPT ![t].count = @ - 1]
    /\ goto(t, IF reg[t].count = 1 THEN "reread" ELSE "extend")
    /\ UNCHANGED <<phase, fatVars, diskTable, damage>>

\* Mutant of Extend: only the sector of the new cluster is marked.
ExtendHalfMarked(t) ==
    /\ at(t, "extend") /\ freeClusters(table) # {}
    /\ LET first == reg[t].image.put.first
           c == nextFree(table)
       IN  /\ table' = linkFree(table, first)
           /\ modified' = modified \cup touched({c})
           /\ reg' = [reg EXCEPT ![t].free = c]
    /\ goto(t, "clear")
    /\ UNCHANGED <<phase, diskTable, disk, damage>>

Extend(t) ==
    /\ at(t, "extend") /\ freeClusters(table) # {}
    /\ LET first == reg[t].image.put.first
           c == nextFree(table)
       IN  /\ table' = linkFree(table, first)
           /\ modified' = modified \cup touched({lastOf(walk(table, first)), c})
           /\ reg' = [reg EXCEPT ![t].free = c]
    /\ goto(t, "clear")
    /\ UNCHANGED <<phase, diskTable, disk, damage>>

\* The same clusters but fewer bytes: what lies beyond the new size is cleared.
ClearTail(t) ==
    /\ at(t, "tail")
    /\ LET c == lastLinked(table, reg[t].image.put.first)
       IN  disk' = [disk EXCEPT ![c] =
                      [i \in 1 .. SlotCount |->
                         IF i > op[t].size % SlotCount THEN End ELSE @[i]]]
    /\ goto(t, "reread")
    /\ UNCHANGED <<phase, fatVars, diskTable, reg, damage>>

\* The directory cluster is read again before the entry goes into it.
Reread(t) ==
    /\ at(t, "reread")
    /\ reg' = [reg EXCEPT ![t].image.seen = disk[reg[t].image.cluster],
                          ![t].image.put.size = op[t].size]
    /\ goto(t, "place")
    /\ UNCHANGED <<phase, fatVars, diskTable, disk, damage>>

-----------------------------------------------------------------------------
(* unlink and rmdir: fat32_remove.  A directory need not be empty.         *)

RemoveStart(t) ==
    /\ at(t, "start") /\ op[t].kind \in {"unlink", "rmdir"}
    /\ exists(op[t].path)
    /\ LET e == getFileEntry(op[t].path)
           clusters == linked(table, e.entry.first)
       IN  /\ reg' = [reg EXCEPT ![t].image = image(e.cluster, e.slot, Deleted),
                                 ![t].clusters = clusters]
           /\ because("orphans", /\ e.entry.kind = "dir"
                                 /\ \E k \in DOMAIN clusters :
                                        interpret(disk[clusters[k]]) # {})
           /\ goto(t, IF clusters = <<>> THEN "save" ELSE "free")
    /\ UNCHANGED <<phase, fatVars, diskTable, disk>>

\* Mutant of FreeOne: only the first cluster of the chain is freed.
FreeFirst(t) ==
    /\ at(t, "free")
    /\ table' = setFree(table, Head(reg[t].clusters))
    /\ modified' = modified \cup touched({Head(reg[t].clusters)})
    /\ reg' = [reg EXCEPT ![t].clusters = <<>>]
    /\ goto(t, "save")
    /\ UNCHANGED <<phase, diskTable, disk, damage>>

FreeOne(t) ==
    /\ at(t, "free")
    /\ table' = setFree(table, Head(reg[t].clusters))
    /\ modified' = modified \cup touched({Head(reg[t].clusters)})
    /\ reg' = [reg EXCEPT ![t].clusters = Tail(@)]
    /\ goto(t, IF Len(reg[t].clusters) = 1 THEN "save" ELSE "free")
    /\ UNCHANGED <<phase, diskTable, disk, damage>>

-----------------------------------------------------------------------------
(* rename: fuselage_rename.                                                *)

\* Onto an existing name it does nothing and reports success.
RenameNothing(t) ==
    /\ at(t, "start") /\ op[t].kind = "rename"
    /\ exists(op[t].to)
    /\ goto(t, "idle")
    /\ UNCHANGED <<phase, fatVars, diskTable, disk, reg, damage>>

sameFolder(o) == parent(o.path) = parent(o.to)

\* Within a directory the entry changes its name in place; to another one, the
\* entry is deleted here and put into the first hole of the target's first
\* cluster, or nowhere.
RenameStart(t) ==
    /\ at(t, "start") /\ op[t].kind = "rename"
    /\ ~exists(op[t].to) /\ exists(op[t].path)
    /\ sameFolder(op[t]) \/ exists(parent(op[t].to))
    /\ LET e == getFileEntry(op[t].path)
           renamed == [e.entry EXCEPT !.name = op[t].to[Len(op[t].to)]]
           c == folder(parent(op[t].to))
           free == holes(disk[c])
       IN  IF sameFolder(op[t])
           THEN /\ reg' = [reg EXCEPT ![t].image = image(e.cluster, e.slot, renamed)]
                /\ UNCHANGED damage
           ELSE /\ reg' = [reg EXCEPT
                             ![t].image = image(e.cluster, e.slot, Deleted),
                             ![t].target = image(c, IF free = {} THEN 0 ELSE Min(free),
                                                 renamed)]
                /\ because("dropped", free = {})
    /\ goto(t, "place")
    /\ UNCHANGED <<phase, fatVars, diskTable, disk>>

PlaceTarget(t) ==
    /\ at(t, "target")
    /\ disk' = [disk EXCEPT ![reg[t].target.cluster] = changed(reg[t].target)]
    /\ because("stalecopy", disk[reg[t].target.cluster] # reg[t].target.seen)
    /\ reg' = [reg EXCEPT ![t] = NoReg]
    /\ goto(t, "idle")
    /\ UNCHANGED <<phase, fatVars, diskTable>>

-----------------------------------------------------------------------------
(* What the operations share.                                              *)

\* Mutant of afterPlace: truncate ends without saving the table.
afterPlaceUnsaved(t) ==
    IF op[t].kind = "rename" /\ ~sameFolder(op[t]) THEN "target"
    ELSE IF op[t].kind \in {"create", "mkdir"} /\ reg[t].count = 1 THEN "save"
    ELSE "idle"

\* The directory cluster goes back to the device, as it was read but for one
\* slot.  unlink saves the table before this, truncate after it, create and
\* mkdir only when they linked a cluster to the directory.
afterPlace(t) ==
    CASE op[t].kind = "truncate" -> "save"
      [] op[t].kind = "rename" /\ ~sameFolder(op[t]) -> "target"
      [] op[t].kind \in {"create", "mkdir"} /\ reg[t].count = 1 -> "save"
      [] OTHER -> "idle"

Place(t) ==
    /\ at(t, "place")
    /\ disk' = [disk EXCEPT ![reg[t].image.cluster] = changed(reg[t].image)]
    /\ because("stalecopy", disk[reg[t].image.cluster] # reg[t].image.seen)
    /\ reg' = IF afterPlace(t) = "idle" THEN [reg EXCEPT ![t] = NoReg] ELSE reg
    /\ goto(t, afterPlace(t))
    /\ UNCHANGED <<phase, fatVars, diskTable>>

\* FAT_write_table: the marked sectors, under fat.mutex.
written(sectors) ==
    [c \in Entries |-> IF sectorOf(c) \in sectors THEN table[c] ELSE diskTable[c]]

Save(t) ==
    /\ at(t, "save")
    /\ diskTable' = written(modified)
    /\ modified' = {}
    /\ reg' = IF op[t].kind \in {"unlink", "rmdir"} THEN reg
              ELSE [reg EXCEPT ![t] = NoReg]
    /\ goto(t, IF op[t].kind \in {"unlink", "rmdir"} THEN "place" ELSE "idle")
    /\ UNCHANGED <<phase, table, disk, damage>>

-----------------------------------------------------------------------------
(* The process dies and is started again.                                  *)

\* What is in memory is gone; the end of PFS saves nothing either.
Stop ==
    /\ phase' = "down"
    /\ table' = diskTable /\ modified' = {}
    /\ pc' = [t \in Threads |-> "idle"]
    /\ op' = [t \in Threads |-> None]
    /\ reg' = [t \in Threads |-> NoReg]
    /\ because("unsaved", table # diskTable \/ \E t \in Threads : pc[t] \notin {"idle", "start"})
    /\ UNCHANGED <<diskTable, disk>>

\* An entry or a directory that is not there is a NULL the code reads through,
\* and so is the sector of a cluster beyond the table: a full disk.
dies(t) ==
    \/ /\ pc[t] = "start"
       /\ CASE op[t].kind \in {"create", "mkdir"} ->
                    parent(op[t].path) # <<>> /\ ~exists(parent(op[t].path))
            [] op[t].kind \in {"truncate", "unlink", "rmdir"} -> ~exists(op[t].path)
            [] op[t].kind = "rename" ->
                    /\ ~exists(op[t].to)
                    /\ \/ ~exists(op[t].path)
                       \/ ~sameFolder(op[t]) /\ ~exists(parent(op[t].to))
    \/ pc[t] \in {"link", "extend"} /\ freeClusters(table) = {}

Crash == phase = "mounted" /\ Stop
Die(t) == phase = "mounted" /\ pc[t] # "idle" /\ dies(t) /\ Stop

\* FAT_read_table, with its assertion on the media descriptor.
Mount ==
    /\ phase = "down"
    /\ phase' = IF diskTable[0] = Media THEN "mounted" ELSE "failed"
    /\ UNCHANGED <<fatVars, diskTable, disk, pc, op, reg, damage>>

-----------------------------------------------------------------------------
\* A formatted device: the root directory alone.  Formatting clears the table
\* and the root, not the free clusters.
Init ==
    /\ phase = "mounted"
    /\ table = [c \in Entries |-> IF c = 0 THEN Media ELSE IF c <= 2 THEN EOC ELSE 0]
    /\ modified = {}
    /\ diskTable = table
    /\ disk = [c \in Clusters \cup {0} |->
                 IF c \in DOMAIN Leftovers THEN Leftovers[c] ELSE Zeros]
    /\ pc = [t \in Threads |-> "idle"]
    /\ op = [t \in Threads |-> None]
    /\ reg = [t \in Threads |-> NoReg]
    /\ damage = {}

Next ==
    \/ \E t \in Threads :
        \/ Begin(t) \/ MkSearch(t) \/ MkLink(t) \/ FindFree(t) \/ UseFree(t)
        \/ MkDots(t) \/ TruncateStart(t) \/ Shrink(t) \/ Clear(t) \/ Extend(t)
        \/ ClearTail(t) \/ Reread(t) \/ RemoveStart(t) \/ FreeOne(t)
        \/ RenameNothing(t) \/ RenameStart(t) \/ PlaceTarget(t) \/ Place(t)
        \/ Save(t) \/ Die(t)
    \/ Crash \/ Mount

Spec == Init /\ [][Next]_vars

-----------------------------------------------------------------------------
Places == {"idle", "start", "link", "find", "use", "dots", "shrink", "clear", "extend",
           "tail", "reread", "free", "save", "place", "target"}

Causes == {"race", "stalecopy", "stale", "full", "orphans", "dropped", "unsaved"}

Images == [cluster : Entries \ {1}, slot : 0 .. SlotCount, put : Slots, seen : Contents]

Regs == [image : Images, target : Images, free : Entries \ {1},
         clusters : Seq(Entries \ {1}), count : Nat]

\* The variables have the values the code can give them; above all, no entry of
\* the table ever leaves the table.
TypeOK ==
    /\ phase \in {"mounted", "down", "failed"}
    /\ table \in Tables /\ diskTable \in Tables
    /\ modified \subseteq Sectors
    /\ disk \in [Clusters \cup {0} -> Contents]
    /\ pc \in [Threads -> Places]
    /\ op \in [Threads -> Operations \cup {None}]
    /\ reg \in [Threads -> Regs]
    /\ damage \subseteq Causes

\* The entries a directory shows, by its first cluster.
entriesOf(first) ==
    UNION {{disk[c][i] : i \in interpret(disk[c])} :
           c \in {linked(table, first)[k] : k \in DOMAIN linked(table, first)}}

\* The first clusters of the directories that can be reached: no smaller set has
\* the root and with a directory those it shows.
directories ==
    LET closed == {D \in SUBSET Clusters :
                     /\ 2 \in D
                     /\ \A f \in D : \A e \in entriesOf(f) : e.kind = "dir" => e.first \in D}
    IN  {f \in Clusters : \A D \in closed : f \in D}

\* The entries of the tree, at whatever depth.
tree == UNION {entriesOf(f) : f \in directories}

owners == {2} \cup {e.first : e \in {f \in tree : f.kind = "dir" \/ f.size > 0}}
chainOf(first) == {linked(table, first)[k] : k \in DOMAIN linked(table, first)}

\* No operation is under way and none of the known mishaps happened.
sound == phase = "mounted" /\ damage = {} /\ \A t \in Threads : pc[t] = "idle"

\* The chain of every file and directory ends at an end mark without meeting a
\* free cluster or another chain, and each entry owns a chain of its own.
ChainsSound ==
    sound =>
        /\ \A f \in owners : chainOf(f) # {} /\ chainOf(f) \subseteq Clusters
        /\ \A f, g \in owners : f # g => chainOf(f) \cap chainOf(g) = {}
        /\ Cardinality(owners) =
              1 + Cardinality({e \in tree : e.kind = "dir" \/ e.size > 0})

\* The size in a file's entry and the length of its chain agree, whatever the
\* sequence of truncates that led there.
SizesMatch ==
    sound =>
        \A e \in tree : e.kind = "file" =>
            Len(linked(table, e.first)) = clustersFor(e.size)

\* A cluster is marked used exactly when the tree reaches it.
NothingLost ==
    sound => Clusters \ freeClusters(table) = UNION {chainOf(f) : f \in owners}

\* Every entry of the table that differs from the device's lies in a marked
\* sector, in every state: FAT_write_table writes all that changed.
MarksComplete ==
    \A c \in Entries : table[c] # diskTable[c] => sectorOf(c) \in modified

\* Between operations the device lacks nothing of the table but the cluster
\* of directories: mkdir ends without FAT_write_table (pfs_fat32.c:289).
OnlyMkdirUnsaved ==
    sound =>
        \A c \in Entries : table[c] # diskTable[c] =>
            \E e \in tree : e.kind = "dir" /\ e.first = c

\* The media descriptor of the table, which the next start asserts
\* (tad_fat.c:166), is overwritten only once the device was full or an earlier
\* mishap left a chain that runs into a free cluster; a directory removed with
\* entries in it, or a dropped one, does no such harm.
MediaKept == damage \subseteq {"orphans", "dropped"} => table[0] = Media

\* A write to a cluster changes what the paths of its own operation name and no
\* other entry, but for what lies under a directory that is being removed: two
\* operations that share a directory cluster keep to their slots.
OthersKept ==
    [][damage' = {} /\ phase' = "mounted" =>
         \A p \in {o.path : o \in Operations} :
             entryAt(table, disk, p).entry # entryAt(table, disk', p).entry =>
                 \E t \in Threads :
                    \/ pc[t] # pc'[t] /\ p \in {op[t].path, op[t].to}
                    \/ removes(op[t]) \cap prefixes(p) # {}]_disk
=============================================================================
