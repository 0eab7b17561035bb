------------------------------ MODULE OpenFile ------------------------------
(***************************************************************************)
(* Reading and writing one file of PFS: the record that opened_files keeps *)
(* for its path (PFS/src/tad_file.c) with the cache of its clusters        *)
(* (file_cache.c), and open, read, write, flush, release and truncate over *)
(* them (pfs.c), called by several FUSE threads.                           *)
(*                                                                         *)
(* A cluster holds one value and counts as one byte: the kernel hands      *)
(* reads and writes over page by page, and a page is a cluster.  The lists *)
(* have no lock: a call of CACHE_* or QUEUE_takeNode on the cache is one   *)
(* step, and what else comes out when it overlaps another thread's is a    *)
(* step of its own (Overlap, Die); OFILE_get is its search and its append. *)
(* fat32_truncate, which FileSystem takes apart, is one step here: the     *)
(* kernel has the file locked against other writes and truncates.          *)
(***************************************************************************)
EXTENDS Fat

CONSTANTS
    Threads,
    None,
    Values,       \* contents a user writes; 0 is a cleared cluster
    MaxSize,      \* clusters of the file
    InitialSize,
    CacheSizes,   \* blocks a cache may have: cache_size_inBytes / 4096
    MaxAge,       \* seconds after which the age of a block is not told apart
    MaxDamage     \* no call starts once this many causes of damage occurred

\* open_count below zero stands for the uint32_t that wrapped.
Records == [first : Entries, size : 0 .. MaxSize, open_count : Int]

\* A file of MaxSize clusters fits the device beside the root's cluster: what
\* happens when the device is full is in FileSystem.
ASSUME CacheAssumption ==
    /\ CacheSizes \subseteq Nat /\ MaxAge \in Nat
    /\ MaxSize \in Nat /\ InitialSize \in 0 .. MaxSize /\ MaxSize + 3 <= Size
    /\ IsFiniteSet(Threads) /\ None \notin Threads \cup Records

VARIABLES
    alive,        \* the process has not died
    max_blocks,
    table, disk,  \* fat.table and the clusters on the device
    entry,        \* the directory entry on the device: first, size
    record,       \* the first opened_file_t of the path: first, size, open_count;
                  \* None before there is one
    cache,        \* its blocks in the order of the list
    write_mutex,  \* its holder
    pc, op, reg,  \* the threads: place, call and local variables
    expected,     \* history: what the users' writes leave in each cluster
    damage        \* history: the known ways of losing a write that happened

fileVars   == <<table, disk, entry>>
vars == <<alive, max_blocks, fileVars, record, cache, write_mutex, pc, op, reg,
          expected, damage>>

Blocks == [cluster_no : 0 .. EOC, data : Values \cup {0}, modified : BOOLEAN,
           age : 0 .. MaxAge]

block(c, data, mod) == [cluster_no |-> c, data |-> data, modified |-> mod, age |-> 0]

Call(kind, k, value) == [kind |-> kind, offset |-> k, value |-> value]
NoCall == Call("none", 0, 0)
\* cluster: the one being handled; data: its content; index: the block that
\* holds it, 0 once that is freed; out: the blocks that left the cache and must
\* be written; entry: what fat32_getFileEntry found.
NoReg == [cluster |-> 0, data |-> 0, index |-> 0, out |-> <<>>,
          entry |-> [first |-> 0, size |-> 0]]

chain == linked(table, entry.first)
because(cause, condition) == damage' = damage \cup (IF condition THEN {cause} ELSE {})

\* Mutant of cached: the search stops before the last block.
cachedButLast(c) == {i \in 1 .. Len(cache) - 1 : cache[i].cluster_no = c}

\* The position of the first block of a cluster in the cache, if it has one.
cached(c) == {i \in DOMAIN cache : /\ cache[i].cluster_no = c
                                   /\ \A j \in 1 .. i - 1 : cache[j].cluster_no # c}

fresh(b) == [b EXCEPT !.age = 0]

\* A file of InitialSize clusters, one after another, behind the root's.
Init ==
    /\ alive = TRUE
    /\ max_blocks \in CacheSizes
    /\ table = [c \in Entries |->
                  IF c = 0 THEN Media ELSE IF c <= 2 THEN EOC
                  ELSE IF c < InitialSize + 2 THEN c + 1
                  ELSE IF c = InitialSize + 2 THEN EOC ELSE 0]
    /\ disk = [c \in 0 .. EOC |-> 0]
    /\ entry = [first |-> IF InitialSize = 0 THEN 0 ELSE 3, size |-> InitialSize]
    /\ record = None
    /\ cache = <<>>
    /\ write_mutex = None
    /\ pc = [t \in Threads |-> "closed"]
    /\ op = [t \in Threads |-> NoCall]
    /\ reg = [t \in Threads |-> NoReg]
    /\ expected = [k \in 0 .. MaxSize - 1 |-> 0]
    /\ damage = {}

at(t, place) == alive /\ pc[t] = place
goto(t, place) ==
    /\ pc' = [pc EXCEPT ![t] = place]
    /\ op' = IF place \in {"open", "closed"} THEN [op EXCEPT ![t] = NoCall] ELSE op

\* Mutant of resizedRecord: the record keeps its size.
keptRecord(size) == record

\* fuselage_truncate and fuselage_write: the record takes over the new size.
resizedRecord(size) == [record EXCEPT !.size = size]

\* The kernel lets one write or truncate of a file in at a time.
alone == \A u \in Threads : op[u].kind \notin {"write", "truncate"}

\* open_count++ of an open takes the count of another away, or loses its own,
\* when both load it before either stores; so does the decrement of a release.
mayMiscount(t) == \E u \in Threads \ {t} : pc[u] \in {"closed", "release"}

Open(t) ==
    /\ at(t, "closed") /\ record # None
    /\ Cardinality(damage) <= MaxDamage
    /\ \/ record' = [record EXCEPT !.open_count = @ + 1] /\ UNCHANGED damage
       \/ mayMiscount(t) /\ UNCHANGED record /\ damage' = damage \cup {"miscounted"}
    /\ goto(t, "open")
    /\ UNCHANGED <<alive, max_blocks, fileVars, cache, write_mutex, reg, expected>>

\* OFILE_get for a path that has no record, in the first open or in a truncate
\* by path: the entry is read from the device.
GetEntry(t) ==
    /\ at(t, "closed") /\ record = None
    /\ Cardinality(damage) <= MaxDamage
    /\ \E kind \in {"open", "truncate"}, k \in 0 .. MaxSize :
        /\ kind = "open" => k = 0
        /\ kind = "truncate" => alone
        /\ op' = [op EXCEPT ![t] = Call(kind, k, 0)]
    /\ reg' = [reg EXCEPT ![t].entry = entry]
    /\ pc' = [pc EXCEPT ![t] = "addRecord"]
    /\ UNCHANGED <<alive, max_blocks, fileVars, record, cache, write_mutex, expected, damage>>

\* Mutant of OFILE_add_new: the open that makes the record is not counted.
uncounted(e, count) == [first |-> e.first, size |-> e.size, open_count |-> 0]

\* The new record, once the call has counted itself.
OFILE_add_new(e, count) == [first |-> e.first, size |-> e.size, open_count |-> count]

\* OFILE_get appends its record: no search reaches it when another thread has
\* appended one first, but this call works on its own.
AddRecord(t) ==
    LET opens == op[t].kind = "open"
    IN  /\ at(t, "addRecord")
        /\ record' = IF record = None
                     THEN OFILE_add_new(reg[t].entry, IF opens THEN 1 ELSE 0) ELSE record
        /\ because("twoRecords", record # None)
        /\ goto(t, IF opens THEN "open"
                   ELSE IF record = None THEN "truncatePath" ELSE "truncateAside")
        /\ reg' = [reg EXCEPT ![t] = NoReg]
        /\ UNCHANGED <<alive, max_blocks, fileVars, cache, write_mutex, expected>>

\* A truncate by path of a file this thread has not opened.
BeginTruncatePath(t) ==
    /\ at(t, "closed") /\ record # None /\ alone
    /\ Cardinality(damage) <= MaxDamage
    /\ \E k \in 0 .. MaxSize : op' = [op EXCEPT ![t] = Call("truncate", k, 0)]
    /\ pc' = [pc EXCEPT ![t] = "truncatePath"]
    /\ UNCHANGED <<alive, max_blocks, fileVars, record, cache, write_mutex, reg,
                   expected, damage>>

\* A call on the open file.
Begin(t) ==
    /\ at(t, "open")
    /\ Cardinality(damage) <= MaxDamage
    /\ \E kind \in {"read", "write", "truncate", "close"}, k \in 0 .. MaxSize,
          v \in Values \cup {0} :
        /\ kind # "write" => v = 0
        /\ kind = "write" => v # 0 /\ k < MaxSize /\ k <= entry.size
        /\ kind = "read" => k < entry.size
        /\ kind = "close" => k = 0
        /\ kind \in {"write", "truncate"} => alone
        /\ op' = [op EXCEPT ![t] = Call(kind, k, v)]
        /\ pc' = [pc EXCEPT ![t] = IF kind = "close" THEN "flush" ELSE kind]
    /\ UNCHANGED <<alive, max_blocks, fileVars, record, cache, write_mutex, reg,
                   expected, damage>>

-----------------------------------------------------------------------------
(* fat32_truncate, and what it means for the record and the cache.         *)

\* A cluster taken for the file: the first one is found and marked, the others
\* are linked to the chain.
grown(tab, first) == IF first = 0 THEN setUsed(tab, nextFree(tab)) ELSE linkFree(tab, first)

\* The table and the first cluster after n more turns of a truncate's loop.
resized(size) ==
    LET after[n \in 0 .. MaxSize] ==
            IF n = 0 THEN [tab |-> table, first |-> entry.first]
            ELSE LET b == after[n - 1]
                 IN  IF size > entry.size
                     THEN [tab |-> grown(b.tab, b.first),
                           first |-> IF b.first = 0 THEN nextFree(b.tab) ELSE b.first]
                     ELSE [tab |-> removeLast(b.tab, b.first),
                           first |-> IF removed(b.tab, b.first) = 0 THEN 0 ELSE b.first]
    IN  after[IF size > entry.size THEN size - entry.size ELSE entry.size - size]

added(tab) == {c \in Clusters : table[c] = 0 /\ tab[c] # 0}

\* The cache keeps the blocks of clusters that the file loses and gets back.
fat32_truncate(size) ==
    LET new == resized(size)
    IN  /\ table' = new.tab
        /\ entry' = [first |-> new.first, size |-> size]
        /\ disk' = [c \in DOMAIN disk |-> IF c \in added(new.tab) THEN 0 ELSE disk[c]]
        /\ expected' = [k \in DOMAIN expected |->
                            IF k >= size \/ k >= entry.size THEN 0 ELSE expected[k]]
        /\ because("oldBlock",
              \E c \in added(new.tab) :
                  \/ cached(c) # {}
                  \/ \E t \in Threads : \E i \in DOMAIN reg[t].out :
                        reg[t].out[i].cluster_no = c)

\* The record takes over the size, not the first cluster; the one a search finds
\* keeps its size when the call works on another.
Truncate(t) ==
    /\ alive /\ pc[t] \in {"truncate", "truncatePath", "truncateAside"}
    /\ fat32_truncate(op[t].offset)
    /\ record' = IF pc[t] = "truncateAside" THEN record ELSE resizedRecord(op[t].offset)
    /\ goto(t, IF pc[t] = "truncate" THEN "open" ELSE "closed")
    /\ UNCHANGED <<alive, max_blocks, cache, write_mutex, reg>>

-----------------------------------------------------------------------------
(* The cache.                                                              *)

\* CACHE_getLRU: the first of the blocks unused for longest, or none when all
\* were used in this second.
CACHE_getLRU ==
    {i \in DOMAIN cache :
        /\ cache[i].age > 0
        /\ \A j \in DOMAIN cache : /\ cache[j].age <= cache[i].age
                                   /\ j < i => cache[j].age < cache[i].age}

\* A read brings in what the device held before a newer write.
overtaken(t) ==
    /\ op[t].kind = "read"
    /\ \/ reg[t].data # disk[reg[t].cluster]
       \/ \E i \in cached(reg[t].cluster) : cache[i].data # reg[t].data

\* A cluster comes into the cache while an older block of it is on its way to
\* the device: the reader saw the device too early, and the old block may land
\* after the new one.
crossing(t) ==
    \E u \in Threads : \E i \in DOMAIN reg[u].out : reg[u].out[i].cluster_no = reg[t].cluster

\* A block is thrown away that is newer than the device but has no mark.
dropped(b) == ~b.modified /\ b.data # disk[b.cluster_no]

\* CACHE_write_block for reg's cluster and data.  A cluster the cache does not
\* have comes in without the modified mark, also when a write brings it; the
\* block it replaces is handed out when it has the mark.
CACHE_write_block(t) ==
    LET r == reg[t]
        has == cached(r.cluster)
        victim == CHOOSE i \in CACHE_getLRU : TRUE
    IN  IF max_blocks = 0
        THEN UNCHANGED <<cache, reg, damage>>
        ELSE /\ cache' =
                  IF has # {}
                  THEN [i \in DOMAIN cache |->
                          IF i \in has THEN block(r.cluster, r.data, TRUE) ELSE cache[i]]
                  ELSE IF Len(cache) # max_blocks
                  THEN Append(cache, block(r.cluster, r.data, FALSE))
                  ELSE [cache EXCEPT ![victim] = block(r.cluster, r.data, FALSE)]
             /\ LET replaced == has = {} /\ Len(cache) = max_blocks
                IN  /\ reg' = [reg EXCEPT ![t].out =
                                  IF replaced /\ cache[victim].modified
                                  THEN <<cache[victim]>> ELSE <<>>]
                    /\ damage' = damage \cup
                          {cause \in {"overtaken", "crossing", "unmarked"} :
                              CASE cause = "overtaken" -> overtaken(t)
                                [] cause = "crossing"  -> crossing(t)
                                [] cause = "unmarked"  -> replaced /\ dropped(cache[victim])}

\* A full cache without a block to replace: selected_block is NULL.
noVictim(t) ==
    /\ max_blocks # 0 /\ cached(reg[t].cluster) = {}
    /\ Len(cache) = max_blocks /\ CACHE_getLRU = {}

\* The k-th cluster from the first one of the record on.
clusterAt(k) ==
    LET from[n \in 0 .. k] == IF n = 0 THEN record.first ELSE nextLinked(table, from[n - 1])
    IN  from[k]

strays(k) == k + 1 \notin DOMAIN chain \/ clusterAt(k) # chain[k + 1]

-----------------------------------------------------------------------------
(* read and write.                                                         *)

\* The search for the cluster and CACHE_read_block: a block found is used now.
Lookup(t) ==
    LET c == clusterAt(op[t].offset)
    IN  /\ cache' = [i \in DOMAIN cache |->
                        IF i \in cached(c) THEN fresh(cache[i]) ELSE cache[i]]
        /\ reg' = IF op[t].kind = "read" /\ cached(c) # {} THEN reg
                  ELSE [reg EXCEPT ![t].cluster = c,
                                   ![t].index = IF cached(c) = {} THEN 0
                                                ELSE CHOOSE i \in cached(c) : TRUE]
        /\ because("strayed", strays(op[t].offset))

\* Beyond the size of the record there is nothing to read.  A read that finds
\* the block copies it at once.
ReadLookup(t) ==
    /\ at(t, "read")
    /\ IF op[t].offset >= record.size
       THEN goto(t, "open") /\ UNCHANGED <<cache, reg, damage>>
       ELSE /\ Lookup(t)
            /\ goto(t, IF cached(clusterAt(op[t].offset)) = {} THEN "fetch" ELSE "open")
    /\ UNCHANGED <<alive, max_blocks, fileVars, record, write_mutex, expected>>

WriteLock(t) ==
    /\ at(t, "write") /\ write_mutex = None
    /\ write_mutex' = t
    /\ IF op[t].offset + 1 > record.size
       THEN fat32_truncate(op[t].offset + 1) /\ record' = resizedRecord(op[t].offset + 1)
       ELSE UNCHANGED <<fileVars, record, expected, damage>>
    /\ goto(t, "writeLookup")
    /\ UNCHANGED <<alive, max_blocks, cache, reg>>

WriteLookup(t) ==
    /\ at(t, "writeLookup")
    /\ Lookup(t)
    /\ goto(t, IF cached(clusterAt(op[t].offset)) = {} THEN "fetch" ELSE "copy")
    /\ UNCHANGED <<alive, max_blocks, fileVars, record, write_mutex, expected>>

written(t) == [expected EXCEPT ![op[t].offset] = op[t].value]

\* The block found before is written through its pointer and marked: by now it
\* may hold another cluster, or be freed.
WriteCopy(t) ==
    /\ at(t, "copy")
    /\ IF reg[t].index = 0
       THEN UNCHANGED cache /\ damage' = damage \cup {"otherBlock"}
       ELSE /\ cache' = [cache EXCEPT ![reg[t].index].data = op[t].value,
                                      ![reg[t].index].modified = TRUE]
            /\ because("otherBlock", cache[reg[t].index].cluster_no # reg[t].cluster)
    /\ expected' = written(t)
    /\ goto(t, "unlock")
    /\ UNCHANGED <<alive, max_blocks, fileVars, record, write_mutex, reg>>

\* fat32_readCluster; a write puts its bytes over what it read.
Fetch(t) ==
    /\ at(t, "fetch")
    /\ reg' = [reg EXCEPT ![t].data = IF op[t].kind = "write" THEN op[t].value
                                      ELSE disk[reg[t].cluster]]
    /\ goto(t, "keep")
    /\ UNCHANGED <<alive, max_blocks, fileVars, record, cache, write_mutex, expected, damage>>

\* Without a cache a write goes to the device.
Keep(t) ==
    /\ at(t, "keep") /\ ~noVictim(t)
    /\ CACHE_write_block(t)
    /\ disk' = IF max_blocks = 0 /\ op[t].kind = "write"
               THEN [disk EXCEPT ![reg[t].cluster] = reg[t].data] ELSE disk
    /\ expected' = IF op[t].kind = "write" THEN written(t) ELSE expected
    /\ goto(t, "putOut")
    /\ UNCHANGED <<alive, max_blocks, table, entry, record, write_mutex>>

out(t) == reg[t].out

\* Mutant of putOut: the block is freed without being written.
putNothing(t) ==
    /\ UNCHANGED disk
    /\ reg' = [reg EXCEPT ![t] = NoReg]

\* fat32_writeCluster of the blocks in reg.out.
putOut(t) ==
    /\ disk' = [c \in DOMAIN disk |->
                  IF \E i \in DOMAIN out(t) : out(t)[i].cluster_no = c
                  THEN out(t)[1].data ELSE disk[c]]
    /\ reg' = [reg EXCEPT ![t] = NoReg]

PutOut(t) ==
    /\ at(t, "putOut")
    /\ putOut(t) /\ UNCHANGED damage
    /\ goto(t, IF op[t].kind = "write" THEN "unlock" ELSE "open")
    /\ UNCHANGED <<alive, max_blocks, table, entry, record, cache, write_mutex, expected>>

Unlock(t) ==
    /\ at(t, "unlock")
    /\ write_mutex' = None
    /\ reg' = [reg EXCEPT ![t] = NoReg]
    /\ goto(t, "open")
    /\ UNCHANGED <<alive, max_blocks, fileVars, record, cache, expected, damage>>

-----------------------------------------------------------------------------
(* close: flush, then release, which flushes again when it is the last.    *)

flushing == {"flush", "lastFlush"}

\* One turn of fuselage_flush: the first block leaves the list, and is written
\* when it has the mark; then it is freed, under a write that has found it.
FlushTake(t) ==
    /\ alive /\ pc[t] \in flushing /\ out(t) = <<>> /\ cache # <<>>
    /\ cache' = Tail(cache)
    /\ reg' = [u \in Threads |->
                  IF u = t
                  THEN [reg[t] EXCEPT !.out = IF Head(cache).modified THEN <<Head(cache)>>
                                              ELSE <<>>]
                  ELSE [reg[u] EXCEPT !.index = IF @ > 0 THEN @ - 1 ELSE 0]]
    /\ because("unmarked", dropped(Head(cache)))
    /\ UNCHANGED <<alive, max_blocks, fileVars, record, write_mutex, pc, op, expected>>

FlushWrite(t) ==
    /\ alive /\ pc[t] \in flushing /\ out(t) # <<>>
    /\ putOut(t) /\ UNCHANGED damage
    /\ UNCHANGED <<alive, max_blocks, table, entry, record, cache, write_mutex, pc, op,
                   expected>>

FlushEnd(t) ==
    /\ alive /\ pc[t] \in flushing /\ out(t) = <<>> /\ cache = <<>>
    /\ goto(t, IF pc[t] = "flush" THEN "release" ELSE "closed")
    /\ UNCHANGED <<alive, max_blocks, fileVars, record, cache, write_mutex, reg,
                   expected, damage>>

Release(t) ==
    /\ at(t, "release")
    /\ \/ record' = [record EXCEPT !.open_count = @ - 1] /\ UNCHANGED damage
       \/ mayMiscount(t) /\ UNCHANGED record /\ damage' = damage \cup {"miscounted"}
    /\ goto(t, IF record.open_count = 1 /\ max_blocks # 0 THEN "lastFlush" ELSE "closed")
    /\ UNCHANGED <<alive, max_blocks, fileVars, cache, write_mutex, reg, expected>>

-----------------------------------------------------------------------------
(* Calls on the list of blocks that overlap.                               *)

\* The list is being walked or changed, or a block of it is.
onList(t) ==
    max_blocks # 0 /\ pc[t] \in {"read", "writeLookup", "keep", "copy"} \cup flushing

\* A call of another thread changes the list meanwhile, or one has left it wrong
\* before: an end that is not the last node, a next that is a freed one.
overlaps(t) ==
    /\ onList(t)
    /\ \/ "overlap" \in damage
       \/ \E u \in Threads \ {t} : onList(u) /\ pc[u] \in {"keep", "copy"} \cup flushing

\* The node appended is lost, or the one before it, or all before it (n stay);
\* or the cluster comes in although another thread has just brought it, or
\* beyond max_blocks.
mixedAppend(t, n) ==
    LET b == block(reg[t].cluster, reg[t].data, FALSE)
    IN  /\ n \in {0, Len(cache) - 1, Len(cache)}
        /\ Len(cache) < max_blocks + Cardinality(Threads)
        /\ \/ n = Len(cache) /\ cache' = cache
           \/ cache' = Append(SubSeq(cache, 1, n), b)

\* The fields of block i are of two calls, or lack what this one wrote.
mixedBlock(t, i) ==
    \E c \in {cache[i].cluster_no, reg[t].cluster}, m \in BOOLEAN,
       d \in {cache[i].data, reg[t].data, op[t].value} :
        cache' = [cache EXCEPT ![i] = block(c, d, m)]

\* Outcomes of a CACHE_write_block, or of the writing through a pointer, that no
\* order of whole calls gives.  A block may be handed out although it stays.
Overlap(t) ==
    /\ alive /\ overlaps(t) /\ pc[t] \in {"keep", "copy"}
    /\ \/ \E n \in 0 .. Len(cache) :
            /\ pc[t] = "keep" /\ mixedAppend(t, n)
            /\ reg' = [u \in Threads |->
                          IF u # t /\ reg[u].index > n THEN [reg[u] EXCEPT !.index = 0]
                          ELSE reg[u]]
       \/ \E i \in DOMAIN cache :
            /\ mixedBlock(t, i)
            /\ \/ UNCHANGED reg
               \/ pc[t] = "keep" /\ reg' = [reg EXCEPT ![t].out = <<cache[i]>>]
    /\ expected' = IF op[t].kind = "write" THEN written(t) ELSE expected
    /\ damage' = damage \cup {"overlap"}
    /\ goto(t, IF pc[t] = "keep" THEN "putOut" ELSE "unlock")
    /\ UNCHANGED <<alive, max_blocks, fileVars, record, write_mutex>>

-----------------------------------------------------------------------------
\* The file is unlinked and created again while nobody has it open: the record
\* of its path stays as it was.
Recreate ==
    /\ alive /\ \A t \in Threads : pc[t] = "closed"
    /\ Cardinality(damage) <= MaxDamage
    /\ entry.size # 0
    /\ table' = [c \in Entries |->
                    IF \E k \in DOMAIN chain : chain[k] = c THEN 0 ELSE table[c]]
    /\ entry' = [first |-> 0, size |-> 0]
    /\ expected' = [k \in DOMAIN expected |-> 0]
    /\ because("oldRecord", record # None)
    /\ UNCHANGED <<alive, max_blocks, disk, record, cache, write_mutex, pc, op, reg>>

\* A second passes.
Tick ==
    /\ alive
    /\ \E i \in DOMAIN cache : cache[i].age < MaxAge
    /\ cache' = [i \in DOMAIN cache |->
                    [cache[i] EXCEPT !.age = IF @ < MaxAge THEN @ + 1 ELSE @]]
    /\ UNCHANGED <<alive, max_blocks, fileVars, record, write_mutex, pc, op, reg,
                   expected, damage>>

\* A NULL or a freed node or block is read through: no block to replace, or the
\* list or a block is used while another thread flushes it; two flushes free one
\* node twice.
Die(t) ==
    /\ \/ at(t, "keep") /\ noVictim(t)
       \/ at(t, "copy") /\ reg[t].index = 0
       \/ alive /\ overlaps(t)
            /\ ("overlap" \in damage \/ \E u \in Threads \ {t} : pc[u] \in flushing)
    /\ alive' = FALSE
    /\ UNCHANGED <<max_blocks, fileVars, record, cache, write_mutex, pc, op, reg,
                   expected, damage>>

Next ==
    \/ \E t \in Threads :
        \/ Open(t) \/ GetEntry(t) \/ AddRecord(t) \/ BeginTruncatePath(t)
        \/ Begin(t) \/ Truncate(t) \/ ReadLookup(t) \/ WriteLock(t)
        \/ WriteLookup(t) \/ WriteCopy(t) \/ Fetch(t) \/ Keep(t) \/ PutOut(t)
        \/ Unlock(t) \/ FlushTake(t) \/ FlushWrite(t) \/ FlushEnd(t) \/ Release(t)
        \/ Overlap(t) \/ Die(t)
    \/ Recreate \/ Tick

Spec == Init /\ [][Next]_vars

-----------------------------------------------------------------------------
Places == {"closed", "addRecord", "truncatePath", "truncateAside", "open", "read", "write",
           "truncate", "writeLookup", "copy", "fetch", "keep", "putOut", "unlock",
           "release"} \cup flushing

Causes == {"oldBlock", "overtaken", "unmarked", "strayed", "otherBlock", "crossing",
           "oldRecord", "twoRecords", "miscounted", "overlap"}

Calls == [kind : {"none", "open", "read", "write", "truncate", "close"}, offset : 0 .. MaxSize,
          value : Values \cup {0}]

DirEntries == [first : Entries, size : 0 .. MaxSize]

Regs == [cluster : 0 .. EOC, data : Values \cup {0}, index : Nat, out : Seq(Blocks),
         entry : DirEntries]

\* The variables have the values the code can give them; the record counts no
\* more opens than there are threads until two opens of the file go wrong.
TypeOK ==
    /\ alive \in BOOLEAN /\ max_blocks \in CacheSizes
    /\ table \in Tables
    /\ disk \in [0 .. EOC -> Values \cup {0}]
    /\ entry \in DirEntries
    /\ record \in Records \cup {None}
    /\ record # None /\ damage \cap {"twoRecords", "miscounted"} = {} =>
          record.open_count \in 0 .. Cardinality(Threads)
    /\ cache \in Seq(Blocks)
    /\ write_mutex \in Threads \cup {None}
    /\ pc \in [Threads -> Places]
    /\ op \in [Threads -> Calls] /\ reg \in [Threads -> Regs]
    /\ damage \subseteq Causes

\* The cache never outgrows its size and never holds a cluster twice, although
\* two threads may miss the same cluster and both bring it; only calls that
\* overlap on the list of blocks, which has no lock, break that.
CacheShape ==
    "overlap" \notin damage =>
        /\ Len(cache) <= max_blocks
        /\ \A i, j \in DOMAIN cache : cache[i].cluster_no = cache[j].cluster_no => i = j

\* A thread is about to write this block to the device.
leaving(c, v) ==
    \E t \in Threads : \E i \in DOMAIN out(t) :
        out(t)[i].cluster_no = c /\ out(t)[i].data = v

\* What a write left in the file is, at every moment, in the block of its
\* cluster, in the hands of a thread that takes it to the device, or there;
\* only the mishaps that damage names lose it, overlapping calls among them.
WritesSurvive ==
    damage = {} =>
        \A k \in 0 .. entry.size - 1 :
            LET c == chain[k + 1]
            IN  \/ \E i \in cached(c) : cache[i].data = expected[k]
                \/ cached(c) = {} /\ (disk[c] = expected[k] \/ leaving(c, expected[k]))

\* While no write or truncate is under way the record has the size of the
\* entry, unless the file was removed and created again under the record, or two
\* threads made the first record of the path at once.
RecordAgrees ==
    LET settled == \A t \in Threads : op[t].kind \notin {"write", "truncate"}
    IN  settled /\ record # None /\ damage \cap {"oldRecord", "twoRecords"} = {} =>
            record.size = entry.size
=============================================================================
