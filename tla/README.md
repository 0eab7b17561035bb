# Fuselage FAT32: a TLA+ model of the disks, the RAID and the file system

The repository holds five C programs that together serve a FAT32 volume over
FUSE from simulated disks:

```
 user -- FUSE --> PFS --TCP--> PRAID --TCP--> PPD   (one per disk)
                   \____________TCP___________^ \--Unix socket-- PPD_Console
```

* **PPD** simulates one drive. It maps a disk file, queues the sector requests
  of its clients, orders them by FSCAN or SSTF and serves them one at a time.
* **PPD_Console** is started by a PPD and sends it commands.
* **PRAID** mirrors several PPDs: writes go to all, reads to one of them.
* **PFS** is the file system: FUSE callbacks over a FAT32 volume, whose sectors
  it asks of a PPD or of PRAID through a pool of sockets.
* **Commons** is the library the others share (sockets, lists, logs, config).

This directory models PPD, PRAID and PFS; section 6 lists what is left out.
Line numbers refer to the files under `src/`.

## 1. Inventory

### PPD (`src/PPD`)

State: `multiQueue` (two lists, the flag `qflag`, the direction of the sweep,
the semaphore `queueElemSem`), the semaphores `queueMutex` and
`queueAvailableMutex`, `HeadPosition`, `TracePosition`, the mapped disk, the
global `Exit`.

| Part | Operations | What makes it correct |
|---|---|---|
| Geometry (`ppd_common.c`, `ppd_taker.c`) | `COMMON_turnToCHS`, `TAKER_turnToSectorNum`, `TAKER_reachedSector`, `FSCAN_moveToCylinder`, `TAKER_updateHPos` | an address and its CHS name the same sector; a seek ends on the cylinder it was sent to |
| Scheduling (`ppd_FSCAN.c`, `ppd_SSTF.c`, `ppd_taker.c`, `ppd_qManager.c`) | `getNextNode`, `near`, `toggleDirection`, `takeRequest` | the scan ends on a request that lies ahead; no request passes an earlier write of its sector |
| Main thread (`ppd.c`, `ppd_comm.c`) | select loop, `COMM_handleReceive`, console commands, exit | bounded queueing, no lost node, no lost exit |
| TAKER thread (`ppd_taker.c`) | wait, choose, perform, log with look-ahead, move the head, answer, post | never scans an empty list; each request performed and answered once; nobody starves |
| Console (`src/PPD_Console`) | `info`, `clean`, `trace`, `exit`, `james` | the exit it sends ends the PPD |
| Logs, traces, `io_stream`, `pfsList` | formatting; the last two are not built or not called | |

The two threads share everything above. The hard behaviours: the taker reads
the active list without a lock, relying on the rule that main appends only to
the other one; a switch of the two is decided on an unlocked read; the
look-ahead that names the next request in the log runs the same choice, may
switch the queues, and is repeated later in another state; three semaphores
with crossed waits; `james` writes the head position from the main thread.

### PRAID (`src/PRAID`)

State: `PPD_QUEUE` (disks with `status` and `requested`), `PPD_COUNT`,
`REQUEST_QUEUE` (`ppd_fd`, `write_count`), `PFS_QUEUE` (a mutex per PFS), two
mutexes, and what every disk has been sent.

| Part | Operations | What makes it correct |
|---|---|---|
| Main thread (`praid.c`) | accept PFS / PPD with handshakes, queue and broadcast a write, choose a disk for a read, drop a PFS | all disks get the same writes in the same order; disk ids are distinct |
| A thread per disk (`ppd_thread.c`) | receive an answer, count the answers of a write, answer the PFS, notice the loss of the disk, replan or stand by | a write is answered when all disks have it; one answer per request; nothing is lost with a disk |
| Lists (`ppd_queue.c`, `request_handler.c`, `pfs_queue.c`) | add, search, take, remove, `selectByLessRequests` | counts and lists agree |
| Synchronizer (`ppd_synchronizer.c`) | copy a disk that joins late | never runs (`ppd_thread.c:38-39`) |

The hard behaviours: `write_count` tested outside the mutex; requests taken
without it; the first node of a list read before its mutex is taken; memory of
a lost disk used after it is freed; `PPD_COUNT++` outside the mutex; a disk lost between the choice and the queueing of a read;
discounts of a lost disk that had answered; disks that join late.

### PFS (`src/PFS`)

| Part | State | Operations | What makes it correct |
|---|---|---|---|
| Socket pool (`pfs_comm.c`) | sockets with a status, `free_sockets`, `sockPool_mutex` | take a free socket, send n requests, receive n answers, reassemble by sector, release | a socket serves one thread; the scan finds one; a call leaves nothing behind in its socket; data lands at its sector; nobody waits for ever |
| FAT (`tad_fat.c`) | the table in memory, its marked sectors, the table on the volume | find, mark, link, unlink and follow clusters; load and save | chains are disjoint and end; no cluster is used twice; what changed is saved |
| File operations (`pfs.c`, `pfs_fat32.c`, `tad_cluster.c`) | the clusters of the volume | create, mkdir, truncate, unlink, rmdir, rename | size and chain length agree; operations in one directory keep to their entries |
| Open files and cache (`tad_file.c`, `file_cache.c`) | a record per path with size, first cluster and blocks (stamp, modified mark) | open, read, write, flush, release; replace the least recently used block | no accepted write is lost; record and entry agree |
| Entries and long names (`tad_direntry.c`, `tad_lfnentry.c`) | 32-byte records | encode, decode | binary layout |
| Console (`pfs.c:108-193`) | | prints sizes and tables | |

FUSE calls these from several threads. Locked are: the scan for a socket, each
operation of the table, and `fuselage_write` as a whole; nothing else is. The
hard behaviours: a free cluster is found in one critical section and marked in
another; directory clusters are read, changed and written as a whole; the cache
is filled by readers and emptied by `flush` without the mutex that writers hold;
calls that fill a socket in both directions; a death between two writes; a full
disk.

### How they interact

PPD to clients: messages on a socket per client; a request carries an id, the
answer repeats it. PRAID to PPD: it is a client of each PPD and, for PFS, looks
like one. Threads inside a program: shared lists and semaphores. No component
persists anything but sectors; a restart starts from those.

## 2. Modules

| Module | Models | Uses |
|---|---|---|
| `DiskGeometry` | addresses, rotation during a seek, rest of the head | |
| `Scheduling` | which request is next, as a relation on the queue | `DiskGeometry` |
| `GetNext` | the loop that finds it, node by node, and FSCAN's turn | `Scheduling` |
| `DiskService` | abstract: what a disk promises its clients | |
| `PPD` | main thread and taker with queues, semaphores, head, disk | `Scheduling`; implements `DiskService` |
| `PRAID` | main thread, one thread per disk, environment of disks and PFS | the order of `DiskService` |
| `SectorCalls` | abstract: what a call of `ppd_read_sectors` or `ppd_write_sectors` promises | |
| `SocketPool` | the pool, the threads in those calls, the connections, the other end | implements `SectorCalls` |
| `Fat` | the operations of the allocation table, as operators | |
| `FileSystem` | the operations that change the tree, step by step, over table and clusters, with deaths and restarts | `Fat` |
| `OpenFile` | reading and writing one file through its record and its cache | `Fat` |
| `MCGetNext`, `MCPPD`, `MCPRAID`, `MCSocketPool`, `MCFileSystem`, `MCOpenFile` | instances for TLC | |
| `Scheduling_proofs`, `GetNext_proofs`, `PPD_proofs`, `PRAID_proofs`, `SocketPool_proofs`, `Fat_proofs`, `FileSystem_proofs`, `OpenFile_proofs` | proofs | |

A definition whose comment begins "Mutant of" is a variation of the definition
that follows it. It is used nowhere; each stands for a mistake that a property
is known to detect.

The layers fit together by what each promises: `PPD` implements `DiskService`;
the disks of `PRAID` and the other end of `SocketPool` behave as `DiskService`
allows; `SocketPool` implements `SectorCalls`; `FileSystem` and `OpenFile` read
and write clusters in single steps, which is a call of `SectorCalls` with one
sector. (PFS writes the eight sectors of a cluster in one call and they are
performed one by one, so a read that overlaps a write may see sectors of both;
a cluster of one sector leaves that out.)

### PPD: state and actions

A step is one access the other thread can observe. `mainPC` and `takerPC` are
program counters:

* main: `select` or `round` (in the loop over the descriptors, which only
  goes up: `currFD`) -> `ReceiveRequest`, `ReceiveInfo`, `ReceiveExit`;
  a request goes on through `WaitAvailable` (`queueAvailableMutex`),
  `LockQueues` (`queueMutex`), `AppendRequest`, `PostElement`, `UnlockQueues`;
  `EndRound` looks at `Exit`; `Shutdown` ends the process.
* taker: `TakerLoop`, `TakerWait` (`queueElemSem`), `TakerSelect` (is the
  active list empty?), `TakerToggle`, `TakerTake` (the choice and the removal),
  `TakerHandle` (disk and answer), `TakerLog`, `LookSelect`, `LookToggle`,
  `LookAhead`, `TakerHead`, `TakerSend`, `TakerPost`.

The choice is one step: under SSTF it holds `queueMutex`, under FSCAN main does
not touch the active list (part of `QueueDiscipline`, proved). That the loop
computes what the relation `nextNodes` says is what `GetNext` is for.

Abstracted: milliseconds and log texts; the payload is a small value; a message
arrives whole; unlocked reads of a word are atomic. Not modelled: accepting and
losing connections, the handshake with PRAID, freeing memory at exit, the loop
of `clean` against a full socket, and one data race: under SSTF the look-ahead
walks the list without the mutex while main may be appending (the model makes
the walk in one step).

### PRAID: state and actions

`mainPC` has a state per unlocked boundary: `ReceiveWrite` (queued under
`REQUEST_QUEUE_MUTEX`) and `Broadcast` (under `PPD_QUEUE_MUTEX`);
`ReceiveRead` (the choice), `QueueRead`, `SendRead`; `ReadBegin` (where
`PPDQUEUE_getByID` reads `PPD_QUEUE.begin`, before the mutex), `AcceptPPD` or
`RefusePPD`, then `LoadCount` and `StoreCount` for the unlocked `PPD_COUNT++`;
`AcceptPFS`, `PFSLeaves`. `threadPC[c]` does the same for the thread of
connection `c`: `StartThread`, `ReceiveWriteAnswer` / `TestCount` / `TakeWrite` or `TakeAgain`,
`ReceiveReadAnswer`, and for a loss `NoticeDeath` (`FreesAnother` when
an earlier node has the same id), `CheckCount`, and `Standby` or `Replan`, which takes `REQUEST_QUEUE_MUTEX` (`unlocked`) and walks the list one
node a step: `ReplanWrite`, `ReplanRead`, `EndReplan`. The steps that need the mutex wait for
the walk; `TakeWrite`, `TakeAgain` and `Standby` do not take it in the code, and may
free the node at which the walk stands (`ReplanFollowsNull`). A step leaves out the
nodes at which the walk does nothing.

Two walks of a list overlap with changes of it that no mutex keeps away:

* `request_take` of a complete write (`ppd_thread.c:89`) runs without
  `REQUEST_QUEUE_MUTEX`. `TestCount` notes in `found[c]` what the list was when it
  began, and its end is one of: the node is taken and the write answered
  (`TakeWrite`); another thread that had found it too was faster, and the write is
  answered and freed a second time (`TakeAgain`, recorded in `retaken`); a freed node
  is followed (`FollowNull`, possible as soon as the list has changed). Either end may
  lose the requests that were appended since (`unlinks`): it was the last node when
  the walk saw it, and `end` is set after main had appended. The other walks of the
  list may meet a node that is freed under them (`freeing`).
* `PPDQUEUE_getByID` reads `begin` before it locks (`ppd_queue.c:97`). `first` is what it
  read. If the thread of that disk has freed the node since (`astray`), the search
  finds the id, or misses it (the disk is accepted, and recorded in `strays`), or
  dies (`FollowFreed`).

Undefined behaviour is a choice. A flag left uninitialised (`requested`) has
either value. A descriptor read from freed memory (`fdOf`) is what was there or
`Garbage`. A freed `write_count` is zero or not (`TestCount`). A NULL pointer
followed, or a NULL mutex locked, ends the process (`FollowNull`,
`ReceiveReadWithoutDisks`, `ReplanFollowsNull`), and so may a send to a closed
connection (`mayBreak`: SIGPIPE is not handled). Freed memory that is followed ends
the process too, beside the outcomes above: a model that goes on from a list whose
links are anything would say nothing. So a list that keeps a freed node, in `begin`,
in `end` or between, is the death of the process from the moment it is made, though the
program might run on for a while. `Standby` frees both lists in one step; other walks
that meet the freed nodes die, as above.

The disks are environment: each performs its requests in any order in which
nothing passes an earlier write of its sector, which is what `Refines`
proves of a PPD. The id of a request is its number and a write writes its id,
so contents compare by age.

### SocketPool: state and actions

`mainPC` follows `main`: `Connect` (one connection and its handshake),
`BootSend` and `BootReceive` (the boot sector over the first socket, when no
thread uses the pool). `pc[t]` follows a FUSE thread through
`ppd_read_sectors` or `ppd_write_sectors`: `SemWait`, `Lock`, `Scan` (one turn of
`ppd_get_free_socket`), `Claim`, then the loop with `Send` and `Poll`, `Free`
(the mark, removed without the mutex), `SemPost`, `Return` with
`ppd_reconstruct_data_from_responses`. A read sends before it polls, a write
polls before it sends. `Serve` is the other end, which takes the requests of a
connection in any order; `Lose` breaks a connection. Buffers hold
`RequestWindow` requests and `AnswerWindow` answers. A message is sent and
received whole (523 bytes are waited for before `recv`).

### FileSystem: state and actions

`table` and `modified` are `fat`, `diskTable` and `disk` what the device holds.
A step is one critical section of `fat.mutex` or one read or write of a cluster;
`reg[t]` has the thread's locals, above all the image of the directory cluster
it will write back.

* create, mkdir (`fat32_mk`): `MkSearch`, `MkLink` when the directory is full,
  `FindFree` and `UseFree` (two critical sections), `MkDots`, `Place`.
* truncate (`fat32_truncate`): `TruncateStart`, `Shrink`, `Extend`, `Clear`,
  `ClearTail`, `Reread`, `Place`, `Save`.
* unlink, rmdir (`fat32_remove`): `RemoveStart`, `FreeOne`, `Save`, `Place`.
* rename (`fuselage_rename`): `RenameNothing`, `RenameStart`, `Place`,
  `PlaceTarget`.
* `Crash` at any moment, `Die` where the code follows a NULL, `Mount`
  (`FAT_read_table` with its assertion).

`admitted` and `excludes` are the kernel's part: it looks a path up before it
passes a call on, and locks the directory an operation changes. That leaves
operations on different directories, and creates against truncates, free to
interleave.

Abstracted: resolving a path is one step; a slot stands for the pair of long and
short entry that PFS writes, so volumes with short names only are not modelled;
a cluster is read and written as one sector. When a cluster of a directory other than the
last one has no live entry, `fat32_readDirectory` sets `file_list.end` to NULL and the
next cluster's entries are appended through it (`pfs_fat32.c:108-117`, `157-166`): the
program dies, while `entryAt` reads on. `Crash` may end the process at that moment
as at any other, so every state the program can leave behind is reached; the
behaviours that go on from there are the model's only. Left out: the read beyond the end
of a directory cluster that has no end mark (`tad_direntry.c:58`), a rename of a
directory, dates and attributes.

### OpenFile: state and actions

`record` is the `opened_file_t` of the path, `cache` its blocks in list order with
their age in seconds (`Tick`). `Open`; `ReadLookup`, `Fetch`, `Keep`
(`CACHE_write_block`), `PutOut` (the replaced block goes to the device);
`WriteLock` (the mutex, and the truncate that makes room), `WriteLookup`,
`WriteCopy` or `Fetch` / `Keep` / `PutOut`, `Unlock`; `FlushTake`, `FlushWrite`,
`FlushEnd`, `Release`; `Truncate`; `Recreate` (unlinked and created again while
nobody has it open); `Die`. A path without a record is looked up, read from the device
and appended in two steps, `GetEntry` and `AddRecord`, by a first open or by a truncate
by path (`BeginTruncatePath` when there is one): a second record appended meanwhile is
out of every later search's reach, and its maker works on it alone (`twoRecords`).
`open_count++` and its decrement are a load and a store (`miscounted`).

The lists have no lock. A call of `CACHE_read_block`, `CACHE_write_block` or
`QUEUE_takeNode` on the cache is one step when nothing overlaps it. When it does
(`overlaps`: two threads are at places where they use the list, and one of them
changes it), every outcome that no order of the whole calls gives is a step `Overlap`:
an append lost, or the append of another thread, or the whole list before it; a cluster
brought in twice, or beyond `max_blocks`; a block with the fields of two calls, or
without what was written to it; a block handed out although it stays. A node or block
used after another thread freed it is `Die`, and so are two threads taking one node, which
both free. Once calls have overlapped the list may be wrong (an `end` that is not the last
node), so from then on every call may have these outcomes.

A page is a cluster and a cluster is one value: the kernel hands reads and
writes over page by page. `fat32_truncate`, which `FileSystem` takes apart, is one step
here, as the kernel keeps other writers out; so is the walk to a cluster. Not
modelled: a cache of 1 to 4095 bytes (no block, but not switched off); a page of which
half is old and half new, as a copy that overlaps another leaves it (the model has
one of the two); a change to a block that is already on its way to the device; and
a record of `opened_files` that is lost because the first opens of two *different* files
append at once, after which its file gets a new record and the blocks of the old one
are never flushed.

### Mishaps

`FileSystem` and `OpenFile` have a history variable `damage`. The code has ways
of losing consistency that any run of some length meets. Each has a name, and
`damage` gets that name when its step is taken; an invariant that says `damage =
{} => ...` says that nothing else *in its module* loses it. One thing that neither
module has does: `flush` writes a modified block by its cluster's number also when a
truncate has given that cluster up (`pfs.c:381-388`). `OpenFile` has this for the one
file (`oldBlock`); if another file or a directory got the cluster meanwhile, what they
hold is overwritten, and for the file system as a whole that is one more way. Every mishap is a step of the
modelled code and is reached in the runs: `MaxDamage = 0` means that once one has
happened no further call starts, while those under way finish. Without these
exceptions the invariants are false. `MarksComplete` and `TypeOK` of `FileSystem` need none; `TypeOK` of `OpenFile`,
`CacheShape`, `MediaKept` and `RecordAgrees` except one to four of them.

| Mishap | What happens | Where |
|---|---|---|
| `race` | two operations get the same free cluster | `pfs_fat32.c:271-272`, `306-307`, `368-369` |
| `stalecopy` | a directory cluster is written back over a newer one | `pfs_fat32.c:282`, `420`, `448`, `pfs.c:441`, `461`, `481` |
| `stale` | the cluster of a new directory, or one linked to a directory, is not cleared: old entries appear | `pfs_fat32.c:276-279`, `299-300` |
| `full` | no free cluster: 0 is taken for one | `tad_fat.c:104` |
| `orphans` | `rmdir` of a directory that is not empty | `pfs_fat32.c:438-445` |
| `dropped` | a move into a directory without a hole in its first cluster | `pfs.c:467-479` |
| `unsaved` | the process ends in the middle of an operation, or after `mkdir` | `pfs_fat32.c:289` |
| `unmarked` | a write that misses the cache is kept without the modified mark, then thrown away | `file_cache.c:94`, `102` |
| `oldBlock` | a cluster returns to the file while the cache has its old block | `pfs.c:496`, `507` |
| `overtaken` | a thread brings in what the device held before a newer write | `pfs.c:351-354`, `546-548` |
| `crossing` | a cluster comes into the cache while its old block is on its way out | `pfs.c:354-356`, `382-387`, `548-552` |
| `otherBlock` | the block a write found holds another cluster, or is freed, when it is written | `pfs.c:537-542` |
| `strayed` | the record's first cluster is not the entry's, after a truncate from or to 0 | `pfs.c:496`, `507` |
| `oldRecord` | a record outlives the file it was made for | `tad_file.c:72-102` (`opened_files` is never cleaned) |
| `twoRecords` | two threads make the first record of a path; one may hold a size from before the other's truncate | `tad_file.c:74-102`, `pfs.c:299`, `495-496` |
| `miscounted` | two changes of `open_count` overlap and one is lost | `pfs.c:300`, `600` |
| `overlap` | calls on the unlocked list of blocks overlap | `file_cache.c:42-106`, `tad_queue.c:24-50`, `pfs.c:345-356`, `381`, `537-548` |

Two ways to end the process are steps of their own (`Die`): under a full cache all
of whose blocks were used in this second, `CACHE_getLRU` finds none
(`file_cache.c:82-85`); and `flush` can free a node or a block that another thread
uses. `FileSystem` dies where a path disappeared between the kernel's
lookup and the operation.

## 3. Runs

| Run | Instance | Distinct states | Shows |
|---|---|---|---|
| `getnext` | 3 cylinders x 2 sectors, every queue of up to 3 requests, every position, both directions and SSTF | 140,224 | the loop ends (`ChoiceEnds`) on the request the relation names (`ScanFindsNext`), it lies ahead (`ChosenLiesAhead`), no write of its sector was before it (`NoWriteOvertaken`) |
| `scheduling` | 3 cylinders x 2 sectors, FSCAN or SSTF by the initial state, reads and writes of two sectors on both sides of the head, 3 outstanding and room for 2, look-ahead on every request | 1,367,584 | `TypeOK`, `ScannedQueueNotEmpty`, `ElementCount`, `AvailableCount`, `QueueDiscipline`, `AnnouncedIsNextInTrack`, and the process implements `DiskService` (`ServesRequests`); no deadlock |
| `fair` | 8 cylinders, reads and traces, of which only traces look ahead, console with `info`, `james`, `exit` | 153,570 | `EveryRequestAnswered`, `ExitHonoured` |
| `tracenext` | FSCAN, a request on the last sector of a track | violation | `AnnouncedIsNext` fails |
| `heads` | two heads | violation | `AnswerNamesSector` fails |
| `mirror` | two disks, one may be lost at any step, 3 requests on one sector | 269,063 | `TypeOK`, `DisksAgree`, `AckMeansMirrored`, `AtMostOneAnswer`, `WriteCountExact`, `EveryRequestAnswered` |
| `joins` | three processes, two of which announce one id, the second and third at any time; any of them may be lost; a PFS that may leave, 1 request | 1,094,857 | `DistinctDisks`, `CountCovers` |
| `belowzero` | two disks, one write, one loss | violation | `CountedOnlyIfAwaited` fails |
| `readlost` | two disks, one read, one loss | violation | `ReadsReorganised` fails |
| `pool` | three threads, two connections of which one may break, room for two requests and one answer; a read of four sectors, a write of one of them, an empty write | 164,260 | `TypeOK`; a connection has one user (`OneUser`); the scan that follows the semaphore finds one (`ScanFinds`); a call leaves nothing behind in it (`FreeIsQuiet`) and gives it back (`ConnectionsComeBack`); each call implements `SectorCalls` (`ServesCalls`) |
| `files` | two threads, a file of the root, a directory with entries, 4 clusters of 2 slots, deaths and restarts | 1,092,549 | `TypeOK`; between operations chains end and are disjoint (`ChainsSound`), have the length the size asks for (`SizesMatch`) and are all that is in use (`NothingLost`); what changed is marked (`MarksComplete`) and saved (`OnlyMkdirUnsaved`); the media descriptor stays (`MediaKept`); an operation touches no entry but its own (`OthersKept`) |
| `cache` | two threads on one file of up to 2 clusters, a cache of 0, 1 or 2 blocks; the threads are symmetric | 2,435,041 | `TypeOK`; the cache keeps its size and has a cluster once until calls on it overlap (`CacheShape`); an accepted write is in the cache, on its way out or on the device (`WritesSurvive`); record and entry have one size (`RecordAgrees`) |

### Bounds, and why they are enough

* `getnext`, `scheduling`: `Ids` bounds the requests *outstanding*, not those of a
  run: an id is free again once it is answered, so behaviours are unbounded.
  Three suffice for one in service, one in the list that is served and one in
  the other. `QueueAvailable` is 2 for 5000, so that the limit is met. Two
  contents and two sectors tell reads before a write from reads after it. The
  theorems hold for all values of these constants.
* `fair`: two outstanding requests and one client under `StartingMode=CONNECT`,
  where the console has the higher descriptor. Eight cylinders give `james` its
  sector 7.
* PRAID: every request has its own id, so `MaxRequests` bounds the run: three
  on one sector allow two writes and a read in flight at once. One sector is
  the worst case for order. `CountMod` is 8 for 2^32: above the number of disks,
  so a wrap is visible. But for the second and third process of `joins`, disks connect
  before the first request (`Late`), as a RAID is started. One request is enough there:
  its properties are about the list of disks and their number, which no request
  changes.
* `pool`: fewer connections (2) than threads (3), so that the semaphore is
  waited for; windows (2 and 1) smaller than the four sectors of a read, so that
  both buffers fill; `MaxLost = 1` leaves one connection to go on with. Calls
  repeat without bound.
* `files`: `Size = 6` is four clusters, so that the disk fills; `SlotCount = 2`,
  so that directories fill and grow; `EntriesPerSector = 2`, so that an operation
  changes several sectors of the table and leaves others alone; a cluster with
  an old entry in it (`Leftovers`) that names another cluster. Sizes are in slots: 0, 1, 3 and 4 give a
  file 0, 1, 2 and 2 clusters. `SignedChar = TRUE` is the x86 build.
* `cache`: 0, 1 and 2 blocks against 2 clusters, so that blocks are replaced, and
  with 2 that both fit. `MaxAge = 1` tells "used in this second" from "not", the
  only thing that `difftime` > 0 asks of two blocks.
  The two threads make the same calls and only invariants are checked, so
  exchanging them (`SYMMETRY`) loses nothing.
* `CHECK_DEADLOCK FALSE` stands where the system may stop: a choice that ends, a
  PPD told to exit, clients of PRAID that have asked all they may, a PFS process
  that has exited or died, and, in `files` and `cache`, the point where a mishap
  admits no further call.

### Fairness

* PPD: weak fairness of the main thread's own steps and of the taker: both are
  runnable unless they wait for a semaphore. Receiving is *not* fair: clients owe
  nothing. `TakerSend` assumes that a client reads its answers. `queueMutex` is
  kept across steps by main only; main could take it again and again while the
  taker waits to switch the queues, but after `QueueAvailable` requests it waits
  itself for the taker, so weak fairness is enough.
* PRAID: weak fairness of the main thread's own steps, of each disk thread, and
  of each disk's work, which `EveryRequestAnswered` of PPD justifies. Losses,
  joins and requests are not fair.
* SocketPool: weak fairness of each thread's steps past the semaphore (`OwnStep`),
  of the main thread's wait for the boot sector, and of the other end's work on
  each connection (`Serve`). Nothing is assumed of whom `sem_wait` and the mutex wake,
  so no property says that a given thread gets a connection: `ConnectionsComeBack`
  says that whoever has one gives it back. That is not obvious, because a call
  sends all its requests while answers come in, and with both buffers full
  neither end could move. It holds because each turn of the loop polls between
  two sends: after a poll, a connection carries less than both buffers hold, so
  in the next send the other end can still take a request.

### What the properties of PRAID say, and do not

* `DisksAgree` counts what a disk has still to do, so it holds between any two
  messages, also after a loss. It is false for disks that join late: `status`
  is READY before it is compared (`ppd_thread.c:38`), nothing is copied, and old
  sectors are read from them. No document promises otherwise, so there is no run.
* `AckMeansMirrored` holds while no disk is lost, and with two disks also after
  one is. With three disks and one lost it is false: `replan_requests` takes one
  from every pending count (line 152), also when that disk had answered or when
  the request was queued after `PPD_COUNT` had gone down, and the write is
  answered while a disk in service has not performed it.
* `AtMostOneAnswer` excepts the writes that two threads were taking at once
  (`retaken`): those can be answered twice, as lines 87-91 show. It says that this is
  the only way: a thread that begins `request_take` after the node is gone finds
  NULL and answers nobody, and no read is answered twice however often it is sent.
* `DistinctDisks` excepts the disks whose id was looked for from a freed node
  (`strays`), and says that this is the only way for an id to be in the list twice.
* `EveryRequestAnswered` allows the process to die: two threads that find
  `write_count` 0 (line 87, after the mutex) both take the request, and one
  follows NULL or freed memory. TLC reaches this with two disks and one write. A
  request that `unlinks` loses is not passed over in silence either: the answer to it
  finds no node, and the NULL is followed.

### Disagreements

Between the code and what it, or a document, says of itself. The first four have
a run whose counterexample shows them; the others follow from a modelled step.

1. `ppd_common.c:75` (`tracenext`). The look-ahead starts at `sectorNum + 1`,
   while `TAKER_updateHPos` wraps the head inside the track. After the last
   sector of a track the "siguiente pedido" of line 60 is not the one served
   next. For every other sector the announcement is kept, though main goes on
   queueing (`AnnouncedIsNextInTrack`, run `scheduling`).
2. `ppd_taker.c:168` (`heads`). `Sector*(cylinder + head) + sector` forgets
   that a cylinder has `Head` tracks: with two heads a request is performed on,
   and answered with, another sector.
3. `ppd_thread.c:84,152` (`belowzero`). Line 61 asks to verify that the count is
   not zero before decrementing; it is decremented without a test, does reach
   zero, and wraps. The PFS waits for ever.
4. `ppd_thread.c:129`, `praid.c:173-175` (`readlost`). Line 137 asks to
   reorganise the requests of a lost disk. The descriptor is read from memory
   that line 123 freed; and a read that main queues after the thread has
   replanned is seen by nobody. The trace shows one, and the other remains when
   the freed memory is assumed intact.
5. `tad_fat.c:104`. On a full disk 0 is taken for a cluster and entry 0, the media
   descriptor, is overwritten and saved; the assertion of `tad_fat.c:166` then ends
   the next start (`MediaKept` says that nothing but `full`, `race`, `stalecopy` or
   `unsaved` leads there).
6. `pfs_comm.c:124`. Line 141 reports a lost connection and exits, but `recv` is
   called only when `FIONREAD` shows a whole message; a connection lost while a
   call waits shows none, and the call spins for ever (the exception `s \in lost`
   of `ConnectionsComeBack`).
7. `pfs_fat32.c:263`, `pfs.c:469`. A plain `char` is compared with `0xE5` and, being
   signed, is never equal; `tad_direntry.c:60` compares with `'\xE5'` and is right.
   Deleted entries are not reused: directories grow, and a move into one may be
   `dropped` (`SignedChar`).

`ppd_taker.c:211` also says that requests on the same cylinder are first come
first served; lines 218-220 put writes first. No run is spent on it: the order
that matters, that of a sector, is `NoWriteOvertaken`.

Behaviour of the PFS that nothing promises otherwise, so that it is modelled and
no more: a rename onto an existing name does nothing and reports success
(`pfs.c:414`); a move into `/` follows NULL (`pfs.c:451-454`); `truncate` and `write`
update the size of the record but not its first cluster (`pfs.c:496`, `507`);
`mkdir` does not save the table (`pfs_fat32.c:289`).

## 4. Proofs

All are checked by TLAPS, for every value of the constants that the assumptions
admit:

* `GeometryAssumption`: at least one cylinder, head and sector, and non-zero
  times (`reachedSector` divides). `PPDAssumption`: the configuration is of the kind
  the program accepts. `QueuesAssumption`: the queues are non-empty, which is
  `NoEmptyScan`. `PRAIDAssumption`: the numbers are
  numbers, what stands for freed memory and for nothing is no connection, and
  the connections are finitely many and fewer than a `uint32_t` counts, as
  descriptors are.
* `CallsAssumption`: a call lists each of its sectors once, as the sectors of a
  cluster are. `PoolAssumption`: at least one connection and room for a message in
  each buffer; the threads are finitely many.
* `FatAssumption`: the table has a cluster and its sectors entries.
  `CacheAssumption`: sizes and ages are numbers, the threads are finitely many, the
  value for "no record" is neither a thread nor a record, and a file of `MaxSize`
  clusters fits the device beside the root's cluster. The last is a bound of
  `OpenFile`, not of the program; what a full device does is in `FileSystem`.
  `FileSystemAssumption`: a cluster has a slot, threads are asked for operations the
  kernel can pass on (the path of each is not `/`), and what an earlier use left on
  the device are slots, in clusters other than the root's.

What is proved:

* `Scheduling_proofs`: arithmetic of addresses. With one head, a sector number
  and its CHS name one another (`OneHeadAddress`), a seek ends on its cylinder
  (`MoveReachesCylinder`). `near` is transitive and so is its negation, so at
  most one position is next (`NextUnique`), and it passes no write of its sector
  (`NextPassesNoWrite`: same sector, same distance, and a write beats anything
  but another write).
* `GetNext_proofs`: the invariant says that the candidate is better than every
  node the cursor has passed, or is the first node if none lies ahead. From it
  `ScanCorrect`, `WritesNotOvertaken`, and `OneTurnSuffices` (with one head: at
  the end of the sweep everything lies ahead the other way). `TypeCorrect`.
* `PPD_proofs`: `IInv == TypeOK /\ ElementCount /\ AvailableCount /\
  QueueDiscipline` is inductive, one lemma per action. `ScannedQueueNotEmpty` is
  not inductive alone. The taker is past `queueElemSem`, so by `ElementCount`
  something is queued, in one of the two lists; that it is in the *active* one
  follows because the flag is switched only when that list was found empty, and
  main appends only to the other one (`QueueDiscipline`). Hence `TypeCorrect`,
  `NoEmptyScan`, `ElementsCounted`, `SlotsCounted` and `QueuesDisciplined`, with and
  without look-ahead, FSCAN and SSTF.
  `Refines`: with one head, `Spec => ServesRequests`. The
  mapping takes a request as performed when it is *taken*: the content of the
  disk and the answers are those the taker is about to produce, pending is the
  active list followed by the passive one. Every step is then `Accept`,
  `Perform`, `Deliver` or a stutter; a switch of the queues stutters because the
  list it leaves is empty. `Heads = 1` is needed: with more, disagreement 2
  makes it false.
  `AnnouncementsKept`: with one head, `AnnouncedIsNextInTrack`. The invariant
  (`Announcing`) is that a scan of the active list from where the head goes, and later
  from where it is, finds the announced request again. Main leaves that list alone, the
  switch of the queues needs it empty, and what a scan finds does not depend on the
  trace position, which the two scans do not share: at the end of a sweep only the
  cylinder of it counts (`SameCylinder`). `james` is excluded: it moves the head
  between the two scans.
* `PRAID_proofs`, for any number of disks, PFS processes and requests, any losses,
  late disks included unless said otherwise. First `DisksAreDistinct` and
  `CountIsEnough`. They need three
  facts more (`ListInv`): a disk whose thread works has its node, and one node, so
  `PPDQUEUE_removePPD`, which looks by id, takes a node and list and count go down
  together (it takes the thread's own, or that of another disk of the same id, after which
  the thread works on with it: `FreesAnother`, the process dies); the disk being counted has no thread yet, so it
  cannot be the one that is lost; and the value that `PPD_COUNT++` loaded can
  only be too high when it is stored, because other threads only decrement.

  `TypeCorrect` needs, beyond the types, that `PPD_COUNT` and the value loaded for it
  are at most the number of threads started (`Counted`), that nodes, threads and
  disks name requests received (`KnownQueue` to `KnownDisk`), and that one thread at a
  time walks the list (`OneReplans`, the mutex). `AnsweredOnce`: a request that was
  answered has no node, and one answer unless it is in `retaken` (`AnswerInv`; ids in the
  list go up, so that the node taken is the only one, and no `request_take` has found the
  read that is about to be queued); the first answer is given by the step that takes the
  node, another one only by `TakeAgain`.

  `FirstDisksAgree`, and `DisksAreCopies` when no disk is late (`Late = {}`), rest on
  `CopyInv`: a disk in the list is READY when its thread works (`Listed`); what a disk
  holds and has to do are writes that were sent, in ascending order (`Sent`); and
  every write sent is in one of the two on each disk that serves (`Complete`). So the
  last of them on every sector is the same everywhere. Late disks must be left out,
  since nothing is ever copied to them.

  `CountsExactly` (again `Late = {}`): each write is awaited from a disk in one place,
  its queue or its answers (`Once`), and while no thread has found its disk lost
  (`whole`) `write_count` is at least the number of disks that still owe an answer,
  with equality while none is late (`Counts`). From it `FirstDisksMirrored`: until a
  disk is found lost, a write is answered only when no disk owes an answer, so it is
  on all of those that were there at first. `TwoDisksMirrored` is `AckMeansMirrored` for
  two disks, after a loss as well: the disk whose answer completes the write is the
  only one that can still serve. With three it is false (see above), so that the
  hypothesis stands for a limit of the program, not of the proof.
* `SocketPool_proofs`, for any number of threads and connections. `PoolInv` gives
  `NoSharedConnection` and `ScanSucceeds`. Its counting part: the semaphore and the
  threads it let in add up to `max_conn`, and every connection is free or held by
  one of those; while one of them still scans it holds none, so fewer than
  `max_conn` connections are held and one is free. It must be free *ahead* of the
  scan, and stay so: connections are claimed only under the mutex that the
  scanning thread has, and a mark removed without it (`Free`) only adds one.
  `DataInv` gives `NothingLeftBehind`: what a connection carries, in both directions,
  plus what its holder has got back never exceeds what the holder has sent, so a
  call that has all its answers leaves nothing in it. `TypeCorrect`.
  `CallsRefine`: `Spec => ServesCalls`, with the sectors that `found` does not name as
  those still to be performed. `Serve` is `Perform`, `Begin` and `Return` are their
  namesakes, all else stutters. `ServeInv` says what travels: the requests on a
  connection are its holder's, each for another sector and none performed before
  (`Asked`, which is where `CallsAssumption` is needed); answers, on the connection or
  in the buffer, name different sectors and say what was found (`Truthful`,
  `Distinct`, `Apart`). So as many answers as sectors are one for each (`AllAnswered`),
  and what `ppd_reconstruct_data_from_responses` finds for a sector is unique.
* `FileSystem_proofs`: `NothingUnmarked`, for any table, any operations and any
  deaths. Every step that assigns entries of the table marks their sectors (one
  lemma per action), `Save` makes marked sectors equal, `Mount` both tables.
  `TypeCorrect`: also in the states that the mishaps lead to, no step follows or
  stores an entry beyond the table or leaves a directory with something that is not a
  slot. It needs that no entry of either table is 1 (`Proper`; a free entry is found
  from 2 on, and 0 when there is none), that walks and paths exist as functions
  (`WalkType`, `EntryAtIsPath`), which operations pass through which place (`fits`), and
  that a loop over clusters has one left to do (`loops`).

  *The tree*, at any depth and for any threads, operations, clusters and slots, wherever
  the process died before. None of `ChainsSound`, `SizesMatch`, `NothingLost` and
  `MediaKept` is inductive: they speak of the states between operations, and a chain
  that `truncate` is changing, a directory that `mkdir` has not placed or a file on its
  way to another directory is in none of them. The invariant therefore speaks of a
  *view*: which paths are directories and files, which are being removed (`doomed`),
  truncated (`held`) or carried about without an entry (`carried`), in which slot the
  entry of each is (`spot`) and which clusters it owns (`chain`). `Sound` says that the
  chains are disjoint chains of the table (`ChainsOf`), that nodes lie in directories
  (`NodesOf`), that each has its entry and no other entry is there (`EntriesOf`,
  `NoOthers`), and what the locals of every thread mean at the place where it is
  (`Making`, `Truncating`, `Removing`, `Renaming`).
  `TreeInv == TypeInv /\ Exclusive /\ (calm => \E v : isViewed(v))`: the kernel's
  exclusions hold (`Exclusive`), and while nothing but orphans and dropped files was
  lost (`calm`) some view is sound; while nothing was lost at all it covers every used
  cluster. Two views never need to be compared: each action's lemma takes a view and
  gives the one after the step, most often the same. What makes it go through is that
  what one thread knows of its paths survives the steps of the others, as the operations
  that could change it are excluded (`OtherThreads`), and that a lookup of a path finds the node of the view (`FindNode`, by
  induction along the path). A rename that will drop its file is known by its history
  (`Dropping`). Hence `MediaIsKept`, `ChainsAreSound`, `SizesAreMatched`
  and `NothingIsLost`; for the last three the entries of `tree`, the least set closed
  under entering directories, are those of the view's nodes (`TreeEntries`).

  `OthersAreKept`: the view after a write of a cluster *follows* the one before
  (`follows`), that is, has every path but the operation's own, with the same entry in
  the same slot, so that a lookup finds what it found. The hard case is a cluster
  that two operations write: the slot written either had no entry or that of the
  operation's own path.

  `OnlyMkdirIsUnsaved` needs to know what the device lacks while operations run
  (`Unsaved`): unless some thread still has a `FAT_write_table` to come (`awaits`), every
  entry of the table that differs is the first cluster of a directory, either one that
  a `mkdir` has taken and not placed yet, or one that a lookup finds (`tracked`).
  Directories keep their first cluster, and one that is removed has its removal save
  the table. `TreeInv` and `Unsaved` were checked by TLC on `files` before they were
  proved.
* `Fat_proofs`: what the table operations do to a chain, for tables of any size. The
  walk of `FAT_get_linked_clusters` is recursive, and so is the search for a free
  entry; the induction is done on sets (`MinIsLeast`: a nonempty set of numbers has a
  least one, since it has a subset minimal under inclusion), so that no theorem with
  an operator parameter is needed. From it: the walk exists and takes one cluster
  after another (`WalkIsWalk`); from the first cluster of a chain without repetitions
  it is that chain (`WalkOfChain`); linking a free cluster appends it
  (`LinkFreeAppends`), removing the last drops it (`RemoveLastShortens`).
* `OpenFile_proofs`: `CacheKeepsShape`: until calls overlap, a cluster comes in only under
  `CACHE_write_block`, which looks for it first, so readers that missed it earlier find
  it then. `TypeCorrect` adds to the types which calls go with which place (`Kinds`)
  and that `open_count` is the number of threads inside, until two records are made or
  a change of it is lost (`Counted`). `RecordFollows`: record and
  entry have one size through truncates, growing writes, opens and closes. It needs that
  what a thread has read to make the first record stays true while there is none, since
  whoever truncates makes one first, and that a truncate works on a record of its own
  only when there are two (`RecordInv`).

  `WritesAreKept` is `WritesSurvive` for any number of threads, blocks and clusters.
  `SurviveInv` has four parts. `ChainInv`: the clusters of the file are its chain
  in the table, distinct, of the length in the entry, and no other data cluster is
  in use; so a file that may still grow finds a free cluster (`SomeFree`) and a
  cluster freed belongs to nobody. `HandsInv`: one write or truncate at a time, and a
  thread holds at most one block on its way to the device, which it took out of the
  cache. `FoundInv`: while nothing went wrong, the block that a write has found is still
  in the list or known to be freed. `KeptInv`: where the content of a cluster is (`Kept`), in the cache, else in
  somebody's hands, else on the device, exclusively; and a write that looked its cluster
  up still has the cluster at its offset (`aimed`), which is where a truncate between
  lookup and copy would hurt. `WritesSurvive` alone says that the right content is
  *somewhere*; that there is no second, older copy behind it is what makes each step go
  through.

Only model-checked: liveness (`ChoiceEnds`, `EveryRequestAnswered`, `ExitHonoured`,
`ConnectionsComeBack`), which is out of the prover's reach, and the four runs that
expect a violation. Every invariant and action property that a passing run checks is
stated by a theorem, some under a hypothesis given above (one head, no late disks,
no `james`), where without it the property is false.

## 5. Plan: what is left

1. *PPD connections*: accept, loss and reuse of descriptors (`ppd.c:190-260`), so
   that an answer may go to another client (`ppd_taker.c:82`); the console's
   `clean` against bounded sockets; the release of memory at exit
   (`ppd.c:263-270`).
2. *PRAID*: answers with id 0, the bound on descriptors, two PFS that number their
   requests alike (`request_handler.c:75`).
3. *PFS*: several files over one device, so that a flushed block of a cluster that was
   given up may hit another file, and two records of `opened_files` may mix; a rename
   of a directory; the death in `fat32_readDirectory`.

## 6. Not modelled

* Log and trace texts, `cache_dump` and the console of PFS (they print), the
  parsing of configuration and console lines, `config_manager.c`, `log.c` and
  `utils.c` of Commons: no state that a property could be about.
* The byte layout of directory entries, dates, and the UTF-16 conversion of long
  names; entries without a long name.
* Sources that are not built (`ppd_io_stream.c`) or never called
  (`ppd_pfsList.c`, `getTraceInfo`, `SSTF_near`, the synchronizer of PRAID), and the
  search and sort helpers of the lists.
* The read beyond a directory cluster without an end mark (`tad_direntry.c:58`): what
  it finds is not the program's. A cache of 1 to 4095 bytes.
* What section 2 lists under PPD and PRAID, and section 5 as still to do.
