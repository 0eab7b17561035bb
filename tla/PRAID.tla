------------------------------- MODULE PRAID --------------------------------
(***************************************************************************)
(* The PRAID process: the main thread (PRAID/src/praid.c) takes reads and  *)
(* writes from the PFS connections, sends a write to every READY disk and  *)
(* a read to one of them; a thread per disk (ppd_thread.c) receives the    *)
(* answers of its disk, counts those of a write and answers the PFS, and   *)
(* when the disk is lost replans what was waiting for it.                  *)
(*                                                                         *)
(* A step is what a thread does under one mutex, or one access to shared   *)
(* state it makes without the mutex.  Of an operation on a list that takes *)
(* no mutex the model keeps what the list was when it began, and a step    *)
(* has every outcome the overlap allows.  One is that freed memory is      *)
(* followed: the process is then taken to be dead, though it may go on.    *)
(* The disks are environment: module DiskService says in which order one   *)
(* may perform its requests.  The id of a request is its position in       *)
(* asked, and a write writes its id, so contents of a sector compare by    *)
(* age.                                                                    *)
(***************************************************************************)
EXTENDS SequencesExt, Naturals

CONSTANTS
    Conns,        \* connections of disks, each made at most once
    DiskOf,       \* the disk id each one announces in its handshake
    Late,         \* those that may be made after the first request
    MayDie,       \* those that may be lost
    Pfs,          \* connections of PFS processes
    MayLeave,     \* those that may end
    Sectors,
    MaxRequests,  \* bound of the model: requests of a run
    CountMod,     \* write_count is a uint32_t: CountMod stands for 2^32
    Garbage,      \* a descriptor read from freed memory
    None

READ  == "READ_SECTORS"
WRITE == "WRITE_SECTORS"
READY == "READY"
WAIT_SYNCH == "WAIT_SYNCH"
Ids == 1 .. MaxRequests

\* There are fewer descriptors than numbers of 32 bits.
ASSUME PRAIDAssumption ==
    /\ Late \subseteq Conns /\ MayDie \subseteq Conns /\ MayLeave \subseteq Pfs
    /\ DOMAIN DiskOf = Conns
    /\ MaxRequests \in Nat /\ CountMod \in Nat
    /\ IsFiniteSet(Conns) /\ Cardinality(Conns) < CountMod
    /\ Garbage # None /\ {Garbage, None} \cap Conns = {}

VARIABLES
    mainPC,        \* where the main thread is
    msg,           \* the request it handles
    selected,      \* selected_ppd, or new_ppd of a disk being accepted
    loaded,        \* PPD_COUNT as loaded by PPD_COUNT++
    first,         \* PPD_QUEUE.begin as read before its mutex is taken
    PPD_QUEUE,     \* the connections in the list, in order
    strays,        \* history: those whose id was looked for from a freed node
    status,        \* ppd->status
    requested,     \* the nodes whose flag requested is true
    PPD_COUNT,
    REQUEST_QUEUE, \* nodes [id, ppd_fd, write_count]
    PFS_QUEUE,     \* the PFS connections with a node (a mutex) in the list
    threadPC,      \* where the thread of each disk is
    held,          \* the request it holds a pointer to
    found,         \* the requests in the list when its request_take began
    retaken,       \* history: the writes a thread took after another had
    replanning,    \* replan_requests at work: its argument fd, and at, the id
                   \* of the last node it has done
    asked,         \* the requests received: [type, sector, pfs]
    answers,       \* what was answered to each of them
    pfs,           \* each PFS connection: "new", "open" or "left"
    alive,         \* the disks whose connection is up
    pending,       \* what each disk has to do
    outbox,        \* its answers on their way: [id, value]
    content,       \* its sectors
    crashed        \* the process has died of a bad pointer or of SIGPIPE

mainVars   == <<mainPC, msg, selected, loaded, first>>
ppdVars    == <<PPD_QUEUE, strays, status, requested, PPD_COUNT>>
takeVars   == <<held, found, retaken>>
threadVars == <<threadPC, takeVars, replanning>>
pfsVars    == <<asked, pfs, PFS_QUEUE>>
diskVars   == <<alive, pending, outbox, content>>
vars == <<mainVars, ppdVars, threadVars, REQUEST_QUEUE, pfsVars, answers,
          diskVars, crashed>>

Init ==
    /\ mainPC = "select" /\ msg = None /\ selected = None /\ loaded = 0
    /\ first = None /\ PPD_QUEUE = <<>> /\ strays = {} /\ requested = {} /\ PPD_COUNT = 0
    /\ status = [c \in Conns |-> None]
    /\ REQUEST_QUEUE = <<>> /\ PFS_QUEUE = {}
    /\ threadPC = [c \in Conns |-> "none"]
    /\ held = [c \in Conns |-> None]
    /\ found = [c \in Conns |-> {}] /\ retaken = {}
    /\ replanning = None
    /\ asked = <<>>
    /\ answers = [id \in Ids |-> <<>>]
    /\ pfs = [p \in Pfs |-> "new"]
    /\ alive = Conns
    /\ pending = [c \in Conns |-> <<>>]
    /\ outbox = [c \in Conns |-> <<>>]
    /\ content = [c \in Conns |-> [s \in Sectors |-> 0]]
    /\ crashed = FALSE

-----------------------------------------------------------------------------
(* Requests and disks.                                                      *)

isWrite(id) == asked[id].type = WRITE

\* request_search: the node of a request (id and sector name it), if any.
search(id) == {i \in DOMAIN REQUEST_QUEUE : REQUEST_QUEUE[i].id = id}

queued == {REQUEST_QUEUE[i].id : i \in DOMAIN REQUEST_QUEUE}

\* request_take: the list without the first node of that request.
take(id) == RemoveAt(REQUEST_QUEUE, Min(search(id)))

\* REQUEST_QUEUE_MUTEX is free: only replan_requests holds it across steps.
unlocked == \A c \in Conns : threadPC[c] # "walk"

\* Mutants of addNew: one answer too few, one too many.
addNewMissesOne(id, fd) ==
    Append(REQUEST_QUEUE, [id |-> id, ppd_fd |-> fd,
                           write_count |-> IF PPD_COUNT > 1 THEN PPD_COUNT - 1 ELSE 1])

addNewOneMore(id, fd) ==
    Append(REQUEST_QUEUE, [id |-> id, ppd_fd |-> fd, write_count |-> PPD_COUNT + 1])

\* request_addNew
addNew(id, fd) ==
    Append(REQUEST_QUEUE, [id |-> id, ppd_fd |-> fd, write_count |-> PPD_COUNT])

\* What send leaves in the queues of the disks.
sent(queues, targets, id) ==
    [c \in Conns |-> IF c \in targets \cap alive THEN Append(queues[c], id)
                                                 ELSE queues[c]]

\* A send to a connection the other side has closed may raise SIGPIPE, which
\* the process does not handle.
mayBreak(broken) == crashed' \in IF broken THEN BOOLEAN ELSE {FALSE}

\* PPDQUEUE_selectByLessRequests: the first READY node not requested since
\* all were; if there is none, the flags start anew with the first node.
fresh == {i \in DOMAIN PPD_QUEUE : /\ status[PPD_QUEUE[i]] = READY
                                   /\ PPD_QUEUE[i] \notin requested}
lessRequested == PPD_QUEUE[IF fresh # {} THEN Min(fresh) ELSE 1]
flagsAfter ==
    (IF fresh # {} THEN requested ELSE requested \ Range(PPD_QUEUE))
        \cup {lessRequested}

\* A NULL pointer or freed memory is followed.
Crash ==
    /\ crashed' = TRUE
    /\ UNCHANGED <<mainVars, ppdVars, threadVars, REQUEST_QUEUE, pfsVars,
                   answers, diskVars>>

-----------------------------------------------------------------------------
(* The main thread: PFS connections and requests.                           *)

\* pfs_handshake: without disks the PFS is refused, and leaves.
AcceptPFS(p) ==
    /\ mainPC = "select"
    /\ pfs[p] = "new"
    /\ PPD_COUNT >= 1
    /\ pfs' = [pfs EXCEPT ![p] = "open"]
    /\ PFS_QUEUE' = PFS_QUEUE \cup {p}
    /\ UNCHANGED <<mainVars, ppdVars, threadVars, REQUEST_QUEUE, asked,
                   answers, diskVars, crashed>>

\* One PFS that ends takes the nodes of all of them away.
PFSLeaves(p) ==
    /\ mainPC = "select"
    /\ p \in MayLeave
    /\ pfs[p] = "open"
    /\ pfs' = [pfs EXCEPT ![p] = "left"]
    /\ PFS_QUEUE' = {}
    /\ UNCHANGED <<mainVars, ppdVars, threadVars, REQUEST_QUEUE, asked,
                   answers, diskVars, crashed>>

\* Environment: but for the Late ones, disks come before requests.
settled ==
    \A c \in Conns \ Late : threadPC[c] # "start"

Receive(p, type, s) ==
    /\ mainPC = "select"
    /\ pfs[p] = "open"
    /\ Len(asked) < MaxRequests
    /\ settled
    /\ asked' = Append(asked, [type |-> type, sector |-> s, pfs |-> p])
    /\ msg' = Len(asked) + 1
    /\ UNCHANGED <<loaded, first, PPD_QUEUE, strays, status, PPD_COUNT, threadVars,
                   pfs, PFS_QUEUE, answers, diskVars>>

\* A write is queued, with PPD_COUNT answers to wait for (REQUEST_QUEUE_MUTEX).
ReceiveWrite(p, s) ==
    /\ unlocked
    /\ Receive(p, WRITE, s)
    /\ REQUEST_QUEUE' = addNew(msg', None)
    /\ mainPC' = "broadcast"
    /\ UNCHANGED <<selected, requested, crashed>>

\* Mutant of Broadcast: only to the disks selectByLessRequests would take.
BroadcastToFresh ==
    /\ mainPC = "broadcast"
    /\ LET targets == {PPD_QUEUE[i] : i \in fresh}
       IN  /\ pending' = sent(pending, targets, msg)
           /\ requested' = requested \cup targets
           /\ mayBreak(~ targets \subseteq alive)
    /\ mainPC' = "select" /\ msg' = None
    /\ UNCHANGED <<selected, loaded, first, PPD_QUEUE, strays, status, PPD_COUNT,
                   threadVars, REQUEST_QUEUE, pfsVars, answers, alive, outbox,
                   content>>

\* ... and sent to every READY disk (PPD_QUEUE_MUTEX).
Broadcast ==
    /\ mainPC = "broadcast"
    /\ LET targets == {c \in Range(PPD_QUEUE) : status[c] = READY}
       IN  /\ pending' = sent(pending, targets, msg)
           /\ requested' = requested \cup targets
           /\ mayBreak(~ targets \subseteq alive)
    /\ mainPC' = "select" /\ msg' = None
    /\ UNCHANGED <<selected, loaded, first, PPD_QUEUE, strays, status, PPD_COUNT,
                   threadVars, REQUEST_QUEUE, pfsVars, answers, alive, outbox,
                   content>>

\* A read: the disk is chosen first.
ReceiveRead(p, s) ==
    /\ PPD_QUEUE # <<>>
    /\ Receive(p, READ, s)
    /\ selected' = lessRequested
    /\ requested' = flagsAfter
    /\ mainPC' = "queueRead"
    /\ UNCHANGED <<REQUEST_QUEUE, crashed>>

\* PPD_QUEUE.begin->data of an empty list.
ReceiveReadWithoutDisks(p) ==
    /\ mainPC = "select" /\ pfs[p] = "open" /\ Len(asked) < MaxRequests
    /\ PPD_QUEUE = <<>>
    /\ Crash

\* selected_ppd->ppd_fd: the node is freed when its disk is lost.
fdOf(c) == IF c \in Range(PPD_QUEUE) THEN {c} ELSE {c, Garbage}

QueueRead ==
    /\ mainPC = "queueRead"
    /\ unlocked
    /\ \E fd \in fdOf(selected) : REQUEST_QUEUE' = addNew(msg, fd)
    /\ mainPC' = "sendRead"
    /\ UNCHANGED <<msg, selected, loaded, first, ppdVars, threadVars, pfsVars,
                   answers, diskVars, crashed>>

SendRead ==
    /\ mainPC = "sendRead"
    /\ \E fd \in fdOf(selected) :
          /\ pending' = sent(pending, {fd}, msg)
          /\ mayBreak(fd \in Conns \ alive)
    /\ mainPC' = "select" /\ msg' = None /\ selected' = None
    /\ UNCHANGED <<loaded, first, ppdVars, threadVars, REQUEST_QUEUE, pfsVars,
                   answers, alive, outbox, content>>

-----------------------------------------------------------------------------
(* The main thread: disks.                                                  *)

\* Late disks apart, connections are made before the first request.
connects(c) == threadPC[c] = "none" /\ c \in alive /\ (c \in Late \/ asked = <<>>)

\* ppd_handshake: PPDQUEUE_getByID reads where the list begins ...
ReadBegin ==
    /\ mainPC = "select"
    /\ \E c \in Conns : connects(c)
    /\ mainPC' = "handshake"
    /\ first' = IF PPD_QUEUE = <<>> THEN None ELSE Head(PPD_QUEUE)
    /\ UNCHANGED <<msg, selected, loaded, ppdVars, threadVars, REQUEST_QUEUE,
                   pfsVars, answers, diskVars, crashed>>

\* ... and walks from there under PPD_QUEUE_MUTEX; the thread of that disk may
\* have freed the node meanwhile, and what is found from it is anything.
astray == first # None /\ first \notin Range(PPD_QUEUE)

mayConnect(c) == mainPC = "handshake" /\ connects(c)

\* Mutant of known: the connection is looked for, not the disk.
knownConnection(c) == c \in Range(PPD_QUEUE)

\* ppd_handshake refuses an id that is in the list.
known(c) == \E d \in Range(PPD_QUEUE) : DiskOf[d] = DiskOf[c]

RefusePPD(c) ==
    /\ mayConnect(c)
    /\ astray \/ known(c)
    /\ threadPC' = [threadPC EXCEPT ![c] = "refused"]
    /\ mainPC' = "select" /\ first' = None
    /\ UNCHANGED <<msg, selected, loaded, ppdVars, takeVars, replanning,
                   REQUEST_QUEUE, pfsVars, answers, diskVars, crashed>>

\* PPDQUEUE_addNewPPD up to PPD_COUNT++; requested is what malloc left there.
AcceptPPD(c) ==
    /\ mayConnect(c)
    /\ astray \/ ~ known(c)
    /\ strays' = IF astray THEN strays \cup {c} ELSE strays
    /\ status' = [status EXCEPT ![c] = IF PPD_COUNT = 0 THEN READY ELSE WAIT_SYNCH]
    /\ PPD_QUEUE' = Append(PPD_QUEUE, c)
    /\ requested' \in {requested \cup {c}, requested \ {c}}
    /\ selected' = c /\ first' = None
    /\ mainPC' = "count"
    /\ UNCHANGED <<msg, loaded, PPD_COUNT, threadVars, REQUEST_QUEUE, pfsVars,
                   answers, diskVars, crashed>>

FollowFreed == mainPC = "handshake" /\ astray /\ Crash

\* PPD_COUNT++ outside PPD_QUEUE_MUTEX: a load and a store.
LoadCount ==
    /\ mainPC = "count"
    /\ loaded' = PPD_COUNT
    /\ mainPC' = "store"
    /\ UNCHANGED <<msg, selected, first, ppdVars, threadVars, REQUEST_QUEUE,
                   pfsVars, answers, diskVars, crashed>>

\* Mutant of StoreCount: the new disk is not counted.
StoreCountForgets ==
    /\ mainPC = "store"
    /\ PPD_COUNT' = loaded
    /\ threadPC' = [threadPC EXCEPT ![selected] = "start"]
    /\ mainPC' = "select" /\ selected' = None /\ loaded' = 0
    /\ UNCHANGED <<msg, first, PPD_QUEUE, strays, status, requested, takeVars,
                   replanning, REQUEST_QUEUE, pfsVars, answers, diskVars, crashed>>

\* ... and pthread_create.
StoreCount ==
    /\ mainPC = "store"
    /\ PPD_COUNT' = loaded + 1
    /\ threadPC' = [threadPC EXCEPT ![selected] = "start"]
    /\ mainPC' = "select" /\ selected' = None /\ loaded' = 0
    /\ UNCHANGED <<msg, first, PPD_QUEUE, strays, status, requested, takeVars,
                   replanning, REQUEST_QUEUE, pfsVars, answers, diskVars, crashed>>

-----------------------------------------------------------------------------
(* The thread of a disk.                                                    *)

goes(c, from, to) ==
    /\ threadPC[c] = from
    /\ threadPC' = [threadPC EXCEPT ![c] = to]

\* The status is READY before it is compared with WAIT_SYNCH, so the
\* synchronizer never runs.
StartThread(c) ==
    /\ goes(c, "start", "recv")
    /\ status' = [status EXCEPT ![c] = READY]
    /\ UNCHANGED <<mainVars, PPD_QUEUE, strays, requested, PPD_COUNT, takeVars,
                   replanning, REQUEST_QUEUE, pfsVars, answers, diskVars, crashed>>

received(c) == Head(outbox[c])

\* The send of an answer to its PFS.
answer(id, value) ==
    LET there == pfs[asked[id].pfs] = "open"
    IN  /\ answers' = IF there THEN [answers EXCEPT ![id] = Append(@, value)]
                               ELSE answers
        /\ mayBreak(~ there)

\* Mutant of discounted: a signed count.
discountedSigned(r) == [r EXCEPT !.write_count = @ - 1]

\* request->write_count--
discounted(r) == [r EXCEPT !.write_count = (@ + CountMod - 1) % CountMod]

\* The answer to a write: search and discount under REQUEST_QUEUE_MUTEX.
ReceiveWriteAnswer(c) ==
    /\ threadPC[c] = "recv" /\ outbox[c] # <<>>
    /\ unlocked
    /\ isWrite(received(c).id)
    /\ search(received(c).id) # {}
    /\ REQUEST_QUEUE' = [i \in DOMAIN REQUEST_QUEUE |->
          IF i \in search(received(c).id) THEN discounted(REQUEST_QUEUE[i])
                                          ELSE REQUEST_QUEUE[i]]
    /\ held' = [held EXCEPT ![c] = received(c).id]
    /\ outbox' = [outbox EXCEPT ![c] = Tail(@)]
    /\ goes(c, "recv", "test")
    /\ UNCHANGED <<mainVars, ppdVars, found, retaken, replanning, pfsVars, answers,
                   alive, pending, content, crashed>>

\* Mutant of TestCount: complete when one answer is missing.
TestCountEarly(c) ==
    /\ \/ /\ \A i \in search(held[c]) : REQUEST_QUEUE[i].write_count <= 1
          /\ goes(c, "test", "take")
          /\ found' = [found EXCEPT ![c] = queued]
          /\ UNCHANGED held
       \/ /\ \A i \in search(held[c]) : REQUEST_QUEUE[i].write_count > 1
          /\ goes(c, "test", "recv")
          /\ held' = [held EXCEPT ![c] = None]
          /\ UNCHANGED found
    /\ UNCHANGED <<mainVars, ppdVars, retaken, replanning, REQUEST_QUEUE, pfsVars,
                   answers, diskVars, crashed>>

\* The mutex is released before write_count is tested; another thread may have
\* freed the request.  If it is 0, request_take begins, without the mutex.
TestCount(c) ==
    /\ \/ /\ \A i \in search(held[c]) : REQUEST_QUEUE[i].write_count = 0
          /\ goes(c, "test", "take")
          /\ found' = [found EXCEPT ![c] = queued]
          /\ UNCHANGED held
       \/ /\ \A i \in search(held[c]) : REQUEST_QUEUE[i].write_count # 0
          /\ goes(c, "test", "recv")
          /\ held' = [held EXCEPT ![c] = None]
          /\ UNCHANGED found
    /\ UNCHANGED <<mainVars, ppdVars, retaken, replanning, REQUEST_QUEUE, pfsVars,
                   answers, diskVars, crashed>>

\* The unlink is not atomic: if the node was the last one when request_take
\* began, what was appended since may be lost.
unlinks(c, rest) ==
    \/ REQUEST_QUEUE' = rest
    \/ /\ \A id \in found[c] : id <= held[c]
       /\ \E n \in 0 .. Len(rest) :
             /\ \A i \in DOMAIN rest : i <= n <=> rest[i].id < held[c]
             /\ REQUEST_QUEUE' = SubSeq(rest, 1, n)

endsTake(c) ==
    /\ goes(c, "take", "recv")
    /\ held[c] \in found[c]
    /\ held' = [held EXCEPT ![c] = None]
    /\ found' = [found EXCEPT ![c] = {}]
    /\ UNCHANGED <<mainVars, ppdVars, replanning, pfsVars, diskVars>>

\* request_take finds the node; the answer, request_free.
TakeWrite(c) ==
    /\ endsTake(c)
    /\ search(held[c]) # {}
    /\ unlinks(c, take(held[c]))
    /\ answer(held[c], held[c])
    /\ UNCHANGED retaken

\* It had found the node when another thread, which had found it too, unlinked
\* it: the same request is answered and freed again, if its memory still names
\* the PFS.
TakeAgain(c) ==
    /\ endsTake(c)
    /\ search(held[c]) = {}
    /\ unlinks(c, REQUEST_QUEUE)
    /\ answer(held[c], held[c]) \/ UNCHANGED <<answers, crashed>>
    /\ retaken' = retaken \cup {held[c]}

\* Mutant of ReceiveReadAnswer: request_search instead of request_take.
AnswerKeepsRequest(c) ==
    /\ threadPC[c] = "recv" /\ outbox[c] # <<>>
    /\ unlocked
    /\ ~ isWrite(received(c).id)
    /\ search(received(c).id) # {}
    /\ PPD_COUNT > 1 => asked[received(c).id].pfs \in PFS_QUEUE
    /\ answer(received(c).id, received(c).value)
    /\ outbox' = [outbox EXCEPT ![c] = Tail(@)]
    /\ UNCHANGED <<mainVars, ppdVars, threadVars, REQUEST_QUEUE, pfsVars,
                   alive, pending, content>>

\* A request is taken under the mutex and answered; with several disks the PFS
\* must have a node, whose mutex is locked.
ReceiveReadAnswer(c) ==
    /\ threadPC[c] = "recv" /\ outbox[c] # <<>>
    /\ unlocked
    /\ ~ isWrite(received(c).id)
    /\ search(received(c).id) # {}
    /\ PPD_COUNT > 1 => asked[received(c).id].pfs \in PFS_QUEUE
    /\ REQUEST_QUEUE' = take(received(c).id)
    /\ answer(received(c).id, received(c).value)
    /\ outbox' = [outbox EXCEPT ![c] = Tail(@)]
    /\ UNCHANGED <<mainVars, ppdVars, threadVars, pfsVars, alive, pending, content>>

\* Nodes are freed without REQUEST_QUEUE_MUTEX, so a walk may meet a freed one.
freeing == \E c \in Conns : threadPC[c] \in {"take", "standby"}

\* request_search or request_take returns NULL and is followed, or
\* PFSQUEUE_getMutex returns NULL and is locked; or freed memory is followed, in
\* a walk under the mutex or in the one of request_take without it.
FollowNull(c) ==
    /\ \/ /\ threadPC[c] = "recv" /\ outbox[c] # <<>>
          /\ unlocked
          /\ \/ search(received(c).id) = {}
             \/ freeing
             \/ /\ ~ isWrite(received(c).id)
                /\ PPD_COUNT > 1
                /\ asked[received(c).id].pfs \notin PFS_QUEUE
       \/ /\ threadPC[c] = "take"
          /\ search(held[c]) = {} \/ found[c] # queued
    /\ Crash

\* PPDQUEUE_removePPD: the list without its first node of that id.
removePPD(id) ==
    LET nodes == {i \in DOMAIN PPD_QUEUE : DiskOf[PPD_QUEUE[i]] = id}
    IN  IF nodes = {} THEN PPD_QUEUE ELSE RemoveAt(PPD_QUEUE, Min(nodes))

\* recv returns 0: out of the list, one disk less (PPD_QUEUE_MUTEX).
NoticeDeath(c) ==
    /\ c \notin alive /\ outbox[c] = <<>>
    /\ goes(c, "recv", "lost")
    /\ c \notin Range(removePPD(DiskOf[c]))
    /\ PPD_QUEUE' = removePPD(DiskOf[c])
    /\ requested' = requested \ {c}
    /\ status' = [status EXCEPT ![c] = None]
    /\ PPD_COUNT' = PPD_COUNT - 1
    /\ UNCHANGED <<mainVars, strays, takeVars, replanning, REQUEST_QUEUE, pfsVars,
                   answers, diskVars, crashed>>

\* The first node of that id is another disk's, and its thread works on with it.
FreesAnother(c) ==
    /\ threadPC[c] = "recv" /\ c \notin alive /\ outbox[c] = <<>>
    /\ c \in Range(removePPD(DiskOf[c]))
    /\ Crash

\* PPD_COUNT > 0, read after the mutex is released.
CheckCount(c) ==
    /\ goes(c, "lost", IF PPD_COUNT > 0 THEN "replan" ELSE "standby")
    /\ UNCHANGED <<mainVars, ppdVars, takeVars, replanning, REQUEST_QUEUE, pfsVars,
                   answers, diskVars, crashed>>

\* replan_requests takes REQUEST_QUEUE_MUTEX and goes through the list.  Its
\* argument is ppd_info->ppd_fd, and ppd_info is freed.
Replan(c) ==
    /\ goes(c, "replan", "walk")
    /\ unlocked
    /\ \E fd \in fdOf(c) : replanning' = [fd |-> fd, at |-> 0]
    /\ UNCHANGED <<mainVars, ppdVars, takeVars, REQUEST_QUEUE, pfsVars, answers,
                   diskVars, crashed>>

\* The nodes it has still to do something about, in order of their ids: writes
\* and the reads of this descriptor.
toReplan ==
    {i \in DOMAIN REQUEST_QUEUE :
        /\ REQUEST_QUEUE[i].id > replanning.at
        /\ REQUEST_QUEUE[i].ppd_fd \in {None, replanning.fd}}

nextReplanned(c) ==
    /\ threadPC[c] = "walk"
    /\ toReplan # {}
    /\ replanning' = [replanning EXCEPT !.at = REQUEST_QUEUE[Min(toReplan)].id]

\* A write waits for one answer less.
ReplanWrite(c) ==
    /\ nextReplanned(c)
    /\ LET i == Min(toReplan)
       IN  /\ REQUEST_QUEUE[i].ppd_fd = None
           /\ REQUEST_QUEUE' = IF REQUEST_QUEUE[i].write_count > 0
                               THEN [REQUEST_QUEUE EXCEPT ![i] = discounted(@)]
                               ELSE REQUEST_QUEUE
    /\ UNCHANGED <<mainVars, ppdVars, threadPC, takeVars, pfsVars, answers,
                   diskVars, crashed>>

\* A read is sent to another disk; its ppd_fd stays.
ReplanRead(c) ==
    /\ nextReplanned(c)
    /\ LET r == REQUEST_QUEUE[Min(toReplan)]
       IN  /\ r.ppd_fd # None
           /\ PPD_QUEUE # <<>>
           /\ pending' = sent(pending, {lessRequested}, r.id)
    /\ requested' = flagsAfter
    /\ mayBreak(lessRequested \notin alive)
    /\ UNCHANGED <<mainVars, PPD_QUEUE, strays, status, PPD_COUNT, threadPC,
                   takeVars, REQUEST_QUEUE, pfsVars, answers, alive, outbox, content>>

\* There is no disk left to send it to; or a node the walk stands at or comes to
\* was freed by request_take or standby, which do not take the mutex.
ReplanFollowsNull(c) ==
    /\ threadPC[c] = "walk"
    /\ \/ /\ toReplan # {}
          /\ REQUEST_QUEUE[Min(toReplan)].ppd_fd # None
          /\ PPD_QUEUE = <<>>
       \/ replanning.at # 0 /\ search(replanning.at) = {}
       \/ freeing
    /\ Crash

EndReplan(c) ==
    /\ goes(c, "walk", "done")
    /\ toReplan = {}
    /\ replanning' = None
    /\ UNCHANGED <<mainVars, ppdVars, takeVars, REQUEST_QUEUE, pfsVars, answers,
                   diskVars, crashed>>

\* The last disk is gone: requests are forgotten, the PFS that have a node
\* are disconnected.
Standby(c) ==
    /\ goes(c, "standby", "done")
    /\ REQUEST_QUEUE' = <<>>
    /\ pfs' = [p \in Pfs |-> IF p \in PFS_QUEUE THEN "left" ELSE pfs[p]]
    /\ PFS_QUEUE' = {}
    /\ UNCHANGED <<mainVars, ppdVars, takeVars, replanning, asked, answers,
                   diskVars, crashed>>

-----------------------------------------------------------------------------
(* The disks.                                                               *)

\* DiskService!Perform: nothing passes an earlier write of its sector.
mayPass(c, i) ==
    \A j \in 1 .. i - 1 :
        ~ (/\ isWrite(pending[c][j])
           /\ asked[pending[c][j]].sector = asked[pending[c][i]].sector)

Perform(c, i) ==
    /\ c \in alive
    /\ mayPass(c, i)
    /\ LET id == pending[c][i]
           s  == asked[id].sector
       IN  /\ content' = IF isWrite(id) THEN [content EXCEPT ![c][s] = id] ELSE content
           /\ outbox' = [outbox EXCEPT ![c] =
                            Append(@, [id |-> id, value |-> content'[c][s]])]
    /\ pending' = [pending EXCEPT ![c] = RemoveAt(@, i)]
    /\ UNCHANGED <<mainVars, ppdVars, threadVars, REQUEST_QUEUE, pfsVars,
                   answers, alive, crashed>>

\* What it had sent still arrives.
Die(c) ==
    /\ c \in MayDie \cap alive
    /\ threadPC[c] \notin {"none", "refused"}
    /\ alive' = alive \ {c}
    /\ pending' = [pending EXCEPT ![c] = <<>>]
    /\ UNCHANGED <<mainVars, ppdVars, threadVars, REQUEST_QUEUE, pfsVars,
                   answers, outbox, content, crashed>>

-----------------------------------------------------------------------------
MainGoesOn ==
    \/ Broadcast \/ QueueRead \/ SendRead
    \/ \E c \in Conns : RefusePPD(c) \/ AcceptPPD(c)
    \/ FollowFreed \/ LoadCount \/ StoreCount

MainNext ==
    \/ \E p \in Pfs : AcceptPFS(p) \/ PFSLeaves(p) \/ ReceiveReadWithoutDisks(p)
    \/ \E p \in Pfs, s \in Sectors : ReceiveWrite(p, s) \/ ReceiveRead(p, s)
    \/ ReadBegin
    \/ MainGoesOn

ThreadNext(c) ==
    \/ StartThread(c) \/ ReceiveWriteAnswer(c) \/ TestCount(c) \/ TakeWrite(c)
    \/ TakeAgain(c) \/ ReceiveReadAnswer(c) \/ FollowNull(c) \/ NoticeDeath(c)
    \/ FreesAnother(c) \/ CheckCount(c) \/ Replan(c) \/ ReplanWrite(c) \/ ReplanRead(c) \/ ReplanFollowsNull(c)
    \/ EndReplan(c) \/ Standby(c)

DiskWorks(c) == \E i \in DOMAIN pending[c] : Perform(c, i)

Next ==
    /\ ~ crashed
    /\ \/ MainNext
       \/ \E c \in Conns : ThreadNext(c) \/ DiskWorks(c) \/ Die(c)

\* Threads are scheduled and disks work; nobody has to connect or to ask.
Fairness ==
    /\ WF_vars(~ crashed /\ MainGoesOn)
    /\ \A c \in Conns : /\ WF_vars(~ crashed /\ ThreadNext(c))
                        /\ WF_vars(~ crashed /\ DiskWorks(c))

Spec == Init /\ [][Next]_vars
FairSpec == Spec /\ Fairness

-----------------------------------------------------------------------------
\* Types; among them that write_count stays a uint32_t.
MainTypes ==
    /\ mainPC \in {"select", "broadcast", "queueRead", "sendRead", "handshake",
                   "count", "store"}
    /\ msg \in Ids \cup {None}
    /\ selected \in Conns \cup {None}
    /\ loaded \in 0 .. Cardinality(Conns)
    /\ first \in Conns \cup {None}
ListTypes ==
    /\ PPD_QUEUE \in Seq(Conns) /\ IsInjective(PPD_QUEUE)
    /\ requested \subseteq Conns /\ strays \subseteq Conns
    /\ status \in [Conns -> {READY, WAIT_SYNCH, None}]
    /\ PPD_COUNT \in 0 .. Cardinality(Conns)
Requests == [id : Ids, ppd_fd : Conns \cup {Garbage, None},
             write_count : 0 .. CountMod - 1]
Replannings == [fd : Conns \cup {Garbage}, at : 0 .. MaxRequests]
ThreadTypes ==
    /\ threadPC \in [Conns -> {"none", "refused", "start", "recv", "test", "take",
                              "lost", "replan", "walk", "standby", "done"}]
    /\ held \in [Conns -> Ids \cup {None}]
    /\ found \in [Conns -> SUBSET Ids] /\ retaken \subseteq Ids
    /\ replanning \in Replannings \cup {None}
PfsTypes ==
    /\ PFS_QUEUE \subseteq Pfs
    /\ asked \in Seq([type : {READ, WRITE}, sector : Sectors, pfs : Pfs])
    /\ Len(asked) <= MaxRequests
    /\ pfs \in [Pfs -> {"new", "open", "left"}]
DiskTypes ==
    /\ alive \subseteq Conns
    /\ pending \in [Conns -> Seq(Ids)]
    /\ outbox \in [Conns -> Seq([id : Ids, value : 0 .. MaxRequests])]
    /\ content \in [Conns -> [Sectors -> 0 .. MaxRequests]]
TypeOK ==
    /\ MainTypes /\ ListTypes /\ REQUEST_QUEUE \in Seq(Requests) /\ ThreadTypes
    /\ PfsTypes /\ answers \in [Ids -> Seq(0 .. MaxRequests)] /\ DiskTypes
    /\ crashed \in BOOLEAN

serving == Range(PPD_QUEUE) \cap alive

\* The write that will be the content of a sector when the disk has done
\* everything it was sent.
lastWrite(c, s) ==
    Max({content[c][s]} \cup {w \in Range(pending[c]) :
                                isWrite(w) /\ asked[w].sector = s})

\* Between two messages of the main thread the disks that serve are, or will
\* be without any further request, copies of each other: what praid.c:154-169
\* sends under PPD_QUEUE_MUTEX reaches all of them in one order, also when
\* disks are lost meanwhile.
DisksAgree ==
    mainPC # "broadcast" =>
        \A c, d \in serving, s \in Sectors : lastWrite(c, s) = lastWrite(d, s)

\* A PFS that has the answer to a write can lose any disk: the write is on all
\* that serve (write_count, ppd_thread.c:84-92).  So it is as long as no disk is
\* lost, and with two disks also after one is; with three, replan_requests can
\* discount a disk that had answered, or was never counted, and the write is
\* answered one disk too early.
AckMeansMirrored ==
    \A w \in DOMAIN asked :
        isWrite(w) /\ answers[w] # <<>> =>
            \A c \in serving : content[c][asked[w].sector] >= w

\* A PFS gets a second answer to a request in one case alone: two threads found
\* a write complete and were in request_take, which then takes no mutex, at once
\* (ppd_thread.c:87-91).  Neither a read that replan_requests sent to several
\* disks nor a thread that comes late to a write is answered again: the PFS
\* counts answers, it does not look at their ids (PFS/src/pfs_comm.c:118-142).
AtMostOneAnswer == \A id \in Ids \ retaken : Len(answers[id]) <= 1

\* ppd_handshake keeps the ids of the disks apart, though disks leave the list
\* in their own threads at any time: a disk has the id of one before it in the
\* list only if the walk that looked for it began at a freed node
\* (ppd_queue.c:97).  PPDQUEUE_removePPD finds a node by its id.
DistinctDisks ==
    \A i, j \in DOMAIN PPD_QUEUE :
        i < j /\ DiskOf[PPD_QUEUE[i]] = DiskOf[PPD_QUEUE[j]]
            => PPD_QUEUE[j] \in strays

\* PPD_COUNT++ without the mutex may lose a decrement, never an increment: the
\* count covers the list but for the disk being counted, so while a disk is in
\* service no PFS is refused (praid.c:203).
CountCovers ==
    PPD_COUNT + (IF mainPC \in {"count", "store"} THEN 1 ELSE 0) >= Len(PPD_QUEUE)

\* What makes the two inductive: a disk is in the list once, and one whose
\* thread works is; the one being counted has no thread yet, and the value
\* loaded for it can only have become too high.
ListInv ==
    /\ PPD_QUEUE \in Seq(Conns) /\ IsInjective(PPD_QUEUE)
    /\ PPD_COUNT \in Nat /\ loaded \in Nat
    /\ DOMAIN threadPC = Conns
    /\ DistinctDisks
    /\ CountCovers
    /\ \A c \in Conns : threadPC[c] \in {"start", "recv", "test", "take"}
                          => c \in Range(PPD_QUEUE)
    /\ \A c \in Range(PPD_QUEUE) :
          threadPC[c] = "none" => mainPC \in {"count", "store"} /\ c = selected
    /\ mainPC \in {"count", "store"} =>
          selected \in Range(PPD_QUEUE) /\ threadPC[selected] = "none"
    /\ mainPC = "store" => loaded >= PPD_COUNT

waitingFor(id) ==
    {c \in Conns : \/ id \in Range(pending[c])
                   \/ \E i \in DOMAIN outbox[c] : outbox[c][i].id = id}

\* While no disk is lost write_count is the number of disks whose answer the
\* main process has not counted yet (request_handler.c:29 sets it from
\* PPD_COUNT, praid.c:161 sends by status).
WriteCountExact ==
    alive = Conns /\ ~ crashed =>
        \A i \in DOMAIN REQUEST_QUEUE :
            LET r == REQUEST_QUEUE[i]
            IN  isWrite(r.id) /\ r.id # msg =>
                    r.write_count = Cardinality(waitingFor(r.id))

\* As long as every disk and every PFS stays, there is after every request a
\* time when all that were received are answered, or the process dies of what
\* request_take does without the mutex.
EveryRequestAnswered ==
    asked # <<>> ~> \/ \A id \in DOMAIN asked : answers[id] # <<>>
                    \/ crashed
                    \/ alive # Conns
                    \/ \E p \in Pfs : pfs[p] = "left"

\* ppd_thread.c:61, "VERIFICAR QUE NO SEA CERO ANTES DE DECREMENTAR": when the
\* answer to a write is counted the write still waits for one.
CountedOnlyIfAwaited ==
    [][\A c \in Conns : threadPC[c] = "recv" /\ threadPC'[c] = "test" =>
          \A i \in DOMAIN REQUEST_QUEUE :
              REQUEST_QUEUE[i].id = held'[c] => REQUEST_QUEUE[i].write_count > 0]_vars

\* ppd_thread.c:137, "REORGANIZAR REQUESTS DE ESTE DISCO": when the threads of
\* lost disks have ended and a disk is left, every queued read is at a disk, or
\* its answer is on the way, or the main thread is about to send it.
ReadsReorganised ==
    /\ ~ crashed
    /\ serving # {}
    /\ \A c \in Conns \ alive : threadPC[c] = "done"
    =>
        \A i \in DOMAIN REQUEST_QUEUE :
            LET r == REQUEST_QUEUE[i].id
            IN  isWrite(r) \/ r = msg \/ waitingFor(r) # {}
=============================================================================
