-------------------------------- MODULE PPD ---------------------------------
(***************************************************************************)
(* The PPD process: the main thread (PPD/src/ppd.c, ppd_comm.c) receives   *)
(* messages in its select loop and queues sector requests, the TAKER       *)
(* thread (ppd_taker.c) takes them one by one in the order of FSCAN or     *)
(* SSTF, performs them on the mapped disk file and answers.                *)
(*                                                                         *)
(* The two share two queues, the flag that says which one is active, three *)
(* semaphores and the head position.  A step is one access that the other  *)
(* thread can observe: a semaphore operation, a read of a list's begin, an *)
(* append, a change of the flag.                                           *)
(***************************************************************************)
EXTENDS Scheduling, FiniteSets

CONSTANTS
    Algorithms,        \* what Algorithm= of ppd.config may be: "FSCAN", SSTF
    InitialDirection,  \* UP or DOWN (ppd.config)
    InitialHead,       \* HeadPosition of ppd.config
    LogInfo,           \* LogFlag=INFO: the look-ahead runs on every request
    QueueAvailable,    \* initial value of queueAvailableMutex (5000)
    Fds,               \* descriptors of the connections, as numbers
    ConsoleFd,         \* the one the console is connected on
    ConsoleCommands,   \* what the user may type: "info", "james", "exit"
    Types,             \* the types of request the clients send
    Sectors,           \* the sectors they name
    Data,              \* contents of a sector
    InitialData,       \* contents of every sector at start
    Ids,               \* names for outstanding requests (numbers)
    None               \* no request in hand

ASSUME PPDAssumption ==
    /\ Algorithms \subseteq {"FSCAN", SSTF}
    /\ InitialDirection \in {UP, DOWN}
    /\ InitialHead \in SectorNums
    /\ LogInfo \in BOOLEAN
    /\ QueueAvailable \in Nat \ {0}
    /\ Fds \subseteq Nat
    /\ ConsoleFd \in Nat
    /\ ConsoleCommands \subseteq {"info", "james", "exit"}
    /\ Types \subseteq {READ, WRITE, TRACE}
    /\ Sectors \subseteq SectorNums
    /\ InitialData \in Data
    /\ Ids \subseteq Nat

\* request_t.  A read or a trace carries no payload: InitialData stands for it.
Requests ==
    [id : Ids, sender : Fds, type : Types, sector : Sectors, data : Data]

\* The message TRANSLATE_fromRequestToChar builds: id, type, the sector number
\* computed back from the CHS, and a content.
Answers ==
    [id : Ids, sender : Fds, type : Types, sector : SectorNums, data : Data]

ASSUME NoneAssumption == None \notin Requests \cup Answers

VARIABLES
    mainPC,          \* where the main thread is
    currFD,          \* the descriptor its loop over the fd_set has reached
    Exit,            \* the global Exit
    incoming,        \* request built from the message being handled
    takerPC,         \* where the taker is
    request,         \* the request it has taken
    answer,          \* the message it will send
    announced,       \* the request its look-ahead named as the next one
    queue1, queue2,  \* multiQueue->queue1, queue2
    qflag,           \* QUEUE1_ACTIVE, QUEUE2_ACTIVE or SSTF
    direction,       \* multiQueue->direction
    queueElemSem,    \* multiQueue->queueElemSem
    queueMutex,      \* queueMutex: 1 when free
    queueAvailable,  \* queueAvailableMutex
    HeadPosition, TracePosition,
    disk             \* the mapped file

mainVars  == <<mainPC, currFD, Exit, incoming>>
inHand    == <<request, answer, announced>>
takerVars == <<takerPC, inHand>>
queueVars == <<queue1, queue2, qflag>>
headVars  == <<direction, HeadPosition, TracePosition>>
semVars   == <<queueElemSem, queueMutex, queueAvailable>>
vars == <<mainVars, takerVars, queueVars, headVars, semVars, disk>>

-----------------------------------------------------------------------------
\* Mutant of passiveIs1: main appends to the queue that is being served.
appendsToActive == qflag # "QUEUE2_ACTIVE"

\* QMANAGER_selectPassiveQueue / selectActiveQueue, as the queue they return.
activeIs1 == qflag # "QUEUE2_ACTIVE"
passiveIs1 == qflag = "QUEUE2_ACTIVE" \/ qflag = SSTF

activeQueue == IF activeIs1 THEN queue1 ELSE queue2

\* Ids of requests that have not been answered yet.
outstanding ==
    {r.id : r \in ({queue1[i] : i \in DOMAIN queue1}
                     \cup {queue2[i] : i \in DOMAIN queue2}
                     \cup {incoming, request}) \ {None}}

\* A client's next request: it names it with the smallest id not in use.
newRequests(fd) ==
    {r \in Requests :
        /\ r.sender = fd
        /\ r.id \notin outstanding
        /\ \A i \in Ids \ outstanding : r.id <= i
        /\ r.type # WRITE => r.data = InitialData}

Init ==
    /\ mainPC = "select" /\ currFD = 0 /\ Exit = 0 /\ incoming = None
    /\ takerPC = "loop" /\ request = None /\ answer = None
    /\ announced = None
    /\ queue1 = <<>> /\ queue2 = <<>>
    /\ \E algorithm \in Algorithms :
        /\ qflag = IF algorithm = SSTF THEN SSTF ELSE "QUEUE1_ACTIVE"
        /\ direction = IF algorithm = SSTF THEN SSTF ELSE InitialDirection
    /\ queueElemSem = 0 /\ queueMutex = 1 /\ queueAvailable = QueueAvailable
    /\ HeadPosition = InitialHead /\ TracePosition = InitialHead
    /\ disk = [s \in SectorNums |-> InitialData]

-----------------------------------------------------------------------------
(* The main thread.  Any connection may have data when select returns, and *)
(* the loop goes on to higher descriptors that had data in the same round. *)

\* Mutant of mayReceive: the descriptors of a round in any order.
mayReceiveInAnyOrder(fd) == mainPC \in {"select", "round"}

mayReceive(fd) ==
    \/ mainPC = "select"
    \/ mainPC = "round" /\ fd > currFD

\* COMM_handleReceive, PPDCONSOLE_INFO: answers the position; the hidden
\* command "james" also moves the head to sector 7.  The result resets Exit.
ReceiveInfo(command) ==
    /\ command \in ConsoleCommands \cap {"info", "james"}
    /\ mayReceive(ConsoleFd)
    /\ HeadPosition' = IF command = "james" THEN 7 ELSE HeadPosition
    /\ mainPC' = "round" /\ currFD' = ConsoleFd /\ Exit' = 0
    /\ UNCHANGED <<incoming, takerVars, queueVars, direction, TracePosition,
                   semVars, disk>>

\* PPDCONSOLE_EXIT: Exit = 1, looked at when the round is over.
ReceiveExit ==
    /\ "exit" \in ConsoleCommands
    /\ mayReceive(ConsoleFd)
    /\ mainPC' = "round" /\ currFD' = ConsoleFd /\ Exit' = 1
    /\ UNCHANGED <<incoming, takerVars, queueVars, headVars, semVars, disk>>

\* Read, write or trace: TRANSLATE_fromCharToRequest.
ReceiveRequest(fd) ==
    /\ mayReceive(fd)
    /\ incoming' \in newRequests(fd)
    /\ mainPC' = "available" /\ currFD' = fd
    /\ UNCHANGED <<Exit, takerVars, queueVars, headVars, semVars, disk>>

\* sem_wait(&queueAvailableMutex)
WaitAvailable ==
    /\ mainPC = "available"
    /\ queueAvailable > 0
    /\ queueAvailable' = queueAvailable - 1
    /\ mainPC' = "lock"
    /\ UNCHANGED <<currFD, Exit, incoming, takerVars, queueVars, headVars,
                   queueElemSem, queueMutex, disk>>

\* sem_wait(&queueMutex)
LockQueues ==
    /\ mainPC = "lock"
    /\ queueMutex = 1
    /\ queueMutex' = 0
    /\ mainPC' = "append"
    /\ UNCHANGED <<currFD, Exit, incoming, takerVars, queueVars, headVars,
                   queueElemSem, queueAvailable, disk>>

\* QUEUE_appendNode on the passive queue.
AppendRequest ==
    /\ mainPC = "append"
    /\ IF passiveIs1
       THEN queue1' = Append(queue1, incoming) /\ UNCHANGED queue2
       ELSE queue2' = Append(queue2, incoming) /\ UNCHANGED queue1
    /\ incoming' = None
    /\ mainPC' = "post"
    /\ UNCHANGED <<currFD, Exit, takerVars, qflag, headVars, semVars, disk>>

\* sem_post(&multiQueue->queueElemSem)
PostElement ==
    /\ mainPC = "post"
    /\ queueElemSem' = queueElemSem + 1
    /\ mainPC' = "unlock"
    /\ UNCHANGED <<currFD, Exit, incoming, takerVars, queueVars, headVars,
                   queueMutex, queueAvailable, disk>>

\* sem_post(&queueMutex); handleReceive returns 0, which main keeps in Exit.
UnlockQueues ==
    /\ mainPC = "unlock"
    /\ queueMutex' = 1
    /\ Exit' = 0
    /\ mainPC' = "round"
    /\ UNCHANGED <<currFD, incoming, takerVars, queueVars, headVars,
                   queueElemSem, queueAvailable, disk>>

\* No higher descriptor had data: the loop ends, and main leaves on Exit.
EndRound ==
    /\ mainPC = "round"
    /\ mainPC' = IF Exit = 1 THEN "shutdown" ELSE "select"
    /\ currFD' = 0
    /\ UNCHANGED <<Exit, incoming, takerVars, queueVars, headVars, semVars,
                   disk>>

\* main frees queues and disk and returns; the process dies with the taker
\* wherever it is.
Shutdown ==
    /\ mainPC = "shutdown"
    /\ mainPC' = "exited"
    /\ UNCHANGED <<currFD, Exit, incoming, takerVars, queueVars, headVars,
                   semVars, disk>>

MainNext ==
    \/ \E command \in {"info", "james"} : ReceiveInfo(command)
    \/ ReceiveExit
    \/ \E fd \in Fds : ReceiveRequest(fd)
    \/ WaitAvailable \/ LockQueues \/ AppendRequest \/ PostElement
    \/ UnlockQueues \/ EndRound \/ Shutdown

-----------------------------------------------------------------------------
(* The taker.                                                               *)

\* while(Exit != 1)
TakerLoop ==
    /\ takerPC = "loop"
    /\ takerPC' = IF Exit = 1 THEN "returned" ELSE "wait"
    /\ UNCHANGED <<mainVars, inHand, queueVars, headVars, semVars,
                   disk>>

\* sem_wait(&multiQueue->queueElemSem); TracePosition = HeadPosition
TakerWait ==
    /\ takerPC = "wait"
    /\ queueElemSem > 0
    /\ queueElemSem' = queueElemSem - 1
    /\ TracePosition' = HeadPosition
    /\ takerPC' = "select"
    /\ UNCHANGED <<mainVars, inHand, queueVars, direction,
                   HeadPosition, queueMutex, queueAvailable, disk>>

\* Mutant of SelectActive: the queues are switched on every choice.
SelectsOther(from, nonempty, empty) ==
    /\ takerPC = from
    /\ takerPC' = IF qflag # SSTF THEN empty ELSE nonempty
    /\ UNCHANGED <<mainVars, inHand, queueVars, headVars, semVars, disk>>

\* QMANAGER_selectActiveQueue up to the test of begin in QMANAGER_toggleQFlag:
\* from says whether the choice or the look-ahead asked.
SelectActive(from, nonempty, empty) ==
    /\ takerPC = from
    /\ takerPC' = IF qflag # SSTF /\ activeQueue = <<>> THEN empty ELSE nonempty
    /\ UNCHANGED <<mainVars, inHand, queueVars, headVars, semVars,
                   disk>>

\* Mutant of ToggleQFlag: queueMutex is posted without having been waited for.
ToggleUnlocks(from, to) ==
    /\ takerPC = from
    /\ qflag' = IF qflag = "QUEUE1_ACTIVE" THEN "QUEUE2_ACTIVE"
                                           ELSE "QUEUE1_ACTIVE"
    /\ queueMutex' = queueMutex + 1
    /\ takerPC' = to
    /\ UNCHANGED <<mainVars, inHand, queue1, queue2, headVars,
                   queueElemSem, queueAvailable, disk>>

\* QMANAGER_toggleQFlag: the active queue was empty, the passive one takes
\* its place; the flag changes under queueMutex.
ToggleQFlag(from, to) ==
    /\ takerPC = from
    /\ queueMutex = 1
    /\ qflag' = IF qflag = "QUEUE1_ACTIVE" THEN "QUEUE2_ACTIVE"
                                           ELSE "QUEUE1_ACTIVE"
    /\ takerPC' = to
    /\ UNCHANGED <<mainVars, inHand, queue1, queue2, headVars,
                   semVars, disk>>

TakerSelect == SelectActive("select", "take", "toggle")
TakerToggle == ToggleQFlag("toggle", "take")

\* getNext and TAKER_takeRequest; SSTF does both under queueMutex, FSCAN
\* takes from a queue that main does not append to.
TakerTake ==
    /\ takerPC = "take"
    /\ qflag = SSTF => queueMutex = 1
    /\ LET next == getNext(activeQueue, HeadPosition, direction, TracePosition)
       IN  /\ direction' = next.direction
           /\ TracePosition' = next.trace
           /\ \E i \in nextNodes(activeQueue, next.from, next.direction) :
                 /\ request' = activeQueue[i]
                 /\ IF activeIs1
                    THEN queue1' = takeRequest(queue1, i) /\ UNCHANGED queue2
                    ELSE queue2' = takeRequest(queue2, i) /\ UNCHANGED queue1
    /\ announced' = None
    /\ takerPC' = "handle"
    /\ UNCHANGED <<mainVars, answer, qflag, HeadPosition, semVars, disk>>

\* TAKER_handleRequest up to the log: IO_readDisk or IO_writeDisk and the
\* answer, whose sector number is computed back from the CHS.
TakerHandle ==
    /\ takerPC = "handle"
    /\ LET s == addressed(request.sector)
       IN  /\ disk' = IF request.type = WRITE
                      THEN [disk EXCEPT ![s] = request.data] ELSE disk
           /\ answer' = [id |-> request.id, sender |-> request.sender,
                         type |-> request.type, sector |-> s,
                         data |-> IF request.type = READ THEN disk[s]
                                                         ELSE request.data]
    /\ takerPC' = IF LogInfo \/ request.type = TRACE THEN "log" ELSE "head"
    /\ UNCHANGED <<mainVars, request, announced, queueVars, headVars, semVars>>

\* Mutant of TakerLog: the next sector is named without asking for one.
TakerLogsAlways ==
    /\ takerPC = "log"
    /\ takerPC' = "lookSelect"
    /\ UNCHANGED <<mainVars, inHand, queueVars, headVars, semVars, disk>>

\* COMMON_createLogChar: look ahead for the next sector if there is one.
TakerLog ==
    /\ takerPC = "log"
    /\ takerPC' = IF queueElemSem > 0 THEN "lookSelect" ELSE "head"
    /\ UNCHANGED <<mainVars, inHand, queueVars, headVars, semVars,
                   disk>>

LookSelect == SelectActive("lookSelect", "lookahead", "lookToggle")
LookToggle == ToggleQFlag("lookToggle", "lookahead")

\* Mutant of LookAhead: the look-ahead takes the node it names.
LookAheadTakes ==
    /\ takerPC = "lookahead"
    /\ LET next == getNext(activeQueue, addressed(request.sector) + 1,
                           direction, TracePosition)
       IN  /\ TracePosition' = next.trace
           /\ \E i \in nextNodes(activeQueue, next.from, next.direction) :
                 /\ announced' = activeQueue[i]
                 /\ IF activeIs1
                    THEN queue1' = takeRequest(queue1, i) /\ UNCHANGED queue2
                    ELSE queue2' = takeRequest(queue2, i) /\ UNCHANGED queue1
    /\ takerPC' = "head"
    /\ UNCHANGED <<mainVars, request, answer, qflag, direction, HeadPosition,
                   semVars, disk>>

\* getNext from sectorNum + 1; the direction is put back, the trace position
\* is not.  Nothing is taken, and in SSTF nothing is locked.
LookAhead ==
    /\ takerPC = "lookahead"
    /\ LET next == getNext(activeQueue, addressed(request.sector) + 1,
                           direction, TracePosition)
       IN  /\ TracePosition' = next.trace
           /\ \E i \in nextNodes(activeQueue, next.from, next.direction) :
                 announced' = activeQueue[i]
    /\ takerPC' = "head"
    /\ UNCHANGED <<mainVars, request, answer, queueVars, direction,
                   HeadPosition, semVars, disk>>

\* TAKER_updateHPos
TakerHead ==
    /\ takerPC = "head"
    /\ HeadPosition' = updateHPos(addressed(request.sector))
    /\ takerPC' = "send"
    /\ UNCHANGED <<mainVars, inHand, queueVars, direction,
                   TracePosition, semVars, disk>>

\* send: blocks until the client has room.
TakerSend ==
    /\ takerPC = "send"
    /\ request' = None /\ answer' = None
    /\ takerPC' = "post"
    /\ UNCHANGED <<mainVars, announced, queueVars, headVars, semVars, disk>>

\* Mutant of TakerPost: the slot is not given back.
TakerKeepsSlot ==
    /\ takerPC = "post"
    /\ takerPC' = "loop"
    /\ UNCHANGED <<mainVars, inHand, queueVars, headVars, semVars, disk>>

\* sem_post(&queueAvailableMutex)
TakerPost ==
    /\ takerPC = "post"
    /\ queueAvailable' = queueAvailable + 1
    /\ takerPC' = "loop"
    /\ UNCHANGED <<mainVars, inHand, queueVars, headVars,
                   queueElemSem, queueMutex, disk>>

TakerNext ==
    /\ mainPC # "exited"
    /\ \/ TakerLoop \/ TakerWait \/ TakerSelect \/ TakerToggle \/ TakerTake
       \/ TakerHandle \/ TakerLog \/ LookSelect \/ LookToggle \/ LookAhead
       \/ TakerHead \/ TakerSend \/ TakerPost

-----------------------------------------------------------------------------
Next == MainNext \/ TakerNext

\* Both threads are scheduled; clients owe nothing: receiving is not fair.
MainGoesOn ==
    \/ WaitAvailable \/ LockQueues \/ AppendRequest \/ PostElement
    \/ UnlockQueues \/ EndRound \/ Shutdown

Fairness == WF_vars(MainGoesOn) /\ WF_vars(TakerNext)

Spec == Init /\ [][Next]_vars
FairSpec == Spec /\ Fairness

-----------------------------------------------------------------------------
PCsOK ==
    /\ mainPC \in {"select", "round", "available", "lock", "append", "post",
                   "unlock", "shutdown", "exited"}
    /\ takerPC \in {"loop", "wait", "select", "toggle", "take", "handle",
                    "log", "lookSelect", "lookToggle", "lookahead", "head",
                    "send", "post", "returned"}

\* No semaphore is taken below zero, and the sectors read and written are
\* inside the mapped file.
TypeOK ==
    /\ PCsOK
    /\ currFD \in Nat /\ Exit \in {0, 1}
    /\ incoming \in Requests \cup {None}
    /\ request \in Requests \cup {None}
    /\ answer \in Answers \cup {None}
    /\ announced \in Requests \cup {None}
    /\ queue1 \in Seq(Requests) /\ queue2 \in Seq(Requests)
    /\ qflag \in {"QUEUE1_ACTIVE", "QUEUE2_ACTIVE", SSTF}
    /\ direction \in Directions
    /\ queueElemSem \in Nat /\ queueMutex \in {0, 1} /\ queueAvailable \in Nat
    /\ HeadPosition \in Nat /\ TracePosition \in Nat
    /\ disk \in [SectorNums -> Data]

\* Whenever the taker is about to scan a queue that queue has a node:
\* TAKER_getNextNode and TAKER_takeRequest dereference begin without a test,
\* and only the count of queueElemSem tells that there is something there.
ScannedQueueNotEmpty ==
    takerPC \in {"take", "lookahead"} => activeQueue # <<>>

queued == Len(queue1) + Len(queue2)

takerServes == takerPC \in {"handle", "log", "lookSelect", "lookToggle",
                            "lookahead", "head", "send"}

\* Requests past the wait for queueAvailableMutex and not yet posted back.
inService ==
    queued + (IF mainPC \in {"lock", "append"} THEN 1 ELSE 0)
           + (IF takerServes \/ takerPC = "post" THEN 1 ELSE 0)

\* The value of queueElemSem, the token the taker holds between sem_wait and
\* takeRequest, and the node main has appended without posting it account for
\* every queued node: no node is forgotten and no token promises a missing one.
ElementCount ==
    queueElemSem
      + (IF takerPC \in {"select", "toggle", "take"} THEN 1 ELSE 0)
      + (IF mainPC = "post" THEN 1 ELSE 0) = queued

\* queueAvailableMutex bounds what the process holds: at most QueueAvailable
\* requests are queued or being served, and no slot leaks (ppd.c:85,
\* ppd_comm.c:82, ppd_taker.c:85).
AvailableCount == queueAvailable + inService = QueueAvailable

\* What keeps the taker's unlocked reads valid: main owns queueMutex exactly
\* in its critical section, the flag changes only while the active queue is
\* empty, and the look-ahead runs only while queueElemSem promises a node.
QueueDiscipline ==
    /\ queueMutex = 0 <=> mainPC \in {"append", "post", "unlock"}
    /\ incoming # None <=> mainPC \in {"available", "lock", "append"}
    /\ request # None <=> takerServes
    /\ answer # None <=> takerServes /\ takerPC # "handle"
    /\ qflag = SSTF <=> direction = SSTF
    /\ qflag = SSTF => queue2 = <<>>
    /\ takerPC \in {"toggle", "lookToggle"} => qflag # SSTF /\ activeQueue = <<>>
    /\ takerPC \in {"lookSelect", "lookToggle", "lookahead"} => queueElemSem > 0
    /\ takerPC \in {"take", "lookahead"} /\ qflag # SSTF => activeQueue # <<>>

\* The inductive invariant of the proofs.
IInv == TypeOK /\ ElementCount /\ AvailableCount /\ QueueDiscipline

-----------------------------------------------------------------------------
\* The abstract service.  A request counts as performed when the taker takes
\* it: nobody but the taker looks at the disk before the answer is sent.
taken == takerPC = "handle"

pendingBar == IF activeIs1 THEN queue1 \o queue2 ELSE queue2 \o queue1

diskBar == IF taken /\ request.type = WRITE
           THEN [disk EXCEPT ![request.sector] = request.data] ELSE disk

answersBar ==
    IF request = None THEN {}
    ELSE IF taken
         THEN {[request EXCEPT !.data = IF request.type = READ
                                        THEN disk[request.sector] ELSE request.data]}
         ELSE {answer}

Service == INSTANCE DiskService WITH
    Sectors <- SectorNums,
    InitialDisk <- [s \in SectorNums |-> InitialData],
    pending <- pendingBar, disk <- diskBar, answers <- answersBar

\* The process, with its threads, its two queues and the order of FSCAN or
\* SSTF, is a DiskService: each accepted request is performed and answered
\* exactly once, with the content that every write accepted before it left.
ServesRequests == Service!Spec

\* FSCAN starves nobody: however many requests keep arriving, and wherever
\* "james" moves the head, one that main has queued is answered unless the
\* process is told to exit, because later arrivals wait in the other queue.
EveryRequestAnswered ==
    \A i \in Ids :
        (\E q \in {queue1, queue2} : \E n \in DOMAIN q : q[n].id = i)
            ~> (i \notin outstanding \/ mainPC = "exited")

\* An EXIT from the console ends the process (PPD_Console sends it and
\* leaves, ppd_console.c; ppd.c:255 looks at Exit after the round).
ExitHonoured == (mainPC = "round" /\ Exit = 1) ~> (mainPC = "exited")

\* ppd_common.c:60, on nextSector: "siguiente pedido, lo elije no lo saca":
\* the request that trace and log announce as the next one is the one served
\* next, however many arrive meanwhile.
AnnouncedIsNext ==
    [][takerPC = "take" /\ takerPC' = "handle" /\ announced # None
          => request' = announced]_vars

\* The same, for a request that is not the last of its track: then the
\* position the look-ahead starts from is the one the head is left at, and
\* FSCAN keeps the announcement true although main goes on queueing and the
\* look-ahead itself may have switched the queues.
AnnouncedIsNextInTrack ==
    [][(/\ takerPC = "take" /\ takerPC' = "handle" /\ announced # None
        /\ qflag # SSTF
        /\ turnToCHS(HeadPosition).sector # 0)
           => request' = announced]_vars

\* ppd_taker.h:27: turnToSectorNum turns a CHS into the sector number, "para
\* poder enviarlo": the answer names the sector that was asked for.
AnswerNamesSector == takerPC = "send" => answer.sector = request.sector
=============================================================================
