----------------------------- MODULE SocketPool -----------------------------
(***************************************************************************)
(* The pool of connections between PFS and its block device, a PPD or the  *)
(* PRAID (PFS/src/pfs_comm.c).  main opens the connections one by one and  *)
(* reads the boot sector; then the FUSE threads call ppd_read_sectors and  *)
(* ppd_write_sectors, each over one connection of the pool that it holds   *)
(* for the whole call.  A call sends one request per sector and polls for  *)
(* the answers between two requests; the other end answers the requests of *)
(* a connection in the order its scheduler likes.                          *)
(*                                                                         *)
(* The other end and the network are the environment: Serve and Lose.      *)
(***************************************************************************)
EXTENDS Integers, Sequences, FiniteSets, SequencesExt

CONSTANTS
    Threads,
    None,
    max_conn,        \* MAX_CONNECTIONS of config/pfs.config
    CallsOf,         \* the calls each thread makes: [kind, sectors, value]
    NoCall,
    InitialVolume,   \* [sector -> content]
    BootSector,      \* sector 0
    RequestWindow,   \* requests a connection holds on their way
    AnswerWindow,    \* answers it holds
    MaxLost          \* connections that may break

Sockets == 1 .. max_conn
Sectors == DOMAIN InitialVolume
Calls   == UNION {CallsOf[t] : t \in Threads}
Values  == {InitialVolume[s] : s \in Sectors} \cup {c.value : c \in Calls}
Listed(s) == {s[i] : i \in DOMAIN s}

\* writeCluster, readCluster and the FAT functions list no sector twice.
ASSUME CallsAssumption ==
    \A c \in Calls : /\ c.kind \in {"read", "write"}
                     /\ c.sectors \in Seq(Sectors)
                     /\ Cardinality(Listed(c.sectors)) = Len(c.sectors)

ASSUME PoolAssumption ==
    /\ max_conn \in Nat \ {0}
    /\ RequestWindow \in Nat \ {0} /\ AnswerWindow \in Nat \ {0}
    /\ None \notin Threads /\ IsFiniteSet(Threads)
    /\ NoCall \notin Calls
    /\ BootSector \in Sectors /\ InitialVolume \in [Sectors -> Values]

VARIABLES
    mainPC,         \* "connect", "bootSend", "bootRecv", "mounted", "exited"
    index,          \* the connection main is opening
    status,         \* sockets[i].status
    free_sockets,   \* the semaphore
    sockPool_mutex, \* its holder
    pc, call,       \* where each thread is, in which call
    ppd_socket,     \* the socket it holds, or the one its scan looks at
    requests_sent,
    responses,      \* buffer: the answers in the order they came
    result,         \* what its last call returned
    toPPD, fromPPD, \* requests and answers on their way, per connection
    lost,           \* connections that broke
    volume,         \* the sectors behind the other end
    found           \* history: what each request of a call met when performed

mainVars   == <<mainPC, index>>
poolVars   == <<status, free_sockets, sockPool_mutex>>
threadVars == <<pc, call, ppd_socket, requests_sent, responses, result>>
peerVars   == <<toPPD, fromPPD, lost, volume, found>>
vars == <<mainVars, poolVars, threadVars, peerVars>>

Init ==
    /\ mainPC = "connect" /\ index = 1
    /\ status = [s \in Sockets |-> "none"]
    /\ free_sockets = max_conn
    /\ sockPool_mutex = None
    /\ pc = [t \in Threads |-> "idle"]
    /\ call = [t \in Threads |-> NoCall]
    /\ ppd_socket = [t \in Threads |-> 0]
    /\ requests_sent = [t \in Threads |-> 0]
    /\ responses = [t \in Threads |-> <<>>]
    /\ result = [t \in Threads |-> <<>>]
    /\ toPPD = [s \in Sockets |-> <<>>]
    /\ fromPPD = [s \in Sockets |-> <<>>]
    /\ lost = {}
    /\ volume = InitialVolume
    /\ found = [t \in Threads |-> <<>>]

-----------------------------------------------------------------------------
(* main: ppd_create_connection_pool, then ppd_read_boot_sector.            *)

\* One connection and its handshake.  A refused connection empties the pool
\* and a refused handshake ends the process at once: either way main exits.
Connect ==
    /\ mainPC = "connect"
    /\ \E opened \in BOOLEAN :
        /\ status' = [status EXCEPT ![index] = IF opened THEN "FREE" ELSE @]
        /\ mainPC' = IF ~opened THEN "exited"
                     ELSE IF index = max_conn THEN "bootSend" ELSE "connect"
        /\ index' = IF opened /\ index < max_conn THEN index + 1 ELSE index
    /\ UNCHANGED <<free_sockets, sockPool_mutex, threadVars, peerVars>>

\* The first socket: no thread uses the pool yet.
BootSend ==
    /\ mainPC = "bootSend"
    /\ free_sockets' = free_sockets - 1
    /\ status' = [status EXCEPT ![1] = "NOTFREE"]
    /\ toPPD' = [toPPD EXCEPT ![1] =
                   <<[kind |-> "read", sector |-> BootSector,
                      value |-> InitialVolume[BootSector], by |-> None]>>]
    /\ mainPC' = "bootRecv"
    /\ UNCHANGED <<index, sockPool_mutex, threadVars, fromPPD, lost, volume, found>>

\* recv blocks until the answer, or ends the process when the connection broke.
BootReceive ==
    /\ mainPC = "bootRecv"
    /\ \/ /\ fromPPD[1] # <<>>
          /\ fromPPD' = [fromPPD EXCEPT ![1] = Tail(@)]
          /\ status' = [status EXCEPT ![1] = "FREE"]
          /\ free_sockets' = free_sockets + 1
          /\ mainPC' = "mounted"
       \/ /\ fromPPD[1] = <<>> /\ 1 \in lost
          /\ mainPC' = "exited"
          /\ UNCHANGED <<fromPPD, status, free_sockets>>
    /\ UNCHANGED <<index, sockPool_mutex, threadVars, toPPD, lost, volume, found>>

-----------------------------------------------------------------------------
(* ppd_read_sectors and ppd_write_sectors.                                 *)

goto(t, place) == pc' = [pc EXCEPT ![t] = place]

\* A read sends and then polls, a write polls and then sends.
loopStart(c) == IF c.kind = "read" THEN "send" ELSE "poll"

\* Mutant of loopAgain: the call ends one answer early.
loopShort(c, received) ==
    IF received + 1 < Len(c.sectors) THEN loopStart(c) ELSE "free"

loopAgain(c, received) ==
    IF received < Len(c.sectors) THEN loopStart(c) ELSE "free"

Begin(t) ==
    /\ mainPC = "mounted" /\ pc[t] = "idle"
    /\ \E c \in CallsOf[t] : call' = [call EXCEPT ![t] = c]
    /\ result' = [result EXCEPT ![t] = <<>>]
    /\ goto(t, "sem_wait")
    /\ UNCHANGED <<mainVars, poolVars, ppd_socket, requests_sent, responses, peerVars>>

\* Mutant of SemWait: one thread too many is let through.
SemWaitOneMore(t) ==
    /\ pc[t] = "sem_wait" /\ mainPC = "mounted"
    /\ free_sockets > -1
    /\ free_sockets' = free_sockets - 1
    /\ goto(t, "lock")
    /\ UNCHANGED <<mainVars, status, sockPool_mutex, call, ppd_socket,
                   requests_sent, responses, result, peerVars>>

SemWait(t) ==
    /\ pc[t] = "sem_wait" /\ mainPC = "mounted"
    /\ free_sockets > 0
    /\ free_sockets' = free_sockets - 1
    /\ goto(t, "lock")
    /\ UNCHANGED <<mainVars, status, sockPool_mutex, call, ppd_socket,
                   requests_sent, responses, result, peerVars>>

\* Mutant of Lock: the scan without the mutex.
LockNothing(t) ==
    /\ pc[t] = "lock" /\ mainPC = "mounted"
    /\ ppd_socket' = [ppd_socket EXCEPT ![t] = 1]
    /\ goto(t, "scan")
    /\ UNCHANGED <<mainVars, poolVars, call, requests_sent, responses, result,
                   peerVars>>

Lock(t) ==
    /\ pc[t] = "lock" /\ mainPC = "mounted"
    /\ sockPool_mutex = None
    /\ sockPool_mutex' = t
    /\ ppd_socket' = [ppd_socket EXCEPT ![t] = 1]
    /\ goto(t, "scan")
    /\ UNCHANGED <<mainVars, status, free_sockets, call, requests_sent,
                   responses, result, peerVars>>

\* One turn of ppd_get_free_socket's loop; 0 is the NULL it returns in the end.
Scan(t) ==
    /\ pc[t] = "scan" /\ mainPC = "mounted"
    /\ LET s == ppd_socket[t]
           free == status[s] = "FREE"
       IN  /\ ppd_socket' = [ppd_socket EXCEPT ![t] =
                               IF free THEN s ELSE IF s < max_conn THEN s + 1 ELSE 0]
           /\ goto(t, IF free \/ s = max_conn THEN "claim" ELSE "scan")
    /\ UNCHANGED <<mainVars, poolVars, call, requests_sent, responses, result,
                   peerVars>>

\* The mark, which ppd_get_free_socket sets and its caller sets again.
Claim(t) ==
    /\ pc[t] = "claim" /\ mainPC = "mounted"
    /\ ppd_socket[t] # 0
    /\ status' = [status EXCEPT ![ppd_socket[t]] = "NOTFREE"]
    /\ sockPool_mutex' = None
    /\ goto(t, loopAgain(call[t], 0))
    /\ UNCHANGED <<mainVars, free_sockets, call, ppd_socket, requests_sent,
                   responses, result, peerVars>>

\* Mutant of afterSend: a read sends all its requests before it polls.
sendAllFirst(t) ==
    IF requests_sent[t] + 1 < Len(call[t].sectors) THEN "send"
    ELSE IF call[t].kind = "read" THEN "poll"
    ELSE loopAgain(call[t], Len(responses[t]))

\* What follows a send in the loop.
afterSend(t) == IF call[t].kind = "read" THEN "poll"
                ELSE loopAgain(call[t], Len(responses[t]))

\* A full connection blocks the sender.  On a broken one the request may still
\* be accepted and vanish; otherwise SIGPIPE or the error ends the process.
Send(t) ==
    /\ pc[t] = "send" /\ mainPC = "mounted"
    /\ LET s == ppd_socket[t]
           n == requests_sent[t]
       IN  IF n = Len(call[t].sectors)
           THEN /\ goto(t, afterSend(t))
                /\ UNCHANGED <<mainPC, requests_sent, toPPD>>
           ELSE \/ /\ s \in lost \/ Len(toPPD[s]) < RequestWindow
                   /\ toPPD' = IF s \in lost THEN toPPD
                               ELSE [toPPD EXCEPT ![s] = Append(@,
                                       [kind |-> call[t].kind,
                                        sector |-> call[t].sectors[n + 1],
                                        value |-> call[t].value, by |-> t])]
                   /\ requests_sent' = [requests_sent EXCEPT ![t] = n + 1]
                   /\ goto(t, afterSend(t))
                   /\ UNCHANGED mainPC
                \/ /\ s \in lost
                   /\ mainPC' = "exited"
                   /\ UNCHANGED <<pc, requests_sent, toPPD>>
    /\ UNCHANGED <<index, poolVars, call, ppd_socket, responses, result,
                   fromPPD, lost, volume, found>>

\* FIONREAD says whether a whole answer is there; a broken connection with
\* nothing to read looks like a slow one.
Poll(t) ==
    /\ pc[t] = "poll" /\ mainPC = "mounted"
    /\ LET s == ppd_socket[t]
           arrived == fromPPD[s] # <<>>
       IN  /\ responses' = [responses EXCEPT ![t] =
                              IF arrived THEN Append(@, Head(fromPPD[s])) ELSE @]
           /\ fromPPD' = [fromPPD EXCEPT ![s] = IF arrived THEN Tail(@) ELSE @]
    /\ goto(t, IF call[t].kind = "write" THEN "send"
               ELSE loopAgain(call[t], Len(responses'[t])))
    /\ UNCHANGED <<mainVars, poolVars, call, ppd_socket, requests_sent, result,
                   toPPD, lost, volume, found>>

\* The status is written without the mutex.
Free(t) ==
    /\ pc[t] = "free" /\ mainPC = "mounted"
    /\ status' = [status EXCEPT ![ppd_socket[t]] = "FREE"]
    /\ ppd_socket' = [ppd_socket EXCEPT ![t] = 0]
    /\ goto(t, "sem_post")
    /\ UNCHANGED <<mainVars, free_sockets, sockPool_mutex, call, requests_sent,
                   responses, result, peerVars>>

\* Mutant of SemPost: the connection is given back twice.
SemPostTwice(t) ==
    /\ pc[t] = "sem_post" /\ mainPC = "mounted"
    /\ free_sockets' = free_sockets + 2
    /\ goto(t, "return")
    /\ UNCHANGED <<mainVars, status, sockPool_mutex, call, ppd_socket,
                   requests_sent, responses, result, peerVars>>

SemPost(t) ==
    /\ pc[t] = "sem_post" /\ mainPC = "mounted"
    /\ free_sockets' = free_sockets + 1
    /\ goto(t, "return")
    /\ UNCHANGED <<mainVars, status, sockPool_mutex, call, ppd_socket,
                   requests_sent, responses, result, peerVars>>

\* Mutant of reconstruct: the answers in the order they came.
asTheyCame(answers, sectors) == [i \in DOMAIN sectors |-> answers[i].value]

\* ppd_reconstruct_data_from_responses: the answers in the order of the request;
\* None where no answer names the sector (the malloc'd bytes).
reconstruct(answers, sectors) ==
    [i \in DOMAIN sectors |->
        LET naming == {k \in DOMAIN answers : answers[k].sector = sectors[i]}
        IN  IF naming = {} THEN None
            ELSE answers[CHOOSE k \in naming : \A j \in naming : j <= k].value]

Return(t) ==
    /\ pc[t] = "return" /\ mainPC = "mounted"
    /\ result' = [result EXCEPT ![t] =
                    IF call[t].kind = "read"
                    THEN reconstruct(responses[t], call[t].sectors) ELSE <<>>]
    /\ call' = [call EXCEPT ![t] = NoCall]
    /\ requests_sent' = [requests_sent EXCEPT ![t] = 0]
    /\ responses' = [responses EXCEPT ![t] = <<>>]
    /\ found' = [found EXCEPT ![t] = <<>>]
    /\ goto(t, "idle")
    /\ UNCHANGED <<mainVars, poolVars, ppd_socket, toPPD, fromPPD, lost, volume>>

-----------------------------------------------------------------------------
(* The other end and the network.                                          *)

\* Any pending request of the connection, when its answer fits.
Serve(s) ==
    /\ s \notin lost /\ mainPC # "exited"
    /\ Len(fromPPD[s]) < AnswerWindow
    /\ \E i \in DOMAIN toPPD[s] :
        LET r == toPPD[s][i]
            value == IF r.kind = "read" THEN volume[r.sector] ELSE r.value
        IN  /\ toPPD' = [toPPD EXCEPT ![s] = RemoveAt(@, i)]
            /\ fromPPD' = [fromPPD EXCEPT ![s] =
                             Append(@, [sector |-> r.sector, value |-> value])]
            /\ volume' = [volume EXCEPT ![r.sector] = value]
            /\ found' = IF r.by = None THEN found
                        ELSE [found EXCEPT ![r.by] =
                                [x \in DOMAIN @ \cup {r.sector} |->
                                    IF x = r.sector THEN value ELSE @[x]]]
    /\ UNCHANGED <<mainVars, poolVars, threadVars, lost>>

Lose(s) ==
    /\ status[s] # "none" /\ mainPC # "exited"
    /\ s \notin lost /\ Cardinality(lost) < MaxLost
    /\ lost' = lost \cup {s}
    /\ UNCHANGED <<mainVars, poolVars, threadVars, toPPD, fromPPD, volume, found>>

-----------------------------------------------------------------------------
\* The steps a thread takes without waiting for another.
OwnStep(t) ==
    \/ Scan(t) \/ Claim(t) \/ Send(t) \/ Poll(t) \/ Free(t) \/ SemPost(t) \/ Return(t)

Next ==
    \/ Connect \/ BootSend \/ BootReceive
    \/ \E t \in Threads : Begin(t) \/ SemWait(t) \/ Lock(t) \/ OwnStep(t)
    \/ \E s \in Sockets : Serve(s) \/ Lose(s)

\* The scheduler runs every thread and the other end answers; nothing is
\* assumed of which waiter a semaphore or a mutex wakes.
Fairness ==
    /\ WF_vars(BootReceive)
    /\ \A t \in Threads : WF_vars(OwnStep(t))
    /\ \A s \in Sockets : WF_vars(Serve(s))

Spec == Init /\ [][Next]_vars /\ Fairness

-----------------------------------------------------------------------------
holding == {"send", "poll", "free"}
holds(t, s) == pc[t] \in holding /\ ppd_socket[t] = s

Requests == [kind : {"read", "write"}, sector : Sectors, value : Values,
             by : Threads \cup {None}]

Answers  == [sector : Sectors, value : Values]

\* The variables have the values the code can give them.
TypeOK ==
    /\ mainPC \in {"connect", "bootSend", "bootRecv", "mounted", "exited"}
    /\ index \in Sockets
    /\ status \in [Sockets -> {"none", "FREE", "NOTFREE"}]
    /\ free_sockets \in 0 .. max_conn
    /\ sockPool_mutex \in Threads \cup {None}
    /\ pc \in [Threads -> {"idle", "sem_wait", "lock", "scan", "claim", "sem_post",
                           "return"} \cup holding]
    /\ call \in [Threads -> Calls \cup {NoCall}]
    /\ ppd_socket \in [Threads -> 0 .. max_conn]
    /\ \A t \in Threads : requests_sent[t] \in Nat /\ responses[t] \in Seq(Answers)
    /\ \A s \in Sockets : toPPD[s] \in Seq(Requests) /\ fromPPD[s] \in Seq(Answers)
    /\ lost \subseteq Sockets
    /\ volume \in [Sectors -> Values]

\* Two threads never hold the same connection, and the connection a thread
\* holds is marked taken: the scan and the mark are under sockPool_mutex, while
\* the mark is removed (pfs_comm.c:150, 226) without it.
OneUser ==
    /\ \A t, u \in Threads, s \in Sockets : holds(t, s) /\ holds(u, s) => t = u
    /\ \A t \in Threads : pc[t] \in holding => status[ppd_socket[t]] = "NOTFREE"

\* A thread the semaphore let through finds a connection: its scan, which reads
\* the marks one after another while other threads remove theirs, never returns
\* the NULL that line 90 would write through.
ScanFinds == \A t \in Threads : pc[t] = "claim" => ppd_socket[t] # 0

\* A connection nobody holds carries nothing: a call that ends leaves no answer
\* behind for the next call on it to take as its own.
FreeIsQuiet ==
    \A s \in Sockets :
        status[s] = "FREE" => toPPD[s] = <<>> /\ fromPPD[s] = <<>>

\* A call gives its connection back, unless the connection broke: sender and
\* receiver never block each other on full buffers, however small, because the
\* loop polls between two requests.
ConnectionsComeBack ==
    \A s \in Sockets :
        status[s] = "NOTFREE" ~> (status[s] = "FREE" \/ s \in lost \/ mainPC = "exited")

\* A call does what its caller expects of it: each sector is read or written
\* once, and a read returns the contents in the order of the caller's list
\* although the answers come in any order.
Abstract == INSTANCE SectorCalls WITH
    todo <- [t \in Threads |->
                IF call[t] = NoCall THEN {}
                ELSE Listed(call[t].sectors) \ DOMAIN found[t]],
    got  <- [t \in Threads |->
                IF call[t] # NoCall /\ call[t].kind = "read" THEN found[t] ELSE <<>>]

ServesCalls == Abstract!Spec
=============================================================================
