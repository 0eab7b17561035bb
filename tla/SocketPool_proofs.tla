------------------------- MODULE SocketPool_proofs --------------------------
(***************************************************************************)
(* For any number of threads and connections: no two threads ever use one  *)
(* connection, and the scan for a free one never fails.  PoolInv is the    *)
(* inductive invariant; its counting part is what makes the scan succeed:  *)
(* the semaphore lets at most max_conn threads in, so while one of them    *)
(* still scans the others cannot hold every connection.  DataInv counts    *)
(* what connections carry, ServeInv says what it is; from it, calls        *)
(* implement SectorCalls.                                                  *)
(***************************************************************************)
EXTENDS SocketPool, FiniteSetTheorems, SequenceTheorems, TLAPS

outside == {"idle", "sem_wait", "return"}
inside  == {"lock", "scan", "claim", "sem_post"} \cup holding

\* The threads that passed the semaphore and have not posted it.
In == {t \in Threads : pc[t] \in inside}
Holders == {t \in Threads : pc[t] \in holding}

Types ==
    /\ mainPC \in {"connect", "bootSend", "bootRecv", "mounted", "exited"}
    /\ index \in Sockets
    /\ pc \in [Threads -> outside \cup inside]
    /\ ppd_socket \in [Threads -> 0 .. max_conn]
    /\ status \in [Sockets -> {"none", "FREE", "NOTFREE"}]
    /\ free_sockets \in Nat

\* A thread that scans has the mutex and a free connection ahead of it.
Searching ==
    \A t \in Threads :
        /\ pc[t] \in {"scan", "claim"} => sockPool_mutex = t
        /\ pc[t] = "scan" =>
              /\ ppd_socket[t] \in Sockets
              /\ \E s \in Sockets : s >= ppd_socket[t] /\ status[s] = "FREE"
        /\ pc[t] = "claim" => ppd_socket[t] \in Sockets /\ status[ppd_socket[t]] = "FREE"

Using ==
    /\ \A t \in Threads :
          pc[t] \in holding => ppd_socket[t] \in Sockets /\ status[ppd_socket[t]] = "NOTFREE"
    /\ \A t, u \in Threads :
          pc[t] \in holding /\ pc[u] \in holding /\ ppd_socket[t] = ppd_socket[u] => t = u

Counting ==
    mainPC = "mounted" =>
        /\ free_sockets + Cardinality(In) = max_conn
        /\ \A s \in Sockets :
              \/ status[s] = "FREE"
              \/ status[s] = "NOTFREE" /\ \E t \in Threads : holds(t, s)

Starting ==
    /\ mainPC \in {"connect", "bootSend", "bootRecv"} => \A t \in Threads : pc[t] = "idle"
    /\ mainPC = "connect" =>
          free_sockets = max_conn /\ \A s \in Sockets : s < index => status[s] = "FREE"
    /\ mainPC = "bootSend" =>
          free_sockets = max_conn /\ \A s \in Sockets : status[s] = "FREE"
    /\ mainPC = "bootRecv" =>
          free_sockets + 1 = max_conn /\ \A s \in Sockets : s # 1 => status[s] = "FREE"

PoolInv == Types /\ Searching /\ Using /\ Counting /\ Starting

LEMMA InFinite == IsFiniteSet(In) /\ Cardinality(In) \in Nat
<1>1. In \in SUBSET Threads
  BY DEF In
<1>2. IsFiniteSet(In)
  BY <1>1, PoolAssumption, FS_Subset
<1> QED
  BY <1>2, FS_CardinalityType

LEMMA NobodyIn == (\A t \in Threads : pc[t] = "idle") => Cardinality(In) = 0
<1> SUFFICES ASSUME \A t \in Threads : pc[t] = "idle" PROVE Cardinality(In) = 0
  OBVIOUS
<1>1. In = {}
  BY DEF In, inside, holding
<1> QED
  BY <1>1, FS_EmptySet

LEMMA InitInv == Init => PoolInv
<1> SUFFICES ASSUME Init PROVE PoolInv
  OBVIOUS
<1> USE PoolAssumption DEF Init, Sockets
<1>1. Types
  BY DEF Types, outside, inside
<1>2. Searching /\ Using
  BY DEF Searching, Using, holding
<1>3. Counting /\ Starting
  BY DEF Counting, Starting
<1> QED
  BY <1>1, <1>2, <1>3 DEF PoolInv

\* A step that leaves the pool alone, with at most one thread going on either
\* outside the semaphore or while it holds its connection.
LEMMA Frame ==
    ASSUME PoolInv, UNCHANGED <<poolVars, ppd_socket, index>>,
           mainPC' = mainPC \/ mainPC' = "exited",
           \/ UNCHANGED pc
           \/ \E t \in Threads, from, to \in outside \cup holding :
                /\ mainPC = "mounted" /\ pc[t] = from /\ pc' = [pc EXCEPT ![t] = to]
                /\ from \in holding <=> to \in holding
    PROVE  PoolInv'
<1> USE DEF poolVars
<1>1. Types'
  BY DEF PoolInv, Types, outside, inside
<1>2. /\ \A t \in Threads : pc'[t] \in holding <=> pc[t] \in holding
      /\ \A t \in Threads : pc'[t] \in inside <=> pc[t] \in inside
      /\ \A t \in Threads : pc'[t] = "scan" => pc[t] = "scan"
      /\ \A t \in Threads : pc'[t] = "claim" => pc[t] = "claim"
      /\ mainPC # "mounted" => pc' = pc
  BY DEF PoolInv, Types, outside, inside, holding
<1>3. Searching'
  BY <1>2 DEF PoolInv, Searching
<1>4. Using'
  BY <1>2 DEF PoolInv, Using
<1>5. In' = In
  BY <1>2 DEF In
<1>6. Counting'
  BY <1>2, <1>5 DEF PoolInv, Counting, holds
<1>7. Starting'
  BY <1>2 DEF PoolInv, Starting
<1> QED
  BY <1>1, <1>3, <1>4, <1>6, <1>7 DEF PoolInv

-----------------------------------------------------------------------------
(* The steps of main.                                                      *)

LEMMA MainSteps ==
    ASSUME PoolInv, Connect \/ BootSend \/ BootReceive
    PROVE  PoolInv'
<1> USE PoolAssumption DEF Sockets
<1>a. /\ \A t \in Threads : pc[t] = "idle"
      /\ UNCHANGED <<pc, ppd_socket, sockPool_mutex>>
  BY DEF PoolInv, Starting, Connect, BootSend, BootReceive, threadVars
<1>b. Searching' /\ Using'
  BY <1>a DEF Searching, Using, holding
<1>c. In' = In /\ Cardinality(In) = 0
  BY <1>a, NobodyIn DEF In
<1>1. CASE Connect
  <2>1. Types'
    BY <1>1 DEF PoolInv, Types, Connect, threadVars
  <2>2. Counting' /\ Starting'
    BY <1>1, <1>a DEF PoolInv, Types, Counting, Starting, Connect, threadVars
  <2> QED
    BY <1>b, <2>1, <2>2 DEF PoolInv
<1>2. CASE BootSend
  <2>1. Types'
    BY <1>2 DEF PoolInv, Types, Starting, BootSend, threadVars
  <2>2. Counting' /\ Starting'
    BY <1>2, <1>a DEF PoolInv, Types, Counting, Starting, BootSend, threadVars
  <2> QED
    BY <1>b, <2>1, <2>2 DEF PoolInv
<1>3. CASE BootReceive
  <2>1. Types'
    BY <1>3 DEF PoolInv, Types, BootReceive, threadVars
  <2>2. Starting'
    BY <1>3, <1>a DEF PoolInv, Types, Starting, BootReceive, threadVars
  <2>3. Counting'
    BY <1>3, <1>a, <1>c DEF PoolInv, Types, Counting, Starting, BootReceive, threadVars
  <2> QED
    BY <1>b, <2>1, <2>2, <2>3 DEF PoolInv
<1> QED
  BY <1>1, <1>2, <1>3

-----------------------------------------------------------------------------
(* The steps of a thread that change the pool.                             *)

LEMMA SemWaitStep ==
    ASSUME PoolInv, NEW t \in Threads, SemWait(t)
    PROVE  PoolInv'
<1> USE PoolAssumption DEF SemWait, goto, Sockets, mainVars
<1>1. Types'
  BY DEF PoolInv, Types, inside
<1>2. \A u \in Threads : u # t => pc'[u] = pc[u]
  BY DEF PoolInv, Types
<1>3. pc'[t] = "lock"
  BY DEF PoolInv, Types
<1>4. Searching' /\ Using'
  BY <1>2, <1>3 DEF PoolInv, Searching, Using, holding
<1>5. In' = In \cup {t} /\ t \notin In
  BY <1>2, <1>3 DEF In, inside, holding
<1>6. Cardinality(In') = Cardinality(In) + 1
  BY <1>5, InFinite, FS_AddElement
<1>7. Counting'
  <2>1. \A u \in Threads, s \in Sockets : holds(u, s) => holds(u, s)'
    BY <1>2 DEF holds, holding
  <2>2. free_sockets' + Cardinality(In') = free_sockets + Cardinality(In)
    BY <1>6, InFinite DEF PoolInv, Types
  <2> QED
    BY <2>1, <2>2 DEF PoolInv, Counting
<1>8. Starting'
  BY DEF PoolInv, Starting
<1> QED
  BY <1>1, <1>4, <1>7, <1>8 DEF PoolInv

\* A thread between the semaphore and its connection: the others cannot hold
\* them all.
LEMMA OneIsFree ==
    ASSUME PoolInv, mainPC = "mounted", NEW t \in Threads, pc[t] = "lock"
    PROVE  \E s \in Sockets : status[s] = "FREE"
<1> SUFFICES ASSUME \A s \in Sockets : status[s] # "FREE" PROVE FALSE
  OBVIOUS
<1> DEFINE f == [u \in Holders |-> ppd_socket[u]]
<1>1. \A s \in Sockets : \E u \in Holders : ppd_socket[u] = s
  BY DEF PoolInv, Counting, Holders, holds
<1>2. \A u \in Holders : ppd_socket[u] \in Sockets
  BY DEF PoolInv, Using, Holders
<1>3. f \in Surjection(Holders, Sockets)
  BY <1>1, <1>2 DEF Surjection
<1>4. Holders \in SUBSET (In \ {t}) /\ t \in In
  BY DEF Holders, In, inside, holding
<1>5. IsFiniteSet(In \ {t}) /\ Cardinality(In \ {t}) = Cardinality(In) - 1
  BY <1>4, InFinite, FS_RemoveElement
<1>6. IsFiniteSet(Holders) /\ Cardinality(Holders) <= Cardinality(In) - 1
  BY <1>4, <1>5, FS_Subset
<1>7. Cardinality(Sockets) <= Cardinality(Holders)
  BY <1>3, <1>6, FS_Surjection
<1>8. Cardinality(Sockets) = max_conn
  BY PoolAssumption, FS_Interval DEF Sockets
<1>9. free_sockets + Cardinality(In) = max_conn /\ free_sockets \in Nat
  BY DEF PoolInv, Counting, Types
<1>10. Cardinality(Holders) \in Nat
  BY <1>6, FS_CardinalityType
<1> QED
  BY <1>6, <1>7, <1>8, <1>9, <1>10, InFinite, PoolAssumption

LEMMA LockStep ==
    ASSUME PoolInv, NEW t \in Threads, Lock(t)
    PROVE  PoolInv'
<1> USE PoolAssumption DEF Lock, goto, mainVars
<1>1. Types'
  BY DEF PoolInv, Types, inside, Sockets
<1>2. \A u \in Threads : u # t => pc'[u] = pc[u] /\ ppd_socket'[u] = ppd_socket[u]
  BY DEF PoolInv, Types
<1>3. pc'[t] = "scan" /\ ppd_socket'[t] = 1
  BY DEF PoolInv, Types
<1>4. \E s \in Sockets : s >= 1 /\ status[s] = "FREE"
  BY OneIsFree DEF Sockets
<1>5. \A u \in Threads : pc[u] \notin {"scan", "claim"}
  BY DEF PoolInv, Searching
<1>6. Searching'
  BY <1>2, <1>3, <1>4, <1>5 DEF Searching, Sockets
<1>7. Using'
  BY <1>2, <1>3 DEF PoolInv, Using, holding
<1>8. In' = In
  BY <1>2, <1>3 DEF In, inside
<1>9. Counting'
  BY <1>2, <1>3, <1>8 DEF PoolInv, Counting, holds, holding
<1>10. Starting'
  BY DEF PoolInv, Starting
<1> QED
  BY <1>1, <1>6, <1>7, <1>9, <1>10 DEF PoolInv

LEMMA ScanStep ==
    ASSUME PoolInv, NEW t \in Threads, Scan(t)
    PROVE  PoolInv'
<1> USE PoolAssumption DEF Scan, goto, poolVars, mainVars
<1>1. ppd_socket[t] \in Sockets /\ sockPool_mutex = t
  BY DEF PoolInv, Searching
<1>2. Types'
  BY <1>1 DEF PoolInv, Types, inside, Sockets
<1>3. \A u \in Threads : u # t => pc'[u] = pc[u] /\ ppd_socket'[u] = ppd_socket[u]
  BY DEF PoolInv, Types
<1>4. \A u \in Threads : pc[u] \in {"scan", "claim"} => u = t
  BY <1>1 DEF PoolInv, Searching
<1>5. PICK s \in Sockets : s >= ppd_socket[t] /\ status[s] = "FREE"
  BY DEF PoolInv, Searching
<1>6. \/ /\ pc'[t] = "claim" /\ ppd_socket'[t] = ppd_socket[t]
         /\ status[ppd_socket[t]] = "FREE"
      \/ /\ pc'[t] = "scan" /\ ppd_socket'[t] = ppd_socket[t] + 1
         /\ ppd_socket[t] < max_conn /\ status[ppd_socket[t]] # "FREE"
  <2>1. ppd_socket[t] = max_conn => status[ppd_socket[t]] = "FREE"
    BY <1>1, <1>5 DEF Sockets
  <2> QED
    BY <1>1, <2>1 DEF PoolInv, Types, Sockets
<1>7. Searching'
  <2>1. \A u \in Threads : pc'[u] \in {"scan", "claim"} => u = t
    BY <1>3, <1>4
  <2>2. pc'[t] = "scan" => ppd_socket'[t] \in Sockets /\ s >= ppd_socket'[t]
    BY <1>1, <1>5, <1>6 DEF Sockets
  <2> QED
    BY <1>1, <1>5, <1>6, <2>1, <2>2 DEF Searching
<1>8. Using'
  BY <1>3, <1>6 DEF PoolInv, Using, holding
<1>9. In' = In
  BY <1>3, <1>6 DEF In, inside
<1>10. Counting'
  BY <1>3, <1>6, <1>9 DEF PoolInv, Counting, holds, holding
<1>11. Starting'
  BY DEF PoolInv, Starting, mainVars
<1> QED
  BY <1>2, <1>7, <1>8, <1>10, <1>11 DEF PoolInv

LEMMA ClaimStep ==
    ASSUME PoolInv, NEW t \in Threads, Claim(t)
    PROVE  PoolInv'
<1> DEFINE place == loopAgain(call[t], 0)
<1>0. place \in {"send", "poll", "free"}
  BY DEF loopAgain, loopStart
<1> HIDE DEF place
<1> USE PoolAssumption DEF goto
<1>a. /\ pc[t] = "claim" /\ mainPC = "mounted" /\ pc' = [pc EXCEPT ![t] = place]
      /\ status' = [status EXCEPT ![ppd_socket[t]] = "NOTFREE"]
      /\ UNCHANGED <<mainPC, index, free_sockets, ppd_socket>>
  BY DEF Claim, place, mainVars
<1>1. ppd_socket[t] \in Sockets /\ status[ppd_socket[t]] = "FREE" /\ sockPool_mutex = t
  BY <1>a DEF PoolInv, Searching
<1>2. Types'
  BY <1>a, <1>0 DEF PoolInv, Types, inside, holding
<1>3. \A u \in Threads : u # t => pc'[u] = pc[u]
  BY <1>a DEF PoolInv, Types
<1>4. pc'[t] = place
  BY <1>a DEF PoolInv, Types
<1>5. \A u \in Threads : pc[u] \in {"scan", "claim"} => u = t
  BY <1>1 DEF PoolInv, Searching
<1>6. Searching'
  BY <1>0, <1>3, <1>4, <1>5 DEF Searching
<1>7. Using'
  <2>1. \A u \in Threads : u # t /\ pc[u] \in holding => ppd_socket[u] # ppd_socket[t]
    BY <1>1 DEF PoolInv, Using
  <2> QED
    BY <1>a, <1>1, <1>3, <1>4, <2>1 DEF PoolInv, Using, Types
<1>8. In' = In
  BY <1>a, <1>0, <1>3, <1>4 DEF In, inside, holding
<1>9. Counting'
  <2>1. holds(t, ppd_socket[t])'
    BY <1>0, <1>a, <1>4 DEF holds, holding
  <2>2. \A u \in Threads, s \in Sockets : holds(u, s) => holds(u, s)'
    BY <1>a, <1>3 DEF holds, holding
  <2>3. ASSUME NEW s \in Sockets
        PROVE  status'[s] = "FREE" \/ (status'[s] = "NOTFREE" /\ \E u \in Threads : holds(u, s)')
    <3>1. CASE s = ppd_socket[t]
      <4>1. holds(t, s)'
        BY <1>a, <2>1, <3>1 DEF holds
      <4>2. status'[s] = "NOTFREE"
        BY <1>a, <3>1 DEF PoolInv, Types
      <4> QED
        BY <4>1, <4>2
    <3>2. CASE s # ppd_socket[t]
      <4>0. status \in [Sockets -> {"none", "FREE", "NOTFREE"}]
        BY DEF PoolInv, Types
      <4>a. status' = [status EXCEPT ![ppd_socket[t]] = "NOTFREE"]
        BY <1>a
      <4>1. status'[s] = status[s]
        BY <3>2, <4>0, <4>a
      <4>2. status[s] = "FREE" \/ (status[s] = "NOTFREE" /\ \E u \in Threads : holds(u, s))
        BY <1>a DEF PoolInv, Counting
      <4> QED
        BY <2>2, <4>1, <4>2
    <3> QED
      BY <3>1, <3>2
  <2> QED
    BY <1>a, <1>8, <2>3 DEF PoolInv, Counting
<1>10. Starting'
  BY <1>a DEF PoolInv, Starting
<1> QED
  BY <1>2, <1>6, <1>7, <1>9, <1>10 DEF PoolInv

LEMMA FreeStep ==
    ASSUME PoolInv, NEW t \in Threads, Free(t)
    PROVE  PoolInv'
<1> USE PoolAssumption DEF Free, goto, mainVars
<1>1. ppd_socket[t] \in Sockets
  BY DEF PoolInv, Using, holding
<1>2. Types'
  <2>1. pc' \in [Threads -> outside \cup inside]
    BY DEF PoolInv, Types, inside
  <2>2. ppd_socket' \in [Threads -> 0 .. max_conn]
    BY DEF PoolInv, Types
  <2>3. status' \in [Sockets -> {"none", "FREE", "NOTFREE"}]
    BY DEF PoolInv, Types
  <2> QED
    BY <2>1, <2>2, <2>3 DEF PoolInv, Types
<1>3. \A u \in Threads : u # t => pc'[u] = pc[u] /\ ppd_socket'[u] = ppd_socket[u]
  BY DEF PoolInv, Types
<1>4. pc'[t] = "sem_post"
  BY DEF PoolInv, Types
<1>5. \A s \in Sockets : status'[s] = IF s = ppd_socket[t] THEN "FREE" ELSE status[s]
  BY DEF PoolInv, Types
<1>6. Searching'
  BY <1>3, <1>4, <1>5 DEF PoolInv, Searching
<1>7. \A u \in Threads : u # t /\ pc[u] \in holding => ppd_socket[u] # ppd_socket[t]
  BY DEF PoolInv, Using, holding
<1>8. Using'
  BY <1>3, <1>4, <1>5, <1>7 DEF PoolInv, Using, holding
<1>9. In' = In
  BY <1>3, <1>4 DEF In, inside, holding
<1>10. Counting'
  <2>1. \A u \in Threads, s \in Sockets : s # ppd_socket[t] /\ holds(u, s) => holds(u, s)'
    BY <1>3 DEF holds
  <2> QED
    BY <1>5, <1>9, <2>1 DEF PoolInv, Counting
<1>11. Starting'
  BY DEF PoolInv, Starting
<1> QED
  BY <1>2, <1>6, <1>8, <1>10, <1>11 DEF PoolInv

LEMMA SemPostStep ==
    ASSUME PoolInv, NEW t \in Threads, SemPost(t)
    PROVE  PoolInv'
<1> USE PoolAssumption DEF SemPost, goto, mainVars
<1>1. Types'
  BY DEF PoolInv, Types, outside
<1>2. \A u \in Threads : u # t => pc'[u] = pc[u]
  BY DEF PoolInv, Types
<1>3. pc'[t] = "return"
  BY DEF PoolInv, Types
<1>4. Searching' /\ Using'
  BY <1>2, <1>3 DEF PoolInv, Searching, Using, holding
<1>5. In' = In \ {t} /\ t \in In
  BY <1>2, <1>3 DEF In, inside, holding
<1>6. Cardinality(In') = Cardinality(In) - 1
  BY <1>5, InFinite, FS_RemoveElement
<1>7. \A u \in Threads, s \in Sockets : holds(u, s) => holds(u, s)'
  BY <1>2 DEF holds, holding
<1>8. Counting'
  BY <1>6, <1>7, InFinite DEF PoolInv, Types, Counting
<1>9. Starting'
  BY DEF PoolInv, Starting
<1> QED
  BY <1>1, <1>4, <1>8, <1>9 DEF PoolInv

-----------------------------------------------------------------------------
LEMMA NextInv == PoolInv /\ [Next]_vars => PoolInv'
<1> SUFFICES ASSUME PoolInv, [Next]_vars PROVE PoolInv'
  OBVIOUS
<1>1. CASE Connect \/ BootSend \/ BootReceive
  BY <1>1, MainSteps
<1>2. ASSUME NEW t \in Threads, Begin(t) \/ Return(t)
      PROVE  PoolInv'
  BY <1>2, Frame DEF Begin, Return, goto, mainVars, poolVars, outside, holding
<1>3. ASSUME NEW t \in Threads, Send(t)
      PROVE  PoolInv'
  <2>1. afterSend(t) \in holding /\ "send" \in holding
    BY DEF afterSend, loopAgain, loopStart, holding
  <2> QED
    BY <1>3, <2>1, Frame DEF Send, goto, poolVars
<1>4. ASSUME NEW t \in Threads, Poll(t)
      PROVE  PoolInv'
  <2> DEFINE to == IF call[t].kind = "write" THEN "send"
                   ELSE loopAgain(call[t], Len(responses'[t]))
  <2>1. to \in holding /\ "poll" \in holding
    BY DEF loopAgain, loopStart, holding
  <2>2. pc[t] = "poll" /\ mainPC = "mounted" /\ pc' = [pc EXCEPT ![t] = to]
        /\ UNCHANGED <<mainPC, index, poolVars, ppd_socket>>
    BY <1>4 DEF Poll, goto, mainVars
  <2> QED
    BY <2>1, <2>2, Frame
<1>5. ASSUME NEW t \in Threads,
             SemWait(t) \/ Lock(t) \/ Scan(t) \/ Claim(t) \/ Free(t) \/ SemPost(t)
      PROVE  PoolInv'
  BY <1>5, SemWaitStep, LockStep, ScanStep, ClaimStep, FreeStep, SemPostStep
<1>6. ASSUME NEW s \in Sockets, Serve(s) \/ Lose(s)
      PROVE  PoolInv'
  BY <1>6, Frame DEF Serve, Lose, mainVars, poolVars, threadVars
<1>7. CASE UNCHANGED vars
  BY <1>7, Frame DEF vars, mainVars, poolVars, threadVars
<1> QED
  BY <1>1, <1>2, <1>3, <1>4, <1>5, <1>6, <1>7 DEF Next, OwnStep

THEOREM PoolInvariant == Spec => []PoolInv
<1> QED
  BY InitInv, NextInv, PTL DEF Spec

\* Two threads never hold the same connection, and the one a thread holds is
\* marked taken, however many threads share however many connections
\* (ppd_read_sectors and ppd_write_sectors, pfs_comm.c:84-229).
THEOREM NoSharedConnection == Spec => []OneUser
<1>1. PoolInv => OneUser
  BY DEF PoolInv, Using, OneUser, holds
<1> QED
  BY <1>1, PoolInvariant, PTL

\* The scan of ppd_get_free_socket (pfs_comm.c:289-302) never returns NULL to a
\* thread that sem_wait let through.
THEOREM ScanSucceeds == Spec => []ScanFinds
<1>1. PoolInv => ScanFinds
  BY PoolAssumption DEF PoolInv, Searching, ScanFinds, Sockets
<1> QED
  BY <1>1, PoolInvariant, PTL

-----------------------------------------------------------------------------
(* What the connections carry.                                             *)

carried(s) == Len(toPPD[s]) + Len(fromPPD[s])

DataTypes ==
    /\ call \in [Threads -> Calls \cup {NoCall}]
    /\ \A t \in Threads : pc[t] # "idle" => call[t] \in Calls
    /\ requests_sent \in [Threads -> Nat]
    /\ responses \in [Threads -> Seq(Answers)]
    /\ toPPD \in [Sockets -> Seq(Requests)]
    /\ fromPPD \in [Sockets -> Seq(Answers)]
    /\ lost \subseteq Sockets
    /\ volume \in [Sectors -> Values]
    /\ sockPool_mutex \in Threads \cup {None}
    /\ free_sockets <= max_conn

\* A thread has sent at least what its connection carries and what it has got
\* back, and it gives the connection back when it has got all it will send.
Balance ==
    \A t \in Threads :
        /\ pc[t] \in holding =>
              /\ requests_sent[t] <= Len(call[t].sectors)
              /\ carried(ppd_socket[t]) + Len(responses[t]) <= requests_sent[t]
              /\ pc[t] = "free" => Len(responses[t]) >= Len(call[t].sectors)
        /\ pc[t] \in {"idle", "sem_wait", "lock", "scan", "claim"} =>
              requests_sent[t] = 0 /\ responses[t] = <<>>

Quiet ==
    /\ \A s \in Sockets : status[s] # "NOTFREE" => toPPD[s] = <<>> /\ fromPPD[s] = <<>>
    /\ mainPC = "connect" => \A s \in Sockets : status[s] # "NOTFREE"
    /\ mainPC = "bootRecv" => status[1] = "NOTFREE" /\ carried(1) <= 1

DataInv == DataTypes /\ Balance /\ Quiet

LEMMA RemoveOne ==
    ASSUME NEW S, NEW q \in Seq(S), NEW i \in DOMAIN q
    PROVE  RemoveAt(q, i) \in Seq(S) /\ Len(RemoveAt(q, i)) = Len(q) - 1
<1>1. i \in 1 .. Len(q) /\ Len(q) \in Nat
  OBVIOUS
<1>2. SubSeq(q, 1, i - 1) \in Seq(S) /\ Len(SubSeq(q, 1, i - 1)) = i - 1
  BY <1>1, SubSeqProperties
<1>3. SubSeq(q, i + 1, Len(q)) \in Seq(S) /\ Len(SubSeq(q, i + 1, Len(q))) = Len(q) - i
  BY <1>1, SubSeqProperties
<1>4. /\ SubSeq(q, 1, i - 1) \o SubSeq(q, i + 1, Len(q)) \in Seq(S)
      /\ Len(SubSeq(q, 1, i - 1) \o SubSeq(q, i + 1, Len(q)))
            = Len(SubSeq(q, 1, i - 1)) + Len(SubSeq(q, i + 1, Len(q)))
  BY <1>2, <1>3, ConcatProperties
<1>5. (i - 1) + (Len(q) - i) = Len(q) - 1
  BY <1>1
<1>6. RemoveAt(q, i) = SubSeq(q, 1, i - 1) \o SubSeq(q, i + 1, Len(q))
  BY Zenon DEF RemoveAt
<1> QED
  BY <1>2, <1>3, <1>4, <1>5, <1>6, Zenon

LEMMA CallTypes ==
    ASSUME NEW c \in Calls
    PROVE  /\ c.kind \in {"read", "write"} /\ c.sectors \in Seq(Sectors)
           /\ Len(c.sectors) \in Nat /\ c.value \in Values
  BY CallsAssumption DEF Values

LEMMA InitData == Init => DataInv
<1> SUFFICES ASSUME Init PROVE DataInv
  OBVIOUS
<1> USE PoolAssumption DEF Init
<1>1. DataTypes
  BY DEF DataTypes, Values
<1>2. Balance /\ Quiet
  BY DEF Balance, Quiet, holding
<1> QED
  BY <1>1, <1>2 DEF DataInv

LEMMA MainData ==
    ASSUME PoolInv, DataInv, Connect \/ BootSend \/ BootReceive
    PROVE  DataInv'
<1> USE PoolAssumption DEF Sockets
<1>a. \A t \in Threads : pc[t] = "idle"
  BY DEF PoolInv, Starting, Connect, BootSend, BootReceive
<1>b. status \in [Sockets -> {"none", "FREE", "NOTFREE"}] /\ 1 \in Sockets
      /\ free_sockets \in Nat
  BY DEF PoolInv, Types
<1>1. CASE Connect
  <2>1. UNCHANGED <<threadVars, peerVars, free_sockets, sockPool_mutex>> /\ mainPC' # "bootRecv"
    BY <1>1 DEF Connect
  <2>2. \A s \in Sockets : status[s] # "NOTFREE" /\ status'[s] # "NOTFREE"
    <3>1. PICK opened \in BOOLEAN :
            status' = [status EXCEPT ![index] = IF opened THEN "FREE" ELSE @]
      BY <1>1 DEF Connect
    <3> QED
      BY <1>1, <1>b, <3>1 DEF Connect, DataInv, Quiet
  <2>3. DataTypes'
    BY <2>1 DEF DataInv, DataTypes, threadVars, peerVars
  <2>4. Balance'
    BY <2>1 DEF DataInv, Balance, carried, threadVars, peerVars
  <2>5. Quiet'
    BY <2>1, <2>2 DEF DataInv, Quiet, threadVars, peerVars
  <2> QED
    BY <2>3, <2>4, <2>5 DEF DataInv
<1>2. CASE BootSend
  <2> DEFINE request == [kind |-> "read", sector |-> BootSector,
                         value |-> InitialVolume[BootSector], by |-> None]
  <2>1. request \in Requests
    BY DEF Requests, Values
  <2> HIDE DEF request
  <2>2. /\ toPPD' = [toPPD EXCEPT ![1] = <<request>>]
        /\ UNCHANGED <<threadVars, fromPPD, lost, volume, sockPool_mutex>>
        /\ free_sockets' = free_sockets - 1 /\ status' = [status EXCEPT ![1] = "NOTFREE"]
    BY <1>2 DEF BootSend, request
  <2>3. DataTypes'
    BY <1>b, <2>1, <2>2 DEF DataInv, DataTypes, threadVars
  <2>4. Balance'
    BY <1>a, <2>2 DEF DataInv, Balance, threadVars, holding
  <2>5. toPPD[1] = <<>> /\ fromPPD[1] = <<>>
    BY <1>2, <1>b DEF PoolInv, Starting, BootSend, DataInv, Quiet
  <2>6. toPPD'[1] = <<request>> /\ fromPPD'[1] = <<>> /\ status'[1] = "NOTFREE"
    BY <1>b, <2>2, <2>5 DEF DataInv, DataTypes
  <2>7. \A s \in Sockets : s # 1 => toPPD'[s] = toPPD[s] /\ status'[s] = status[s]
    BY <1>b, <2>2 DEF DataInv, DataTypes
  <2>8. carried(1)' <= 1
    BY <2>6 DEF carried
  <2>9. mainPC' = "bootRecv"
    BY <1>2 DEF BootSend
  <2>10. Quiet'
    BY <2>2, <2>6, <2>7, <2>8, <2>9 DEF DataInv, Quiet
  <2> QED
    BY <2>3, <2>4, <2>10 DEF DataInv
<1>3. CASE BootReceive
  <2>1. UNCHANGED <<threadVars, toPPD, lost, volume, sockPool_mutex>>
    BY <1>3 DEF BootReceive
  <2>2. free_sockets + 1 = max_conn
    BY <1>3 DEF BootReceive, PoolInv, Starting
  <2>3. CASE fromPPD[1] # <<>> /\ mainPC' = "mounted"
            /\ fromPPD' = [fromPPD EXCEPT ![1] = Tail(@)]
            /\ status' = [status EXCEPT ![1] = "FREE"] /\ free_sockets' = free_sockets + 1
    <3>1. fromPPD[1] \in Seq(Answers) /\ toPPD[1] \in Seq(Requests)
      BY <1>b DEF DataInv, DataTypes
    <3>2. Tail(fromPPD[1]) \in Seq(Answers) /\ Len(Tail(fromPPD[1])) = Len(fromPPD[1]) - 1
      BY <3>1, <2>3
    <3>3. carried(1) <= 1
      BY <1>3 DEF BootReceive, DataInv, Quiet
    <3>4. Len(toPPD[1]) = 0 /\ Len(Tail(fromPPD[1])) = 0
      <4>1. Len(toPPD[1]) \in Nat /\ Len(fromPPD[1]) \in Nat /\ Len(Tail(fromPPD[1])) \in Nat
        BY <3>1, <3>2, LenProperties
      <4>2. Len(toPPD[1]) + Len(fromPPD[1]) <= 1
        BY <3>3 DEF carried
      <4>3. \A a, b, c \in Nat : a + b <= 1 /\ c = b - 1 => a = 0 /\ c = 0
        OBVIOUS
      <4> QED
        BY <3>2, <4>1, <4>2, <4>3, Zenon
    <3>5. toPPD[1] = <<>> /\ Tail(fromPPD[1]) = <<>>
      BY <3>1, <3>2, <3>4, EmptySeq
    <3>6. DataTypes'
      BY <2>1, <2>2, <2>3, <3>2 DEF DataInv, DataTypes, threadVars
    <3>7. Balance'
      BY <1>a, <2>1 DEF DataInv, Balance, threadVars, holding
    <3>8. \A s \in Sockets : fromPPD'[s] = IF s = 1 THEN <<>> ELSE fromPPD[s]
      BY <2>3, <3>5 DEF DataInv, DataTypes
    <3>9. \A s \in Sockets : s # 1 => status'[s] = status[s]
      BY <1>b, <2>3
    <3>10. Quiet'
      BY <2>1, <2>3, <3>5, <3>8, <3>9 DEF DataInv, Quiet
    <3> QED
      BY <3>6, <3>7, <3>10 DEF DataInv
  <2>4. CASE mainPC' = "exited" /\ UNCHANGED <<fromPPD, status, free_sockets>>
    <3>1. DataTypes'
      BY <2>1, <2>4 DEF DataInv, DataTypes, threadVars
    <3>2. Balance'
      BY <1>a, <2>1 DEF DataInv, Balance, threadVars, holding
    <3>3. Quiet'
      BY <2>1, <2>4 DEF DataInv, Quiet
    <3> QED
      BY <3>1, <3>2, <3>3 DEF DataInv
  <2> QED
    BY <1>3, <2>3, <2>4 DEF BootReceive
<1> QED
  BY <1>1, <1>2, <1>3

\* What the invariants say of a thread that holds a connection.
LEMMA Holding ==
    ASSUME PoolInv, DataInv, NEW t \in Threads, pc[t] \in holding
    PROVE  /\ ppd_socket[t] \in Sockets /\ status[ppd_socket[t]] = "NOTFREE"
           /\ call[t] \in Calls
           /\ requests_sent[t] \in Nat /\ responses[t] \in Seq(Answers)
           /\ Len(responses[t]) \in Nat
           /\ \A u \in Threads : u # t /\ pc[u] \in holding => ppd_socket[u] # ppd_socket[t]
<1>1. pc[t] # "idle"
  BY DEF holding
<1>2. requests_sent[t] \in Nat /\ responses[t] \in Seq(Answers) /\ call[t] \in Calls
  BY <1>1 DEF DataInv, DataTypes
<1> QED
  BY <1>2, LenProperties DEF PoolInv, Using

LEMMA CarriedType ==
    ASSUME DataInv, NEW s \in Sockets
    PROVE  /\ toPPD[s] \in Seq(Requests) /\ fromPPD[s] \in Seq(Answers)
           /\ Len(toPPD[s]) \in Nat /\ Len(fromPPD[s]) \in Nat
<1>1. toPPD[s] \in Seq(Requests) /\ fromPPD[s] \in Seq(Answers)
  BY DEF DataInv, DataTypes
<1> QED
  BY <1>1, LenProperties

\* A thread that holds no connection, before or after the step.
LEMMA OutsideData ==
    ASSUME PoolInv, PoolInv', DataInv, NEW t \in Threads,
           Begin(t) \/ SemWait(t) \/ Lock(t) \/ Scan(t) \/ SemPost(t) \/ Return(t)
    PROVE  DataInv'
<1> USE PoolAssumption DEF goto, mainVars, poolVars, peerVars
<1>1. /\ mainPC = "mounted" /\ UNCHANGED <<mainPC, status, toPPD, fromPPD, lost, volume>>
      /\ sockPool_mutex' \in {sockPool_mutex, t}
  BY DEF Begin, SemWait, Lock, Scan, SemPost, Return
<1>2. pc[t] \notin holding /\ pc'[t] \notin holding
  BY DEF Begin, SemWait, Lock, Scan, SemPost, Return, PoolInv, Types, holding
<1>3. \A u \in Threads : u # t => pc'[u] = pc[u] /\ ppd_socket'[u] = ppd_socket[u]
  BY DEF Begin, SemWait, Lock, Scan, SemPost, Return, PoolInv, Types
<1>4. \A u \in Threads : u # t => /\ call'[u] = call[u]
                                  /\ requests_sent'[u] = requests_sent[u]
                                  /\ responses'[u] = responses[u]
  BY DEF Begin, SemWait, Lock, Scan, SemPost, Return, DataInv, DataTypes
<1>5. /\ pc'[t] # "idle" => call'[t] \in Calls
      /\ pc'[t] \in {"idle", "sem_wait", "lock", "scan", "claim"} =>
            requests_sent'[t] = 0 /\ responses'[t] = <<>>
  <2>1. CASE Begin(t)
    BY <2>1 DEF Begin, Calls, PoolInv, Types, DataInv, DataTypes, Balance
  <2>2. CASE SemWait(t) \/ Lock(t) \/ Scan(t) \/ SemPost(t)
    BY <2>2 DEF SemWait, Lock, Scan, SemPost, PoolInv, Types, DataInv, DataTypes, Balance
  <2>3. CASE Return(t)
    BY <2>3 DEF Return, PoolInv, Types, DataInv, DataTypes
  <2> QED
    BY <2>1, <2>2, <2>3
<1>6. free_sockets' <= max_conn
  <2>1. IsFiniteSet(In')
    <3>1. In' \in SUBSET Threads
      BY DEF In
    <3> QED
      BY <3>1, FS_Subset
  <2>2. Cardinality(In') \in Nat
    BY <2>1, FS_CardinalityType
  <2>3. free_sockets' + Cardinality(In') = max_conn /\ free_sockets' \in Nat
    BY <1>1 DEF PoolInv, Types, Counting
  <2> QED
    BY <2>2, <2>3
<1>7. /\ call' \in [Threads -> Calls \cup {NoCall}]
      /\ requests_sent' \in [Threads -> Nat]
      /\ responses' \in [Threads -> Seq(Answers)]
  <2>1. CASE Begin(t)
    <3>1. PICK c \in CallsOf[t] : call' = [call EXCEPT ![t] = c]
      BY <2>1 DEF Begin
    <3>2. c \in Calls
      BY DEF Calls
    <3> QED
      BY <2>1, <3>1, <3>2 DEF Begin, DataInv, DataTypes
  <2>2. CASE SemWait(t) \/ Lock(t) \/ Scan(t) \/ SemPost(t)
    BY <2>2 DEF SemWait, Lock, Scan, SemPost, DataInv, DataTypes
  <2>3. CASE Return(t)
    BY <2>3 DEF Return, DataInv, DataTypes
  <2> QED
    BY <2>1, <2>2, <2>3
<1>8. DataTypes'
  BY <1>1, <1>3, <1>4, <1>5, <1>6, <1>7 DEF DataInv, DataTypes
<1>9. Balance'
  BY <1>1, <1>2, <1>3, <1>4, <1>5 DEF DataInv, Balance, carried
<1>10. Quiet'
  BY <1>1 DEF DataInv, Quiet
<1> QED
  BY <1>8, <1>9, <1>10 DEF DataInv

LEMMA ClaimData ==
    ASSUME PoolInv, DataInv, NEW t \in Threads, Claim(t)
    PROVE  DataInv'
<1> DEFINE place == loopAgain(call[t], 0)
<1>1. /\ pc[t] = "claim" /\ mainPC = "mounted" /\ pc' = [pc EXCEPT ![t] = place]
      /\ status' = [status EXCEPT ![ppd_socket[t]] = "NOTFREE"]
      /\ sockPool_mutex' = None
      /\ UNCHANGED <<mainPC, free_sockets, call, ppd_socket, requests_sent, responses,
                     toPPD, fromPPD, lost, volume>>
  BY DEF Claim, goto, mainVars, peerVars
<1>2. ppd_socket[t] \in Sockets /\ status[ppd_socket[t]] = "FREE"
  BY <1>1 DEF PoolInv, Searching
<1>3. toPPD[ppd_socket[t]] = <<>> /\ fromPPD[ppd_socket[t]] = <<>>
  BY <1>2 DEF DataInv, Quiet
<1>4. requests_sent[t] = 0 /\ responses[t] = <<>> /\ call[t] \in Calls
  BY <1>1 DEF DataInv, DataTypes, Balance
<1>5. Len(call[t].sectors) \in Nat
  BY <1>4, CallTypes
<1>6. place \in holding /\ (place = "free" => Len(call[t].sectors) <= 0)
  BY <1>5 DEF loopAgain, loopStart, holding
<1> HIDE DEF place
<1>7. pc'[t] = place /\ \A u \in Threads : u # t => pc'[u] = pc[u]
  BY <1>1 DEF PoolInv, Types
<1>8. carried(ppd_socket[t]) = 0 /\ Len(responses[t]) = 0
  BY <1>3, <1>4 DEF carried
<1>9. DataTypes'
  BY <1>1, <1>4, <1>7 DEF DataInv, DataTypes
<1>10. Balance'
  <2>1. \A u \in Threads : u # t => pc'[u] = pc[u]
    BY <1>7
  <2>2. pc'[t] \notin {"idle", "sem_wait", "lock", "scan", "claim"}
    BY <1>6, <1>7 DEF holding
  <2>3. /\ requests_sent'[t] <= Len(call'[t].sectors)
        /\ carried(ppd_socket[t])' + Len(responses'[t]) <= requests_sent'[t]
        /\ pc'[t] = "free" => Len(responses'[t]) >= Len(call'[t].sectors)
    <3>1. requests_sent'[t] = 0 /\ call'[t] = call[t] /\ responses'[t] = responses[t]
      BY <1>1, <1>4
    <3>2. carried(ppd_socket[t])' = 0
      BY <1>1, <1>8 DEF carried
    <3> QED
      BY <1>5, <1>6, <1>7, <1>8, <3>1, <3>2
  <2> QED
    BY <1>1, <2>1, <2>2, <2>3 DEF DataInv, Balance, carried
<1>11. Quiet'
  <2>1. \A s \in Sockets : status'[s] # "NOTFREE" => status[s] # "NOTFREE"
    BY <1>1, <1>2 DEF PoolInv, Types
  <2> QED
    BY <1>1, <2>1 DEF DataInv, Quiet
<1> QED
  BY <1>9, <1>10, <1>11 DEF DataInv

\* A step of a thread on the connection it holds, which it keeps: the other
\* threads hold other connections.
LEMMA UseConnection ==
    ASSUME PoolInv, DataInv, NEW t \in Threads, pc[t] \in holding,
           mainPC = "mounted", mainPC' \in {"mounted", "exited"},
           UNCHANGED <<status, free_sockets, sockPool_mutex, call, ppd_socket, lost, volume>>,
           pc' \in [Threads -> outside \cup inside],
           requests_sent' \in [Threads -> Nat],
           responses' \in [Threads -> Seq(Answers)],
           toPPD' \in [Sockets -> Seq(Requests)],
           fromPPD' \in [Sockets -> Seq(Answers)],
           \A u \in Threads : u # t => /\ pc'[u] = pc[u]
                                       /\ requests_sent'[u] = requests_sent[u]
                                       /\ responses'[u] = responses[u],
           \A s \in Sockets : s # ppd_socket[t] => toPPD'[s] = toPPD[s] /\ fromPPD'[s] = fromPPD[s],
           pc'[t] \in holding,
           requests_sent'[t] <= Len(call[t].sectors),
           carried(ppd_socket[t])' + Len(responses'[t]) <= requests_sent'[t],
           pc'[t] = "free" => Len(responses'[t]) >= Len(call[t].sectors)
    PROVE  DataInv'
<1>1. DataTypes'
  BY Holding DEF DataInv, DataTypes
<1>2. Balance'
  <2> SUFFICES ASSUME NEW u \in Threads
               PROVE  /\ pc'[u] \in holding =>
                            /\ requests_sent'[u] <= Len(call[u].sectors)
                            /\ carried(ppd_socket[u])' + Len(responses'[u]) <= requests_sent'[u]
                            /\ pc'[u] = "free" => Len(responses'[u]) >= Len(call[u].sectors)
                      /\ pc'[u] \in {"idle", "sem_wait", "lock", "scan", "claim"} =>
                            requests_sent'[u] = 0 /\ responses'[u] = <<>>
    BY DEF Balance, carried
  <2>1. CASE u = t
    BY <2>1 DEF holding
  <2>2. CASE u # t
    <3>1. pc[u] \in holding => ppd_socket[u] \in Sockets /\ ppd_socket[u] # ppd_socket[t]
      BY <2>2, Holding
    <3>2. pc[u] \in holding => carried(ppd_socket[u])' = carried(ppd_socket[u])
      BY <3>1 DEF carried
    <3> QED
      BY <2>2, <3>2 DEF DataInv, Balance
  <2> QED
    BY <2>1, <2>2
<1>3. Quiet'
  <2>1. \A s \in Sockets : status[s] # "NOTFREE" => s # ppd_socket[t]
    BY Holding
  <2> QED
    BY <2>1 DEF DataInv, Quiet
<1> QED
  BY <1>1, <1>2, <1>3 DEF DataInv

\* Where a call goes on after a request, and when that is its end.
LEMMA After ==
    ASSUME DataInv, NEW t \in Threads, call[t] \in Calls, NEW n \in Nat
    PROVE  /\ loopAgain(call[t], n) \in holding
           /\ loopAgain(call[t], n) = "free" => n >= Len(call[t].sectors)
<1>1. Len(call[t].sectors) \in Nat
  BY CallTypes
<1> QED
  BY <1>1 DEF loopAgain, loopStart, holding

LEMMA SendData ==
    ASSUME PoolInv, DataInv, NEW t \in Threads, Send(t)
    PROVE  DataInv'
<1> DEFINE s == ppd_socket[t]
           n == requests_sent[t]
           place == afterSend(t)
           request == [kind |-> call[t].kind, sector |-> call[t].sectors[n + 1],
                       value |-> call[t].value, by |-> t]
<1>a. /\ pc[t] = "send" /\ mainPC = "mounted" /\ pc[t] \in holding
      /\ UNCHANGED <<status, free_sockets, sockPool_mutex, call, ppd_socket, responses,
                     fromPPD, lost, volume>>
  BY DEF Send, poolVars, holding
<1>b. /\ s \in Sockets /\ call[t] \in Calls /\ n \in Nat
      /\ responses[t] \in Seq(Answers) /\ Len(responses[t]) \in Nat
  BY <1>a, Holding
<1>c. /\ toPPD[s] \in Seq(Requests) /\ Len(toPPD[s]) \in Nat /\ Len(fromPPD[s]) \in Nat
  BY <1>b, CarriedType
<1>d. /\ n <= Len(call[t].sectors) /\ Len(call[t].sectors) \in Nat
      /\ Len(toPPD[s]) + Len(fromPPD[s]) + Len(responses[t]) <= n
  BY <1>a, <1>b, CallTypes DEF DataInv, Balance, carried
<1>e. /\ place \in holding
      /\ place = "free" => Len(responses[t]) >= Len(call[t].sectors)
  BY <1>b, After DEF afterSend, holding
<1>f. /\ pc \in [Threads -> outside \cup inside]
      /\ requests_sent \in [Threads -> Nat] /\ responses \in [Threads -> Seq(Answers)]
      /\ toPPD \in [Sockets -> Seq(Requests)] /\ fromPPD \in [Sockets -> Seq(Answers)]
  BY DEF PoolInv, Types, DataInv, DataTypes
<1>g. holding \subseteq outside \cup inside
  BY DEF inside
<1>h. s \in Sockets /\ place \in outside \cup inside
  BY <1>b, <1>e, <1>g
<1>i. \/ /\ n = Len(call[t].sectors) /\ pc' = [pc EXCEPT ![t] = place]
         /\ UNCHANGED <<mainPC, requests_sent, toPPD>>
      \/ /\ n # Len(call[t].sectors)
         /\ toPPD' = toPPD \/ toPPD' = [toPPD EXCEPT ![s] = Append(@, request)]
         /\ requests_sent' = [requests_sent EXCEPT ![t] = n + 1]
         /\ pc' = [pc EXCEPT ![t] = place] /\ UNCHANGED mainPC
      \/ mainPC' = "exited" /\ UNCHANGED <<pc, requests_sent, toPPD>>
  BY DEF Send, goto
<1> HIDE DEF s, place, request
<1>1. CASE n = Len(call[t].sectors) /\ pc' = [pc EXCEPT ![t] = place]
           /\ UNCHANGED <<mainPC, requests_sent, toPPD>>
  <2>1. pc'[t] = place /\ pc' \in [Threads -> outside \cup inside]
        /\ \A u \in Threads : u # t => pc'[u] = pc[u]
    BY <1>1, <1>f, <1>h
  <2>2. carried(s)' + Len(responses'[t]) <= requests_sent'[t]
    BY <1>1, <1>a, <1>d DEF carried, s
  <2> QED
    BY <1>1, <1>a, <1>d, <1>e, <1>f, <2>1, <2>2, UseConnection DEF s
<1>2. CASE /\ n # Len(call[t].sectors)
           /\ toPPD' = toPPD \/ toPPD' = [toPPD EXCEPT ![s] = Append(@, request)]
           /\ requests_sent' = [requests_sent EXCEPT ![t] = n + 1]
           /\ pc' = [pc EXCEPT ![t] = place] /\ UNCHANGED mainPC
  <2>1. pc'[t] = place /\ pc' \in [Threads -> outside \cup inside]
        /\ \A u \in Threads : u # t => pc'[u] = pc[u]
    BY <1>2, <1>f, <1>h
  <2>2. /\ requests_sent' \in [Threads -> Nat] /\ requests_sent'[t] = n + 1
        /\ \A u \in Threads : u # t => requests_sent'[u] = requests_sent[u]
    BY <1>2, <1>b, <1>f
  <2>3. n + 1 <= Len(call[t].sectors) /\ n + 1 \in 1 .. Len(call[t].sectors)
    BY <1>2, <1>b, <1>d
  <2>4. request \in Requests
    <3>1. call[t].sectors \in Seq(Sectors)
      BY <1>b, CallTypes
    <3>2. call[t].sectors[n + 1] \in Sectors
      BY <2>3, <3>1
    <3> QED
      BY <1>b, <3>2, CallTypes DEF request, Requests
  <2>5. Append(toPPD[s], request) \in Seq(Requests)
        /\ Len(Append(toPPD[s], request)) = Len(toPPD[s]) + 1
    BY <1>c, <2>4, AppendProperties
  <2>6. /\ toPPD' \in [Sockets -> Seq(Requests)]
        /\ toPPD'[s] = toPPD[s] \/ toPPD'[s] = Append(toPPD[s], request)
        /\ \A x \in Sockets : x # s => toPPD'[x] = toPPD[x]
    BY <1>2, <1>f, <1>h, <2>5
  <2>7. Len(toPPD'[s]) <= Len(toPPD[s]) + 1 /\ Len(toPPD'[s]) \in Nat
    <3>1. CASE toPPD'[s] = toPPD[s]
      BY <3>1, <1>c
    <3>2. CASE toPPD'[s] = Append(toPPD[s], request)
      BY <3>2, <1>c, <2>5
    <3> QED
      BY <2>6, <3>1, <3>2
  <2>8. carried(s)' + Len(responses'[t]) <= requests_sent'[t]
    <3>1. carried(s)' = Len(toPPD'[s]) + Len(fromPPD[s])
      BY <1>a DEF carried, s
    <3>2. \A a, b, c, d, m \in Nat :
             a <= b + 1 /\ b + c + d <= m => a + c + d <= m + 1
      OBVIOUS
    <3>3. Len(toPPD'[s]) + Len(fromPPD[s]) + Len(responses[t]) <= n + 1
      BY <1>b, <1>c, <1>d, <2>7, <3>2, Zenon
    <3> QED
      BY <1>a, <2>2, <3>1, <3>3, Zenon
  <2> QED
    BY <1>2, <1>a, <1>e, <1>f, <2>1, <2>2, <2>3, <2>6, <2>8, UseConnection DEF s
<1>3. CASE mainPC' = "exited" /\ UNCHANGED <<pc, requests_sent, toPPD>>
  <2>1. carried(s)' + Len(responses'[t]) <= requests_sent'[t]
    BY <1>3, <1>a, <1>d DEF carried, s
  <2> QED
    BY <1>3, <1>a, <1>d, <1>f, <2>1, UseConnection DEF s
<1> QED
  BY <1>i, <1>1, <1>2, <1>3

LEMMA PollData ==
    ASSUME PoolInv, DataInv, NEW t \in Threads, Poll(t)
    PROVE  DataInv'
<1> DEFINE s == ppd_socket[t]
           place == IF call[t].kind = "write" THEN "send"
                    ELSE loopAgain(call[t], Len(responses'[t]))
<1>a. /\ pc[t] = "poll" /\ mainPC = "mounted" /\ pc[t] \in holding
      /\ UNCHANGED <<mainPC, status, free_sockets, sockPool_mutex, call, ppd_socket,
                     requests_sent, toPPD, lost, volume>>
      /\ pc' = [pc EXCEPT ![t] = place]
      /\ \/ fromPPD[s] = <<>> /\ fromPPD' = [fromPPD EXCEPT ![s] = @]
                              /\ responses' = [responses EXCEPT ![t] = @]
         \/ fromPPD[s] # <<>> /\ fromPPD' = [fromPPD EXCEPT ![s] = Tail(@)]
              /\ responses' = [responses EXCEPT ![t] = Append(@, Head(fromPPD[s]))]
  BY DEF Poll, goto, mainVars, poolVars, holding
<1>b. /\ s \in Sockets /\ call[t] \in Calls /\ requests_sent[t] \in Nat
      /\ responses[t] \in Seq(Answers) /\ Len(responses[t]) \in Nat
  BY <1>a, Holding
<1>c. /\ fromPPD[s] \in Seq(Answers) /\ Len(toPPD[s]) \in Nat /\ Len(fromPPD[s]) \in Nat
  BY <1>b, CarriedType
<1>d. /\ requests_sent[t] <= Len(call[t].sectors) /\ Len(call[t].sectors) \in Nat
      /\ Len(toPPD[s]) + Len(fromPPD[s]) + Len(responses[t]) <= requests_sent[t]
  BY <1>a, <1>b, CallTypes DEF DataInv, Balance, carried
<1>f. /\ pc \in [Threads -> outside \cup inside]
      /\ requests_sent \in [Threads -> Nat] /\ responses \in [Threads -> Seq(Answers)]
      /\ toPPD \in [Sockets -> Seq(Requests)] /\ fromPPD \in [Sockets -> Seq(Answers)]
  BY DEF PoolInv, Types, DataInv, DataTypes
<1> HIDE DEF s, place
<1>1. /\ responses' \in [Threads -> Seq(Answers)] /\ fromPPD' \in [Sockets -> Seq(Answers)]
      /\ Len(responses'[t]) \in Nat
      /\ Len(fromPPD'[s]) + Len(responses'[t]) = Len(fromPPD[s]) + Len(responses[t])
      /\ \A u \in Threads : u # t => responses'[u] = responses[u]
      /\ \A x \in Sockets : x # s => fromPPD'[x] = fromPPD[x]
  <2>1. CASE fromPPD[s] = <<>> /\ fromPPD' = [fromPPD EXCEPT ![s] = @]
             /\ responses' = [responses EXCEPT ![t] = @]
    <3>1. fromPPD' = fromPPD /\ responses' = responses
      BY <1>f, <2>1
    <3> QED
      BY <1>b, <1>f, <3>1
  <2>2. CASE fromPPD[s] # <<>> /\ fromPPD' = [fromPPD EXCEPT ![s] = Tail(@)]
              /\ responses' = [responses EXCEPT ![t] = Append(@, Head(fromPPD[s]))]
    <3>1. Head(fromPPD[s]) \in Answers /\ Tail(fromPPD[s]) \in Seq(Answers)
          /\ Len(Tail(fromPPD[s])) = Len(fromPPD[s]) - 1
      BY <1>c, <2>2, HeadTailProperties
    <3>2. /\ Append(responses[t], Head(fromPPD[s])) \in Seq(Answers)
          /\ Len(Append(responses[t], Head(fromPPD[s]))) = Len(responses[t]) + 1
      BY <1>b, <3>1, AppendProperties
    <3>3. /\ responses'[t] = Append(responses[t], Head(fromPPD[s]))
          /\ responses' \in [Threads -> Seq(Answers)]
          /\ \A u \in Threads : u # t => responses'[u] = responses[u]
      BY <1>f, <2>2, <3>2
    <3>4. /\ fromPPD'[s] = Tail(fromPPD[s]) /\ fromPPD' \in [Sockets -> Seq(Answers)]
          /\ \A x \in Sockets : x # s => fromPPD'[x] = fromPPD[x]
      BY <1>b, <1>f, <2>2, <3>1
    <3>5. Len(fromPPD'[s]) + Len(responses'[t]) = Len(fromPPD[s]) + Len(responses[t])
          /\ Len(responses'[t]) \in Nat
      <4>1. \A a, b, c \in Nat : c = a - 1 => c + (b + 1) = a + b /\ b + 1 \in Nat
        OBVIOUS
      <4>2. Len(Tail(fromPPD[s])) \in Nat
        BY <3>1, LenProperties
      <4>3. Len(fromPPD'[s]) = Len(Tail(fromPPD[s]))
        BY <3>4
      <4>4. Len(responses'[t]) = Len(responses[t]) + 1
        BY <3>2, <3>3
      <4>5. Len(Tail(fromPPD[s])) + (Len(responses[t]) + 1)
               = Len(fromPPD[s]) + Len(responses[t]) /\ Len(responses[t]) + 1 \in Nat
        BY <1>b, <1>c, <3>1, <4>1, <4>2, Zenon
      <4> QED
        BY <4>3, <4>4, <4>5, Zenon
    <3> QED
      BY <3>3, <3>4, <3>5
  <2> QED
    BY <1>a, <2>1, <2>2
<1>2. place \in holding /\ (place = "free" => Len(responses'[t]) >= Len(call[t].sectors))
  BY <1>b, <1>1, After DEF place, holding
<1>3. /\ pc'[t] = place /\ pc' \in [Threads -> outside \cup inside]
      /\ \A u \in Threads : u # t => pc'[u] = pc[u]
  BY <1>a, <1>f, <1>2 DEF inside
<1>4. carried(s)' + Len(responses'[t]) <= requests_sent'[t]
  <2>1. carried(s)' = Len(toPPD[s]) + Len(fromPPD'[s])
    BY <1>a DEF carried, s
  <2>2. Len(fromPPD'[s]) \in Nat
    BY <1>b, <1>1, LenProperties
  <2>3. \A a, b, c, d, m \in Nat, e \in Nat :
           d + e = b + c /\ a + b + c <= m => a + d + e <= m
    OBVIOUS
  <2>4. Len(toPPD[s]) + Len(fromPPD'[s]) + Len(responses'[t]) <= requests_sent[t]
    BY <1>b, <1>c, <1>d, <1>1, <2>2, <2>3, Zenon
  <2> QED
    BY <1>a, <2>1, <2>4, Zenon
<1> QED
  BY <1>a, <1>d, <1>f, <1>1, <1>2, <1>3, <1>4, UseConnection DEF s

\* A call that ends has got back all it sent: its connection carries nothing.
LEMMA FreeData ==
    ASSUME PoolInv, DataInv, NEW t \in Threads, Free(t)
    PROVE  DataInv'
<1> DEFINE s == ppd_socket[t]
<1>a. /\ pc[t] = "free" /\ mainPC = "mounted" /\ pc[t] \in holding
      /\ status' = [status EXCEPT ![s] = "FREE"]
      /\ ppd_socket' = [ppd_socket EXCEPT ![t] = 0]
      /\ pc' = [pc EXCEPT ![t] = "sem_post"]
      /\ UNCHANGED <<mainPC, free_sockets, sockPool_mutex, call, requests_sent, responses,
                     toPPD, fromPPD, lost, volume>>
  BY DEF Free, goto, mainVars, peerVars, holding
<1>b. /\ s \in Sockets /\ call[t] \in Calls /\ requests_sent[t] \in Nat
      /\ Len(responses[t]) \in Nat
  BY <1>a, Holding
<1>c. /\ toPPD[s] \in Seq(Requests) /\ fromPPD[s] \in Seq(Answers)
      /\ Len(toPPD[s]) \in Nat /\ Len(fromPPD[s]) \in Nat
  BY <1>b, CarriedType
<1>d. /\ requests_sent[t] <= Len(call[t].sectors) /\ Len(call[t].sectors) \in Nat
      /\ Len(toPPD[s]) + Len(fromPPD[s]) + Len(responses[t]) <= requests_sent[t]
      /\ Len(responses[t]) >= Len(call[t].sectors)
  BY <1>a, <1>b, CallTypes DEF DataInv, Balance, carried
<1> HIDE DEF s
<1>1. toPPD[s] = <<>> /\ fromPPD[s] = <<>>
  <2>1. Len(toPPD[s]) = 0 /\ Len(fromPPD[s]) = 0
    <3> DEFINE a == Len(toPPD[s])
               b == Len(fromPPD[s])
               c == Len(responses[t])
               m == requests_sent[t]
               n == Len(call[t].sectors)
    <3>1. a \in Nat /\ b \in Nat /\ c \in Nat /\ m \in Nat /\ n \in Nat
          /\ a + b + c <= m /\ m <= n /\ c >= n
      BY <1>b, <1>c, <1>d
    <3> HIDE DEF a, b, c, m, n
    <3>2. a = 0 /\ b = 0
      BY <3>1
    <3> QED
      BY <3>2 DEF a, b
  <2> QED
    BY <1>c, <2>1, EmptySeq
<1>2. /\ pc'[t] = "sem_post"
      /\ \A u \in Threads : u # t => pc'[u] = pc[u] /\ ppd_socket'[u] = ppd_socket[u]
  BY <1>a DEF PoolInv, Types
<1>3. DataTypes'
  BY <1>a, <1>2, <1>b DEF DataInv, DataTypes
<1>4. Balance'
  BY <1>a, <1>2 DEF DataInv, Balance, carried, holding
<1>5. Quiet'
  <2>1. \A x \in Sockets : x # s => status'[x] = status[x]
    BY <1>a DEF PoolInv, Types
  <2> QED
    BY <1>a, <1>1, <2>1 DEF DataInv, Quiet
<1> QED
  BY <1>3, <1>4, <1>5 DEF DataInv

\* The other end takes a request off a connection and puts its answer there.
LEMMA ServeData ==
    ASSUME PoolInv, DataInv, NEW s \in Sockets, Serve(s)
    PROVE  DataInv'
<1> DEFINE value(r) == IF r.kind = "read" THEN volume[r.sector] ELSE r.value
           answer(r) == [sector |-> r.sector, value |-> value(r)]
<1>a. UNCHANGED <<mainVars, poolVars, threadVars, lost>>
  BY DEF Serve
<1>b. PICK i \in DOMAIN toPPD[s] :
          /\ toPPD' = [toPPD EXCEPT ![s] = RemoveAt(@, i)]
          /\ fromPPD' = [fromPPD EXCEPT ![s] = Append(@, answer(toPPD[s][i]))]
          /\ volume' = [volume EXCEPT ![toPPD[s][i].sector] = value(toPPD[s][i])]
  BY DEF Serve
<1>c. /\ toPPD[s] \in Seq(Requests) /\ fromPPD[s] \in Seq(Answers)
      /\ Len(toPPD[s]) \in Nat /\ Len(fromPPD[s]) \in Nat
  BY CarriedType
<1>d. /\ toPPD \in [Sockets -> Seq(Requests)] /\ fromPPD \in [Sockets -> Seq(Answers)]
      /\ volume \in [Sectors -> Values]
  BY DEF DataInv, DataTypes
<1>e. toPPD[s][i] \in Requests
  BY <1>b, <1>c
<1>f. toPPD[s][i].sector \in Sectors /\ value(toPPD[s][i]) \in Values
  BY <1>d, <1>e DEF Requests
<1>g. answer(toPPD[s][i]) \in Answers
  BY <1>f DEF Answers
<1> HIDE DEF value, answer
<1>1. /\ RemoveAt(toPPD[s], i) \in Seq(Requests)
      /\ Len(RemoveAt(toPPD[s], i)) = Len(toPPD[s]) - 1
  BY <1>b, <1>c, RemoveOne
<1>2. /\ Append(fromPPD[s], answer(toPPD[s][i])) \in Seq(Answers)
      /\ Len(Append(fromPPD[s], answer(toPPD[s][i]))) = Len(fromPPD[s]) + 1
  BY <1>c, <1>g, AppendProperties
<1>3. /\ toPPD' \in [Sockets -> Seq(Requests)] /\ fromPPD' \in [Sockets -> Seq(Answers)]
      /\ volume' \in [Sectors -> Values]
      /\ \A x \in Sockets : x # s => toPPD'[x] = toPPD[x] /\ fromPPD'[x] = fromPPD[x]
      /\ toPPD'[s] = RemoveAt(toPPD[s], i)
      /\ fromPPD'[s] = Append(fromPPD[s], answer(toPPD[s][i]))
  BY <1>b, <1>d, <1>f, <1>1, <1>2
<1>4. \A x \in Sockets : carried(x)' = carried(x)
  <2>1. Len(toPPD'[s]) = Len(toPPD[s]) - 1 /\ Len(fromPPD'[s]) = Len(fromPPD[s]) + 1
    BY <1>1, <1>2, <1>3
  <2>2. \A a, b \in Nat : (a - 1) + (b + 1) = a + b
    OBVIOUS
  <2>3. carried(s)' = carried(s)
    BY <1>c, <2>1, <2>2, Zenon DEF carried
  <2>4. \A x \in Sockets : x # s => carried(x)' = carried(x)
    BY <1>3 DEF carried
  <2> QED
    BY <2>3, <2>4
<1>5. status[s] = "NOTFREE"
  <2>1. toPPD[s] # <<>>
    BY <1>b
  <2> QED
    BY <2>1 DEF DataInv, Quiet
<1>6. DataTypes'
  BY <1>a, <1>3 DEF DataInv, DataTypes, poolVars, threadVars
<1>7. Balance'
  <2>1. \A u \in Threads : pc[u] \in holding =>
            /\ ppd_socket[u] \in Sockets
            /\ carried(ppd_socket[u])' = carried(ppd_socket[u])
    BY <1>4, <1>a DEF PoolInv, Using, carried, threadVars
  <2> QED
    BY <1>a, <2>1 DEF DataInv, Balance, threadVars, carried
<1>8. Quiet'
  <2>1. UNCHANGED <<mainPC, status>> /\ 1 \in Sockets
    BY <1>a, PoolAssumption DEF mainVars, poolVars, Sockets
  <2>2. \A x \in Sockets : status[x] # "NOTFREE" =>
            toPPD'[x] = <<>> /\ fromPPD'[x] = <<>>
    BY <1>3, <1>5 DEF DataInv, Quiet
  <2>3. mainPC = "bootRecv" => status[1] = "NOTFREE" /\ carried(1)' <= 1
    BY <1>4, <2>1 DEF DataInv, Quiet
  <2>4. mainPC = "connect" => \A x \in Sockets : status[x] # "NOTFREE"
    BY DEF DataInv, Quiet
  <2> QED
    BY <2>1, <2>2, <2>3, <2>4 DEF Quiet
<1> QED
  BY <1>6, <1>7, <1>8 DEF DataInv

LEMMA StillData ==
    ASSUME DataInv,
           UNCHANGED <<mainVars, poolVars, threadVars, toPPD, fromPPD, volume>>,
           lost' \subseteq Sockets
    PROVE  DataInv'
<1>1. DataTypes'
  BY DEF DataInv, DataTypes, poolVars, threadVars
<1>2. Balance' /\ Quiet'
  BY DEF DataInv, Balance, Quiet, carried, mainVars, poolVars, threadVars
<1> QED
  BY <1>1, <1>2 DEF DataInv

LEMMA NextData == PoolInv /\ DataInv /\ [Next]_vars => DataInv'
<1> SUFFICES ASSUME PoolInv, DataInv, [Next]_vars PROVE DataInv'
  OBVIOUS
<1>1. PoolInv'
  BY NextInv
<1>2. CASE Connect \/ BootSend \/ BootReceive
  BY <1>2, MainData
<1>3. ASSUME NEW t \in Threads,
             Begin(t) \/ SemWait(t) \/ Lock(t) \/ Scan(t) \/ SemPost(t) \/ Return(t)
      PROVE  DataInv'
  BY <1>1, <1>3, OutsideData
<1>4. ASSUME NEW t \in Threads, Claim(t) \/ Send(t) \/ Poll(t) \/ Free(t)
      PROVE  DataInv'
  BY <1>4, ClaimData, SendData, PollData, FreeData
<1>5. ASSUME NEW s \in Sockets, Serve(s)
      PROVE  DataInv'
  BY <1>5, ServeData
<1>6. ASSUME NEW s \in Sockets, Lose(s)
      PROVE  DataInv'
  BY <1>6, StillData DEF Lose, DataInv, DataTypes
<1>7. CASE UNCHANGED vars
  BY <1>7, StillData DEF vars, peerVars, DataInv, DataTypes
<1> QED
  BY <1>2, <1>3, <1>4, <1>5, <1>6, <1>7 DEF Next, OwnStep

THEOREM DataInvariant == Spec => [](PoolInv /\ DataInv)
<1>1. Init => PoolInv /\ DataInv
  BY InitInv, InitData
<1>2. PoolInv /\ DataInv /\ [Next]_vars => PoolInv' /\ DataInv'
  BY NextInv, NextData
<1> QED
  BY <1>1, <1>2, PTL DEF Spec

\* No call leaves a request or an answer behind on the connection it gives back
\* (pfs_comm.c:150 and 226), for any number of sectors and any order of answers.
THEOREM NothingLeftBehind == Spec => []FreeIsQuiet
<1>1. DataInv => FreeIsQuiet
  BY DEF DataInv, Quiet, FreeIsQuiet
<1> QED
  BY <1>1, DataInvariant, PTL

\* Every variable of the pool keeps its type.
THEOREM TypeCorrect == Spec => []TypeOK
<1>1. PoolInv /\ DataInv => TypeOK
  BY DEF PoolInv, Types, DataInv, DataTypes, TypeOK, outside, inside
<1> QED
  BY <1>1, DataInvariant, PTL
-----------------------------------------------------------------------------
(* What a call finds: each of its sectors is performed once, and what was    *)
(* found is on its way back or there.                                        *)

\* Answers to different requests, and no two to one.
Distinct(q) == \A i, j \in DOMAIN q : q[i].sector = q[j].sector => i = j
Apart(q, r) == \A i \in DOMAIN q, j \in DOMAIN r : q[i].sector # r[j].sector
Truthful(q, met) ==
    \A i \in DOMAIN q : q[i].sector \in DOMAIN met /\ q[i].value = met[q[i].sector]

\* One of the first n requests of the call c of t, not performed yet.
Asked(r, t, c, n, met) ==
    /\ r.by = t /\ r.kind = c.kind /\ r.value = c.value
    /\ \E k \in 1 .. n : r.sector = c.sectors[k]
    /\ r.sector \notin DOMAIN met

OnTheWay(t) ==
    LET s == ppd_socket[t]
    IN  /\ \A i \in DOMAIN toPPD[s] :
               Asked(toPPD[s][i], t, call[t], requests_sent[t], found[t])
        /\ Distinct(toPPD[s])
        /\ Truthful(fromPPD[s], found[t])
        /\ Distinct(fromPPD[s]) /\ Apart(fromPPD[s], responses[t])

Serving(t) ==
    /\ pc[t] = "idle" <=> call[t] = NoCall
    /\ pc[t] \in {"idle", "sem_wait", "lock", "scan", "claim"} => found[t] = <<>>
    /\ Truthful(responses[t], found[t]) /\ Distinct(responses[t])
    /\ \A x \in DOMAIN found[t] :
           \E k \in 1 .. requests_sent[t] : x = call[t].sectors[k]
    /\ pc[t] \in holding => OnTheWay(t)
    /\ pc[t] \in {"sem_post", "return"} =>
          \A k \in DOMAIN call[t].sectors :
             \E i \in DOMAIN responses[t] : responses[t][i].sector = call[t].sectors[k]

\* While main waits for the boot sector, nobody else has asked for anything.
Booting ==
    mainPC = "bootRecv" =>
        \A s \in Sockets : \A i \in DOMAIN toPPD[s] :
            toPPD[s][i].by = None /\ toPPD[s][i].kind = "read"

ServeInv ==
    /\ \A t \in Threads : Serving(t)
    /\ Booting
    /\ found = [t \in Threads |-> found[t]]

LEMMA RemovedElements ==
    ASSUME NEW S, NEW q \in Seq(S), NEW i \in DOMAIN q,
           NEW k \in DOMAIN RemoveAt(q, i)
    PROVE  /\ (IF k < i THEN k ELSE k + 1) \in DOMAIN q
           /\ (IF k < i THEN k ELSE k + 1) # i
           /\ RemoveAt(q, i)[k] = q[IF k < i THEN k ELSE k + 1]
<1>1. i \in 1 .. Len(q) /\ Len(q) \in Nat
  OBVIOUS
<1>2. /\ SubSeq(q, 1, i - 1) \in Seq(S) /\ Len(SubSeq(q, 1, i - 1)) = i - 1
      /\ \A j \in 1 .. i - 1 : SubSeq(q, 1, i - 1)[j] = q[1 + j - 1]
  BY <1>1, SubSeqProperties
<1>3. /\ SubSeq(q, i + 1, Len(q)) \in Seq(S) /\ Len(SubSeq(q, i + 1, Len(q))) = Len(q) - i
      /\ \A j \in 1 .. Len(q) - i : SubSeq(q, i + 1, Len(q))[j] = q[i + 1 + j - 1]
  BY <1>1, SubSeqProperties
<1> DEFINE a == SubSeq(q, 1, i - 1)
           b == SubSeq(q, i + 1, Len(q))
<1>4. RemoveAt(q, i) = a \o b
  BY Zenon DEF RemoveAt
<1> HIDE DEF a, b
<1>5. /\ a \in Seq(S) /\ Len(a) = i - 1 /\ \A j \in 1 .. i - 1 : a[j] = q[j]
      /\ b \in Seq(S) /\ Len(b) = Len(q) - i /\ \A j \in 1 .. Len(q) - i : b[j] = q[i + j]
  <2>1. /\ a \in Seq(S) /\ Len(a) = i - 1 /\ \A j \in 1 .. i - 1 : a[j] = q[1 + j - 1]
        /\ b \in Seq(S) /\ Len(b) = Len(q) - i
        /\ \A j \in 1 .. Len(q) - i : b[j] = q[i + 1 + j - 1]
    BY <1>2, <1>3, Zenon DEF a, b
  <2>2. \A j \in Int : 1 + j - 1 = j /\ i + 1 + j - 1 = i + j
    BY <1>1
  <2>3. 1 .. i - 1 \subseteq Int /\ 1 .. Len(q) - i \subseteq Int
    BY <1>1
  <2>4. /\ \A j \in 1 .. i - 1 : a[j] = q[j]
        /\ \A j \in 1 .. Len(q) - i : b[j] = q[i + j]
    BY <2>1, <2>2, <2>3, Zenon
  <2> QED
    BY <2>1, <2>4, Zenon
<1>6. Len(a \o b) = Len(a) + Len(b) /\ a \o b \in Seq(S)
  BY <1>5, ConcatProperties
<1>7. k \in 1 .. Len(q) - 1
  <2>1. DOMAIN RemoveAt(q, i) = 1 .. Len(a \o b)
    BY <1>4, <1>6
  <2> QED
    BY <1>1, <1>5, <1>6, <2>1
<1>8. (a \o b)[k] = IF k <= Len(a) THEN a[k] ELSE b[k - Len(a)]
  <2>1. k \in 1 .. Len(a) + Len(b)
    BY <1>1, <1>5, <1>7
  <2> QED
    BY <1>5, <2>1, ConcatProperties
<1>9. CASE k < i
  BY <1>1, <1>4, <1>5, <1>7, <1>8, <1>9
<1>10. CASE ~(k < i)
  <2>1. k - Len(a) \in 1 .. Len(q) - i /\ i + (k - Len(a)) = k + 1 /\ ~(k <= Len(a))
    <3>1. \A m, x, y, l \in Int : /\ x \in 1 .. m /\ y \in 1 .. m - 1 /\ ~(y < x) /\ l = x - 1
             => y - l \in 1 .. m - x /\ x + (y - l) = y + 1 /\ ~(y <= l)
      OBVIOUS
    <3>2. Len(q) \in Int /\ i \in Int /\ k \in Int /\ Len(a) \in Int /\ Len(a) = i - 1
      BY <1>1, <1>5, <1>7
    <3> QED
      BY <1>1, <1>7, <1>10, <3>1, <3>2, Zenon
  <2>2. RemoveAt(q, i)[k] = q[k + 1]
    BY <1>4, <1>5, <1>8, <2>1
  <2> QED
    BY <1>1, <1>7, <1>10, <2>2
<1> QED
  BY <1>9, <1>10

LEMMA TailElements ==
    ASSUME NEW S, NEW q \in Seq(S), q # <<>>
    PROVE  /\ Head(q) = q[1] /\ 1 \in DOMAIN q
           /\ \A k \in DOMAIN Tail(q) : k + 1 \in DOMAIN q /\ k + 1 # 1 /\ Tail(q)[k] = q[k + 1]
<1>1. Len(q) \in Nat \ {0} /\ DOMAIN q = 1 .. Len(q)
  BY EmptySeq, LenProperties
<1>2. Tail(q) \in Seq(S) /\ Len(Tail(q)) = Len(q) - 1
      /\ \A k \in 1 .. Len(q) - 1 : Tail(q)[k] = q[k + 1]
  BY HeadTailProperties
<1>3. DOMAIN Tail(q) = 1 .. Len(q) - 1
  BY <1>2, LenProperties
<1> QED
  BY <1>1, <1>2, <1>3

LEMMA AppendElements ==
    ASSUME NEW S, NEW q \in Seq(S), NEW e \in S, NEW k \in DOMAIN Append(q, e)
    PROVE  \/ k \in DOMAIN q /\ Append(q, e)[k] = q[k]
           \/ k = Len(q) + 1 /\ Append(q, e)[k] = e
<1>1. Len(q) \in Nat /\ DOMAIN q = 1 .. Len(q)
  BY LenProperties
<1>2. k \in 1 .. Len(q) + 1
  BY <1>1
<1> QED
  BY <1>1, <1>2

LEMMA DistinctAppend ==
    ASSUME NEW S, NEW q \in Seq(S), NEW e \in S, Distinct(q),
           \A i \in DOMAIN q : q[i].sector # e.sector
    PROVE  Distinct(Append(q, e))
<1> SUFFICES ASSUME NEW i \in DOMAIN Append(q, e), NEW j \in DOMAIN Append(q, e),
                    Append(q, e)[i].sector = Append(q, e)[j].sector
             PROVE  i = j
  BY DEF Distinct
<1> DEFINE r == Append(q, e)
           n == Len(q) + 1
<1>1. \A k \in DOMAIN r : (k \in DOMAIN q /\ r[k] = q[k]) \/ (k = n /\ r[k] = e)
  BY AppendElements
<1> HIDE DEF r, n
<1>2. i \in DOMAIN r /\ j \in DOMAIN r /\ r[i].sector = r[j].sector
  BY DEF r
<1> QED
  BY <1>1, <1>2 DEF Distinct

LEMMA TruthfulAppend ==
    ASSUME NEW S, NEW q \in Seq(S), NEW e \in S, NEW met, Truthful(q, met),
           e.sector \in DOMAIN met, e.value = met[e.sector]
    PROVE  Truthful(Append(q, e), met)
<1> SUFFICES ASSUME NEW i \in DOMAIN Append(q, e)
             PROVE  /\ Append(q, e)[i].sector \in DOMAIN met
                    /\ Append(q, e)[i].value = met[Append(q, e)[i].sector]
  BY DEF Truthful
<1> DEFINE r == Append(q, e)
<1>1. (i \in DOMAIN q /\ r[i] = q[i]) \/ r[i] = e
  BY AppendElements
<1> HIDE DEF r
<1>2. r[i].sector \in DOMAIN met /\ r[i].value = met[r[i].sector]
  BY <1>1 DEF Truthful
<1> QED
  BY <1>2 DEF r

\* As many answers as sectors, all different: every sector has one.
LEMMA AllAnswered ==
    ASSUME NEW c \in Calls, NEW q \in Seq(Answers), Distinct(q), Len(q) = Len(c.sectors),
           \A i \in DOMAIN q : \E k \in DOMAIN c.sectors : q[i].sector = c.sectors[k]
    PROVE  \A k \in DOMAIN c.sectors : \E i \in DOMAIN q : q[i].sector = c.sectors[k]
<1> DEFINE n == Len(q)
           L == Listed(c.sectors)
           f == [i \in 1 .. n |-> q[i].sector]
<1>1. n \in Nat /\ DOMAIN q = 1 .. n
  BY LenProperties
<1>2. c.sectors \in Seq(Sectors) /\ Cardinality(L) = n
  BY CallsAssumption
<1>3. DOMAIN c.sectors = 1 .. n
  BY <1>2, LenProperties
<1>4. IsFiniteSet(1 .. n) /\ Cardinality(1 .. n) = n
  <2> HIDE DEF n
  <2>1. n \in Int /\ (1 > n => n = 0) /\ n - 1 + 1 = n
    BY <1>1
  <2> QED
    BY <2>1, FS_Interval
<1>5. IsFiniteSet(L)
  <2> DEFINE g == [k \in 1 .. n |-> c.sectors[k]]
  <2>1. g \in Surjection(1 .. n, L)
    BY <1>3 DEF Surjection, Listed
  <2> QED
    BY <1>4, <2>1, FS_Surjection
<1>6. f \in Injection(1 .. n, L)
  <2>1. \A i \in 1 .. n : q[i].sector \in L
    BY <1>1 DEF Listed
  <2>2. \A i, j \in 1 .. n : f[i] = f[j] => i = j
    BY <1>1 DEF Distinct
  <2> QED
    BY <2>1, <2>2 DEF Injection, IsInjective
<1> HIDE DEF f
<1>7. f \in Surjection(1 .. n, L)
  BY <1>2, <1>4, <1>5, <1>6, FS_Injection
<1>8. \A x \in L : \E i \in 1 .. n : f[i] = x
  BY <1>7 DEF Surjection
<1> QED
  BY <1>1, <1>8 DEF Listed, f

\* No sector of a call is listed twice.
LEMMA NoSectorTwice ==
    ASSUME NEW c \in Calls, NEW i \in DOMAIN c.sectors, NEW j \in DOMAIN c.sectors,
           c.sectors[i] = c.sectors[j]
    PROVE  i = j
<1> DEFINE n == Len(c.sectors)
           L == Listed(c.sectors)
           g == [k \in 1 .. n |-> c.sectors[k]]
<1>1. c.sectors \in Seq(Sectors) /\ Cardinality(L) = n
  BY CallsAssumption
<1>2. n \in Nat /\ DOMAIN c.sectors = 1 .. n
  BY <1>1, LenProperties
<1>3. IsFiniteSet(1 .. n) /\ Cardinality(1 .. n) = n
  BY <1>2, FS_Interval
<1>4. g \in Surjection(1 .. n, L)
  BY <1>2 DEF Surjection, Listed
<1> HIDE DEF g
<1>5. g \in Injection(1 .. n, L)
  BY <1>1, <1>3, <1>4, FS_Surjection
<1> QED
  BY <1>2, <1>5 DEF Injection, IsInjective, g

\* A thread that takes no step, on a connection nobody else uses.
LEMMA StillServing ==
    ASSUME NEW u \in Threads, Serving(u),
           pc'[u] = pc[u], call'[u] = call[u], requests_sent'[u] = requests_sent[u],
           responses'[u] = responses[u], found'[u] = found[u],
           pc[u] \in holding =>
              /\ ppd_socket'[u] = ppd_socket[u]
              /\ toPPD'[ppd_socket[u]] = toPPD[ppd_socket[u]]
              /\ fromPPD'[ppd_socket[u]] = fromPPD[ppd_socket[u]]
    PROVE  Serving(u)'
<1>1. pc[u] \in holding => OnTheWay(u)'
  <2> SUFFICES ASSUME pc[u] \in holding PROVE OnTheWay(u)'
    OBVIOUS
  <2> DEFINE s == ppd_socket[u]
  <2>1. OnTheWay(u)
    BY DEF Serving
  <2>2. ppd_socket'[u] = s /\ toPPD'[s] = toPPD[s] /\ fromPPD'[s] = fromPPD[s]
    OBVIOUS
  <2> QED
    BY <2>1, <2>2 DEF OnTheWay
<1> QED
  BY <1>1 DEF Serving

\* A step of one thread, which concerns no other.
LEMMA ThreadServes ==
    ASSUME ServeInv, NEW t \in Threads, mainPC = "mounted", mainPC' # "bootRecv",
           Serving(t)', found' = [x \in Threads |-> found'[x]],
           \A u \in Threads : u # t =>
              /\ pc'[u] = pc[u] /\ call'[u] = call[u]
              /\ requests_sent'[u] = requests_sent[u]
              /\ responses'[u] = responses[u] /\ found'[u] = found[u]
              /\ pc[u] \in holding =>
                   /\ ppd_socket'[u] = ppd_socket[u]
                   /\ toPPD'[ppd_socket[u]] = toPPD[ppd_socket[u]]
                   /\ fromPPD'[ppd_socket[u]] = fromPPD[ppd_socket[u]]
    PROVE  ServeInv'
<1>1. ASSUME NEW u \in Threads PROVE Serving(u)'
  <2>1. CASE u = t
    BY <2>1
  <2>2. CASE u # t
    <3>1. Serving(u)
      BY DEF ServeInv
    <3> QED
      BY <2>2, <3>1, StillServing
  <2> QED
    BY <2>1, <2>2
<1> QED
  BY <1>1 DEF ServeInv, Booting

LEMMA InitServe == Init => ServeInv
<1> SUFFICES ASSUME Init PROVE ServeInv
  OBVIOUS
<1>1. \A t \in Threads : Serving(t)
  BY DEF Init, Serving, Truthful, Distinct, holding
<1> QED
  BY <1>1 DEF Init, ServeInv, Booting

LEMMA MainServe ==
    ASSUME PoolInv, DataInv, ServeInv, Connect \/ BootSend \/ BootReceive
    PROVE  ServeInv'
<1>1. /\ \A t \in Threads : pc[t] = "idle"
      /\ UNCHANGED <<pc, call, ppd_socket, requests_sent, responses, found>>
  BY DEF PoolInv, Starting, Connect, BootSend, BootReceive, threadVars, peerVars
<1>2. ASSUME NEW t \in Threads PROVE Serving(t)'
  <2>1. Serving(t) /\ pc[t] \notin holding
    BY <1>1 DEF ServeInv, holding
  <2> QED
    BY <1>1, <2>1, StillServing
<1>3. Booting'
  <2>1. CASE Connect \/ BootReceive
    BY <2>1 DEF Connect, BootReceive, Booting, PoolInv, Types
  <2>2. CASE BootSend
    <3> DEFINE request == [kind |-> "read", sector |-> BootSector,
                           value |-> InitialVolume[BootSector], by |-> None]
    <3>1. 1 \in Sockets
      BY PoolAssumption DEF Sockets
    <3>2. toPPD' = [toPPD EXCEPT ![1] = <<request>>]
      BY <2>2 DEF BootSend
    <3>3. \A s \in Sockets : toPPD[s] = <<>>
      BY <2>2 DEF BootSend, PoolInv, Starting, DataInv, Quiet
    <3>4. toPPD \in [Sockets -> Seq(Requests)]
      BY DEF DataInv, DataTypes
    <3>5. \A s \in Sockets : toPPD'[s] = IF s = 1 THEN <<request>> ELSE <<>>
      BY <3>1, <3>2, <3>3, <3>4
    <3>6. request.by = None /\ request.kind = "read"
      OBVIOUS
    <3> HIDE DEF request
    <3> QED
      BY <3>5, <3>6 DEF Booting
  <2> QED
    BY <2>1, <2>2
<1> QED
  BY <1>1, <1>2, <1>3 DEF ServeInv

\* The steps of a thread that holds no connection.
LEMMA OutsideServes ==
    ASSUME PoolInv, DataInv, ServeInv, NEW t \in Threads,
           Begin(t) \/ SemWait(t) \/ Lock(t) \/ Scan(t) \/ SemPost(t) \/ Return(t)
    PROVE  ServeInv'
<1> USE DEF goto, mainVars, poolVars, peerVars
<1>1. /\ mainPC = "mounted" /\ mainPC' = "mounted"
      /\ UNCHANGED <<toPPD, fromPPD>>
  BY DEF Begin, SemWait, Lock, Scan, SemPost, Return
<1>2. pc[t] \notin holding /\ pc'[t] \notin holding
  BY DEF Begin, SemWait, Lock, Scan, SemPost, Return, PoolInv, Types, holding
<1>3. \A u \in Threads : u # t => /\ pc'[u] = pc[u] /\ ppd_socket'[u] = ppd_socket[u]
  BY DEF Begin, SemWait, Lock, Scan, SemPost, Return, PoolInv, Types
<1>4. \A u \in Threads : u # t => /\ call'[u] = call[u]
                                  /\ requests_sent'[u] = requests_sent[u]
                                  /\ responses'[u] = responses[u]
  BY DEF Begin, SemWait, Lock, Scan, SemPost, Return, DataInv, DataTypes
<1>5. found = [x \in Threads |-> found[x]]
  BY DEF ServeInv
<1>6. /\ found' = [x \in Threads |-> found'[x]]
      /\ \A u \in Threads : u # t => found'[u] = found[u]
  <2>1. found' = found \/ found' = [found EXCEPT ![t] = <<>>]
    BY DEF Begin, SemWait, Lock, Scan, SemPost, Return
  <2> QED
    BY <1>5, <2>1
<1>7. Serving(t)
  BY DEF ServeInv
<1>8. Serving(t)'
  <2>1. CASE Begin(t)
    <3>1. PICK c \in CallsOf[t] : call' = [call EXCEPT ![t] = c]
      BY <2>1 DEF Begin
    <3>2. call'[t] = c /\ c \in Calls /\ c # NoCall
      BY <3>1, PoolAssumption DEF Calls, DataInv, DataTypes
    <3>3. /\ pc[t] = "idle" /\ pc'[t] = "sem_wait" /\ responses'[t] = responses[t]
          /\ found'[t] = found[t] /\ found[t] = <<>>
      BY <1>7, <2>1 DEF Begin, PoolInv, Types, Serving
    <3> QED
      BY <1>2, <1>7, <3>2, <3>3 DEF Serving
  <2>2. CASE SemWait(t) \/ Lock(t) \/ Scan(t)
    <3>1. /\ pc[t] \in {"sem_wait", "lock", "scan"} /\ pc'[t] \in {"lock", "scan", "claim"}
          /\ UNCHANGED <<call, requests_sent, responses, found>>
      BY <2>2 DEF SemWait, Lock, Scan, PoolInv, Types
    <3> QED
      BY <1>2, <1>7, <3>1 DEF Serving
  <2>3. CASE SemPost(t)
    <3>1. /\ pc[t] = "sem_post" /\ pc'[t] = "return"
          /\ UNCHANGED <<call, requests_sent, responses, found>>
      BY <2>3 DEF SemPost, PoolInv, Types
    <3> QED
      BY <1>2, <1>7, <3>1 DEF Serving
  <2>4. CASE Return(t)
    <3>1. /\ pc'[t] = "idle" /\ call'[t] = NoCall /\ responses'[t] = <<>>
          /\ found'[t] = <<>>
      BY <1>5, <2>4 DEF Return, PoolInv, Types, DataInv, DataTypes
    <3> QED
      BY <1>2, <3>1 DEF Serving, Truthful, Distinct
  <2> QED
    BY <2>1, <2>2, <2>3, <2>4
<1> QED
  BY <1>1, <1>3, <1>4, <1>6, <1>8, ThreadServes

LEMMA ClaimServes ==
    ASSUME PoolInv, DataInv, ServeInv, NEW t \in Threads, Claim(t)
    PROVE  ServeInv'
<1> DEFINE place == loopAgain(call[t], 0)
           s == ppd_socket[t]
<1>1. /\ pc[t] = "claim" /\ mainPC = "mounted" /\ pc' = [pc EXCEPT ![t] = place]
      /\ UNCHANGED <<mainPC, call, ppd_socket, requests_sent, responses, toPPD, fromPPD, found>>
  BY DEF Claim, goto, mainVars, peerVars
<1>2. s \in Sockets /\ status[s] = "FREE"
  BY <1>1 DEF PoolInv, Searching
<1>3. toPPD[s] = <<>> /\ fromPPD[s] = <<>>
  BY <1>2 DEF DataInv, Quiet
<1>4. place \in holding
  BY DEF loopAgain, loopStart, holding
<1> HIDE DEF place
<1>5. pc'[t] = place /\ \A u \in Threads : u # t => pc'[u] = pc[u]
  BY <1>1 DEF PoolInv, Types
<1>6. Serving(t) /\ call[t] # NoCall /\ found[t] = <<>>
  BY <1>1 DEF ServeInv, Serving
<1>7. OnTheWay(t)'
  BY <1>1, <1>3 DEF OnTheWay, Distinct, Truthful, Apart
<1>8. Serving(t)'
  BY <1>1, <1>4, <1>5, <1>6, <1>7 DEF Serving, holding
<1>9. found = [x \in Threads |-> found[x]]
  BY DEF ServeInv
<1> QED
  BY <1>1, <1>5, <1>8, <1>9, ThreadServes

LEMMA SendServes ==
    ASSUME PoolInv, DataInv, ServeInv, NEW t \in Threads, Send(t)
    PROVE  ServeInv'
<1> DEFINE s == ppd_socket[t]
           n == requests_sent[t]
           place == afterSend(t)
           request == [kind |-> call[t].kind, sector |-> call[t].sectors[n + 1],
                       value |-> call[t].value, by |-> t]
<1>a. /\ pc[t] = "send" /\ mainPC = "mounted" /\ pc[t] \in holding
      /\ UNCHANGED <<call, ppd_socket, responses, fromPPD, found>>
      /\ mainPC' \in {"mounted", "exited"}
  BY DEF Send, poolVars, holding
<1>b. /\ s \in Sockets /\ call[t] \in Calls /\ n \in Nat
      /\ \A u \in Threads : u # t /\ pc[u] \in holding => ppd_socket[u] # s
  BY <1>a, Holding
<1>c. toPPD[s] \in Seq(Requests) /\ toPPD \in [Sockets -> Seq(Requests)]
  BY <1>b, CarriedType DEF DataInv, DataTypes
<1>d. n <= Len(call[t].sectors) /\ Len(call[t].sectors) \in Nat
      /\ call[t].sectors \in Seq(Sectors)
  BY <1>a, <1>b, CallTypes DEF DataInv, Balance
<1>e. place \in holding
  BY <1>b, CallTypes, Holding, After, <1>a DEF afterSend, holding
<1>f. Serving(t) /\ OnTheWay(t) /\ call[t] # NoCall
  BY <1>a DEF ServeInv, Serving, holding
<1>g. found = [x \in Threads |-> found[x]]
  BY DEF ServeInv
<1>h. /\ pc \in [Threads -> outside \cup inside] /\ requests_sent \in [Threads -> Nat]
  BY DEF PoolInv, Types, DataInv, DataTypes
<1>i. \/ pc' = [pc EXCEPT ![t] = place] /\ UNCHANGED <<requests_sent, toPPD>>
      \/ /\ n # Len(call[t].sectors)
         /\ toPPD' = toPPD \/ toPPD' = [toPPD EXCEPT ![s] = Append(@, request)]
         /\ requests_sent' = [requests_sent EXCEPT ![t] = n + 1]
         /\ pc' = [pc EXCEPT ![t] = place]
      \/ UNCHANGED <<pc, requests_sent, toPPD>>
  BY DEF Send, goto
<1>j. place \notin {"idle", "sem_wait", "lock", "scan", "claim", "sem_post", "return"}
  BY <1>e DEF holding
<1>k. pc[t] \notin {"idle", "sem_wait", "lock", "scan", "claim", "sem_post", "return"}
  BY <1>a
<1>l. \A x \in DOMAIN found[t] : \E k \in 1 .. n : x = call[t].sectors[k]
  BY <1>f DEF Serving
<1>m. Truthful(responses[t], found[t]) /\ Distinct(responses[t])
  BY <1>f DEF Serving
<1>n. /\ \A i \in DOMAIN toPPD[s] : Asked(toPPD[s][i], t, call[t], n, found[t])
      /\ Distinct(toPPD[s]) /\ Truthful(fromPPD[s], found[t])
      /\ Distinct(fromPPD[s]) /\ Apart(fromPPD[s], responses[t])
  BY <1>f DEF OnTheWay
<1>o. request.sector = call[t].sectors[n + 1] /\ request.by = t
      /\ request.kind = call[t].kind /\ request.value = call[t].value
  OBVIOUS
<1> HIDE DEF s, n, place, request
<1>1. CASE (pc' = [pc EXCEPT ![t] = place] \/ pc' = pc) /\ UNCHANGED <<requests_sent, toPPD>>
  <2>1. pc'[t] \in {place, pc[t]} /\ \A u \in Threads : u # t => pc'[u] = pc[u]
    BY <1>1, <1>h
  <2>3. OnTheWay(t)'
    BY <1>1, <1>a, <1>n DEF OnTheWay, s, n
  <2>4. Serving(t)'
    BY <1>1, <1>a, <1>f, <1>j, <1>k, <1>l, <1>m, <2>1, <2>3 DEF Serving, n
  <2> QED
    BY <1>1, <1>a, <1>g, <2>1, <2>4, ThreadServes
<1>2. CASE /\ n # Len(call[t].sectors)
           /\ toPPD' = toPPD \/ toPPD' = [toPPD EXCEPT ![s] = Append(@, request)]
           /\ requests_sent' = [requests_sent EXCEPT ![t] = n + 1]
           /\ pc' = [pc EXCEPT ![t] = place]
  <2>1. pc'[t] = place /\ \A u \in Threads : u # t => pc'[u] = pc[u]
    BY <1>2, <1>h
  <2>2. requests_sent'[t] = n + 1 /\ \A u \in Threads : u # t => requests_sent'[u] = requests_sent[u]
    BY <1>2, <1>h
  <2>3. n + 1 \in DOMAIN call[t].sectors /\ n + 1 \in 1 .. n + 1
        /\ \A k \in 1 .. n : k \in DOMAIN call[t].sectors /\ k # n + 1 /\ k \in 1 .. n + 1
    BY <1>2, <1>b, <1>d
  <2>4. \A k \in 1 .. n : call[t].sectors[k] # request.sector
    BY <1>b, <1>o, <2>3, NoSectorTwice
  <2>5. request.sector \notin DOMAIN found[t]
    BY <1>l, <2>4
  <2>6. \A r : Asked(r, t, call[t], n, found[t]) => Asked(r, t, call[t], n + 1, found[t])
    BY <2>3 DEF Asked
  <2>7. Asked(request, t, call[t], n + 1, found[t])
    BY <1>o, <2>3, <2>5 DEF Asked
  <2>8. \A u \in Threads : u # t /\ pc[u] \in holding => toPPD'[ppd_socket[u]] = toPPD[ppd_socket[u]]
    <3>1. \A u \in Threads : pc[u] \in holding => ppd_socket[u] \in Sockets
      BY Holding
    <3> QED
      BY <1>2, <1>b, <1>c, <3>1
  <2>9. (\A i \in DOMAIN toPPD'[s] : Asked(toPPD'[s][i], t, call[t], n + 1, found[t])) /\ Distinct(toPPD'[s])
    <3>1. CASE toPPD' = toPPD
      BY <3>1, <1>n, <2>6
    <3>2. CASE toPPD' = [toPPD EXCEPT ![s] = Append(@, request)]
      <4>1. toPPD'[s] = Append(toPPD[s], request)
        BY <3>2, <1>b, <1>c
      <4>2. request \in Requests
        <5>1. call[t].sectors[n + 1] \in Sectors
          BY <1>d, <2>3
        <5> QED
          BY <1>b, <5>1, CallTypes DEF request, Requests
      <4>3. \A i \in DOMAIN toPPD[s] : toPPD[s][i].sector # request.sector
        BY <1>n, <2>4 DEF Asked
      <4>4. Distinct(Append(toPPD[s], request))
        BY <1>c, <1>n, <4>2, <4>3, DistinctAppend
      <4>5. ASSUME NEW i \in DOMAIN Append(toPPD[s], request)
            PROVE  Asked(Append(toPPD[s], request)[i], t, call[t], n + 1, found[t])
        <5>1. \/ i \in DOMAIN toPPD[s] /\ Append(toPPD[s], request)[i] = toPPD[s][i]
              \/ Append(toPPD[s], request)[i] = request
          BY <1>c, <4>2, AppendElements
        <5> QED
          BY <1>n, <2>6, <2>7, <5>1
      <4> QED
        BY <4>1, <4>4, <4>5
    <3> QED
      BY <1>2, <3>1, <3>2
  <2>10. OnTheWay(t)'
    BY <1>a, <1>n, <2>2, <2>9 DEF OnTheWay, s
  <2>11. \A x \in DOMAIN found[t] : \E k \in 1 .. n + 1 : x = call[t].sectors[k]
    BY <1>l, <2>3
  <2>12. Serving(t)'
    BY <1>a, <1>f, <1>j, <1>m, <2>1, <2>2, <2>10, <2>11 DEF Serving
  <2> QED
    BY <1>a, <1>g, <2>1, <2>2, <2>8, <2>12, ThreadServes
<1> QED
  BY <1>i, <1>1, <1>2

\* An answer moves from the connection to the buffer.
LEMMA PollServes ==
    ASSUME PoolInv, DataInv, ServeInv, NEW t \in Threads, Poll(t)
    PROVE  ServeInv'
<1> DEFINE s == ppd_socket[t]
           place == IF call[t].kind = "write" THEN "send"
                    ELSE loopAgain(call[t], Len(responses'[t]))
<1>a. /\ pc[t] = "poll" /\ mainPC = "mounted" /\ pc[t] \in holding
      /\ UNCHANGED <<mainPC, call, ppd_socket, requests_sent, toPPD, found>>
      /\ pc' = [pc EXCEPT ![t] = place]
      /\ \/ fromPPD' = [fromPPD EXCEPT ![s] = @] /\ responses' = [responses EXCEPT ![t] = @]
         \/ fromPPD[s] # <<>> /\ fromPPD' = [fromPPD EXCEPT ![s] = Tail(@)]
              /\ responses' = [responses EXCEPT ![t] = Append(@, Head(fromPPD[s]))]
  BY DEF Poll, goto, mainVars, holding
<1>b. /\ s \in Sockets /\ call[t] \in Calls /\ responses[t] \in Seq(Answers)
      /\ \A u \in Threads : u # t /\ pc[u] \in holding => ppd_socket[u] # s
      /\ \A u \in Threads : pc[u] \in holding => ppd_socket[u] \in Sockets
  BY <1>a, Holding
<1>c. fromPPD[s] \in Seq(Answers)
  BY <1>b, CarriedType
<1>d. /\ pc \in [Threads -> outside \cup inside] /\ responses \in [Threads -> Seq(Answers)]
      /\ fromPPD \in [Sockets -> Seq(Answers)]
  BY DEF PoolInv, Types, DataInv, DataTypes
<1>e. place \in holding
  BY DEF loopAgain, loopStart, holding
<1>f. Serving(t) /\ OnTheWay(t) /\ call[t] # NoCall
  BY <1>a DEF ServeInv, Serving, holding
<1>g. found = [x \in Threads |-> found[x]]
  BY DEF ServeInv
<1>h. place \notin {"idle", "sem_wait", "lock", "scan", "claim", "sem_post", "return"}
  BY <1>e DEF holding
<1> HIDE DEF s, place
<1>1. pc'[t] = place /\ \A u \in Threads : u # t => pc'[u] = pc[u]
  BY <1>a, <1>d
<1>2. /\ \A u \in Threads : u # t => responses'[u] = responses[u]
      /\ \A x \in Sockets : x # s => fromPPD'[x] = fromPPD[x]
  BY <1>a, <1>d
<1>3. /\ Truthful(responses'[t], found[t]) /\ Distinct(responses'[t])
      /\ Truthful(fromPPD'[s], found[t]) /\ Distinct(fromPPD'[s])
      /\ Apart(fromPPD'[s], responses'[t])
  <2>0. /\ Truthful(responses[t], found[t]) /\ Distinct(responses[t])
        /\ Truthful(fromPPD[s], found[t]) /\ Distinct(fromPPD[s])
        /\ Apart(fromPPD[s], responses[t])
    BY <1>f DEF Serving, OnTheWay, s
  <2>1. CASE fromPPD' = [fromPPD EXCEPT ![s] = @] /\ responses' = [responses EXCEPT ![t] = @]
    <3>1. fromPPD' = fromPPD /\ responses' = responses
      BY <1>d, <2>1
    <3> QED
      BY <2>0, <3>1
  <2>2. CASE fromPPD[s] # <<>> /\ fromPPD' = [fromPPD EXCEPT ![s] = Tail(@)]
              /\ responses' = [responses EXCEPT ![t] = Append(@, Head(fromPPD[s]))]
    <3> DEFINE q == fromPPD[s]
               r == responses[t]
               e == Head(fromPPD[s])
    <3>1. fromPPD'[s] = Tail(q) /\ responses'[t] = Append(r, e)
      BY <1>b, <1>d, <2>2
    <3>2. /\ e = q[1] /\ 1 \in DOMAIN q /\ e \in Answers
          /\ \A k \in DOMAIN Tail(q) : k + 1 \in DOMAIN q /\ k + 1 # 1 /\ Tail(q)[k] = q[k + 1]
      BY <1>c, <2>2, TailElements
    <3> HIDE DEF q, r, e
    <3>3. /\ Truthful(q, found[t]) /\ Distinct(q) /\ Apart(q, r)
          /\ r \in Seq(Answers) /\ Truthful(r, found[t]) /\ Distinct(r)
      BY <1>b, <2>0 DEF q, r
    <3>4. /\ e.sector \in DOMAIN found[t] /\ e.value = found[t][e.sector]
          /\ \A i \in DOMAIN r : r[i].sector # e.sector
      BY <3>2, <3>3 DEF Truthful, Apart
    <3>5. Truthful(Append(r, e), found[t]) /\ Distinct(Append(r, e))
      BY <3>2, <3>3, <3>4, TruthfulAppend, DistinctAppend
    <3>6. Truthful(Tail(q), found[t])
      BY <3>2, <3>3 DEF Truthful
    <3>7. Distinct(Tail(q))
      <4> SUFFICES ASSUME NEW i \in DOMAIN Tail(q), NEW j \in DOMAIN Tail(q),
                          Tail(q)[i].sector = Tail(q)[j].sector
                   PROVE  i = j
        BY DEF Distinct
      <4>1. i + 1 = j + 1
        BY <3>2, <3>3 DEF Distinct
      <4>2. i \in Int /\ j \in Int
        <5>1. q \in Seq(Answers) /\ q # <<>>
          BY <1>c, <2>2 DEF q
        <5> QED
          BY <5>1, HeadTailProperties
      <4> QED
        BY <4>1, <4>2
    <3>8. Apart(Tail(q), Append(r, e))
      <4> SUFFICES ASSUME NEW i \in DOMAIN Tail(q), NEW j \in DOMAIN Append(r, e)
                   PROVE  Tail(q)[i].sector # Append(r, e)[j].sector
        BY DEF Apart
      <4>1. (j \in DOMAIN r /\ Append(r, e)[j] = r[j]) \/ Append(r, e)[j] = e
        BY <3>2, <3>3, AppendElements
      <4>2. i + 1 \in DOMAIN q /\ i + 1 # 1 /\ Tail(q)[i] = q[i + 1]
        BY <3>2
      <4>3. q[i + 1].sector # e.sector
        BY <3>2, <3>3, <4>2 DEF Distinct
      <4> QED
        BY <3>3, <4>1, <4>2, <4>3 DEF Apart
    <3> QED
      BY <3>1, <3>5, <3>6, <3>7, <3>8
  <2> QED
    BY <1>a, <2>1, <2>2
<1>4. OnTheWay(t)'
  <2>1. /\ \A i \in DOMAIN toPPD[s] : Asked(toPPD[s][i], t, call[t], requests_sent[t], found[t])
        /\ Distinct(toPPD[s])
    BY <1>f DEF OnTheWay, s
  <2> QED
    BY <1>a, <1>3, <2>1 DEF OnTheWay, s
<1>5. Serving(t)'
  BY <1>a, <1>f, <1>h, <1>1, <1>3, <1>4 DEF Serving
<1> QED
  BY <1>a, <1>b, <1>g, <1>1, <1>2, <1>5, ThreadServes

LEMMA FreeServes ==
    ASSUME PoolInv, DataInv, ServeInv, NEW t \in Threads, Free(t)
    PROVE  ServeInv'
<1>a. /\ pc[t] = "free" /\ mainPC = "mounted" /\ pc[t] \in holding
      /\ ppd_socket' = [ppd_socket EXCEPT ![t] = 0]
      /\ pc' = [pc EXCEPT ![t] = "sem_post"]
      /\ UNCHANGED <<mainPC, call, requests_sent, responses, toPPD, fromPPD, found>>
  BY DEF Free, goto, mainVars, peerVars, holding
<1>b. /\ ppd_socket[t] \in Sockets /\ call[t] \in Calls /\ requests_sent[t] \in Nat
      /\ responses[t] \in Seq(Answers) /\ Len(responses[t]) \in Nat
  BY <1>a, Holding
<1>c. /\ Len(toPPD[ppd_socket[t]]) \in Nat /\ Len(fromPPD[ppd_socket[t]]) \in Nat
  BY <1>b, CarriedType
<1>d. /\ requests_sent[t] <= Len(call[t].sectors) /\ Len(call[t].sectors) \in Nat
      /\ Len(toPPD[ppd_socket[t]]) + Len(fromPPD[ppd_socket[t]]) + Len(responses[t])
            <= requests_sent[t]
      /\ Len(responses[t]) >= Len(call[t].sectors)
      /\ call[t].sectors \in Seq(Sectors)
  BY <1>a, <1>b, CallTypes DEF DataInv, Balance, carried
<1>1. Len(responses[t]) = Len(call[t].sectors) /\ requests_sent[t] = Len(call[t].sectors)
  <2> DEFINE a == Len(toPPD[ppd_socket[t]])
             b == Len(fromPPD[ppd_socket[t]])
             c == Len(responses[t])
             m == requests_sent[t]
             n == Len(call[t].sectors)
  <2>1. /\ a \in Nat /\ b \in Nat /\ c \in Nat /\ m \in Nat /\ n \in Nat
        /\ a + b + c <= m /\ m <= n /\ c >= n
    BY <1>b, <1>c, <1>d
  <2> HIDE DEF a, b, c, m, n
  <2>2. c = n /\ m = n
    BY <2>1
  <2> QED
    BY <2>2 DEF c, m, n
<1>2. Serving(t) /\ call[t] # NoCall
  BY <1>a DEF ServeInv, Serving, holding
<1>3. \A i \in DOMAIN responses[t] :
         \E k \in DOMAIN call[t].sectors : responses[t][i].sector = call[t].sectors[k]
  <2>1. DOMAIN call[t].sectors = 1 .. requests_sent[t]
    BY <1>1, <1>d, LenProperties
  <2> QED
    BY <1>2, <2>1 DEF Serving, Truthful
<1>4. \A k \in DOMAIN call[t].sectors :
         \E i \in DOMAIN responses[t] : responses[t][i].sector = call[t].sectors[k]
  BY <1>b, <1>1, <1>2, <1>3, AllAnswered DEF Serving
<1>5. /\ pc'[t] = "sem_post"
      /\ \A u \in Threads : u # t => pc'[u] = pc[u] /\ ppd_socket'[u] = ppd_socket[u]
  BY <1>a DEF PoolInv, Types
<1>6. Serving(t)'
  BY <1>a, <1>2, <1>4, <1>5 DEF Serving, holding
<1>7. found = [x \in Threads |-> found[x]]
  BY DEF ServeInv
<1> QED
  BY <1>a, <1>5, <1>6, <1>7, ThreadServes

\* A request that the other end took off a connection.
LEMMA Took ==
    ASSUME DataInv, NEW s \in Sockets, NEW i \in DOMAIN toPPD[s], Distinct(toPPD[s])
    PROVE  LET rest == RemoveAt(toPPD[s], i)
           IN  /\ Distinct(rest)
               /\ \A k \in DOMAIN rest : \E j \in DOMAIN toPPD[s] :
                     rest[k] = toPPD[s][j] /\ rest[k].sector # toPPD[s][i].sector
<1> DEFINE q == toPPD[s]
           rest == RemoveAt(q, i)
           back(k) == IF k < i THEN k ELSE k + 1
<1>1. q \in Seq(Requests) /\ i \in DOMAIN q
  BY CarriedType
<1>2. \A k \in DOMAIN rest : back(k) \in DOMAIN q /\ back(k) # i /\ rest[k] = q[back(k)]
  BY <1>1, RemovedElements
<1>3. \A k \in DOMAIN rest : k \in Int
  <2>1. rest \in Seq(Requests)
    BY <1>1, RemoveOne
  <2> QED
    BY <2>1
<1>4. i \in Int
  BY <1>1
<1>5. \A k, j \in Int : back(k) = back(j) => k = j
  BY <1>4
<1> HIDE DEF q, rest, back
<1>6. Distinct(q)
  BY DEF q
<1>7. Distinct(rest)
  BY <1>2, <1>3, <1>5, <1>6 DEF Distinct
<1>8. \A k \in DOMAIN rest : \E j \in DOMAIN q : rest[k] = q[j] /\ rest[k].sector # q[i].sector
  BY <1>1, <1>2, <1>6 DEF Distinct
<1> QED
  BY <1>7, <1>8 DEF q, rest

\* The request of a call is performed: what it met is what its answer says.
LEMMA ServeServes ==
    ASSUME PoolInv, DataInv, ServeInv, NEW t \in Threads, NEW s \in Sockets, holds(t, s),
           mainPC = "mounted", NEW i \in DOMAIN toPPD[s], NEW v,
           UNCHANGED <<mainVars, poolVars, threadVars>>,
           toPPD' = [toPPD EXCEPT ![s] = RemoveAt(@, i)],
           fromPPD' = [fromPPD EXCEPT ![s] =
                         Append(@, [sector |-> toPPD[s][i].sector, value |-> v])],
           found' = [found EXCEPT ![t] =
                       [x \in DOMAIN @ \cup {toPPD[s][i].sector} |->
                           IF x = toPPD[s][i].sector THEN v ELSE @[x]]],
           [sector |-> toPPD[s][i].sector, value |-> v] \in Answers
    PROVE  ServeInv'
<1> DEFINE r == toPPD[s][i]
           e == [sector |-> toPPD[s][i].sector, value |-> v]
           met == found[t]
           now == [x \in DOMAIN met \cup {r.sector} |-> IF x = r.sector THEN v ELSE met[x]]
           rest == RemoveAt(toPPD[s], i)
<1>a. pc[t] \in holding /\ ppd_socket[t] = s
  BY DEF holds
<1>b. /\ \A u \in Threads : u # t /\ pc[u] \in holding => ppd_socket[u] # s
      /\ \A u \in Threads : pc[u] \in holding => ppd_socket[u] \in Sockets
  BY <1>a, Holding
<1>c. Serving(t) /\ OnTheWay(t)
  BY <1>a DEF ServeInv, Serving
<1>d. /\ \A j \in DOMAIN toPPD[s] : Asked(toPPD[s][j], t, call[t], requests_sent[t], met)
      /\ Distinct(toPPD[s]) /\ Truthful(fromPPD[s], met)
      /\ Distinct(fromPPD[s]) /\ Apart(fromPPD[s], responses[t])
  BY <1>a, <1>c DEF OnTheWay
<1>e. Truthful(responses[t], met) /\ Distinct(responses[t])
  BY <1>c DEF Serving
<1>f. /\ toPPD \in [Sockets -> Seq(Requests)] /\ fromPPD \in [Sockets -> Seq(Answers)]
      /\ found = [x \in Threads |-> found[x]]
  BY DEF DataInv, DataTypes, ServeInv
<1>g. /\ toPPD'[s] = rest /\ fromPPD'[s] = Append(fromPPD[s], e) /\ found'[t] = now
      /\ \A x \in Sockets : x # s => toPPD'[x] = toPPD[x] /\ fromPPD'[x] = fromPPD[x]
      /\ \A u \in Threads : u # t => found'[u] = found[u]
      /\ found' = [x \in Threads |-> found'[x]]
  <2>1. found'[t] = now /\ (\A u \in Threads : u # t => found'[u] = found[u])
        /\ found' = [x \in Threads |-> found'[x]]
    BY <1>f
  <2>2. toPPD'[s] = rest /\ fromPPD'[s] = Append(fromPPD[s], e)
        /\ \A x \in Sockets : x # s => toPPD'[x] = toPPD[x] /\ fromPPD'[x] = fromPPD[x]
    BY <1>f
  <2> QED
    BY <2>1, <2>2, Zenon
<1>h. /\ Distinct(rest)
      /\ \A k \in DOMAIN rest : \E j \in DOMAIN toPPD[s] :
            rest[k] = toPPD[s][j] /\ rest[k].sector # r.sector
  BY <1>d, Took
<1>i. e.sector = r.sector /\ e.value = v /\ e \in Answers /\ fromPPD[s] \in Seq(Answers)
  BY <1>f
<1>j. UNCHANGED <<mainPC, pc, call, ppd_socket, requests_sent, responses>>
  BY DEF mainVars, threadVars
<1>k. Asked(r, t, call[t], requests_sent[t], met)
  BY <1>d
<1>l. /\ DOMAIN now = DOMAIN met \cup {r.sector} /\ now[r.sector] = v
      /\ \A x \in DOMAIN met : x # r.sector => now[x] = met[x]
  OBVIOUS
<1> HIDE DEF r, e, met, now, rest
<1>1. r.sector \notin DOMAIN met
  BY <1>k DEF Asked
<1>2. ASSUME NEW q, Truthful(q, met)
      PROVE  Truthful(q, now) /\ \A j \in DOMAIN q : q[j].sector # e.sector
  BY <1>1, <1>2, <1>i, <1>l DEF Truthful
<1>3. \A k \in DOMAIN rest : Asked(rest[k], t, call[t], requests_sent[t], now)
  BY <1>d, <1>h, <1>l DEF Asked
<1>4. Truthful(Append(fromPPD[s], e), now) /\ Distinct(Append(fromPPD[s], e))
  <2>1. Truthful(fromPPD[s], now) /\ \A j \in DOMAIN fromPPD[s] : fromPPD[s][j].sector # e.sector
    BY <1>2, <1>d
  <2>2. e.sector \in DOMAIN now /\ e.value = now[e.sector]
    BY <1>i, <1>l
  <2> QED
    BY <1>d, <1>i, <2>1, <2>2, TruthfulAppend, DistinctAppend
<1>5. Truthful(responses[t], now) /\ \A j \in DOMAIN responses[t] : responses[t][j].sector # e.sector
  BY <1>2, <1>e
<1>6. Apart(Append(fromPPD[s], e), responses[t])
  <2> SUFFICES ASSUME NEW k \in DOMAIN Append(fromPPD[s], e), NEW j \in DOMAIN responses[t]
               PROVE  Append(fromPPD[s], e)[k].sector # responses[t][j].sector
    BY DEF Apart
  <2>1. \/ k \in DOMAIN fromPPD[s] /\ Append(fromPPD[s], e)[k] = fromPPD[s][k]
        \/ Append(fromPPD[s], e)[k] = e
    BY <1>i, AppendElements
  <2> QED
    BY <1>d, <1>5, <2>1 DEF Apart
<1>7. OnTheWay(t)'
  BY <1>a, <1>g, <1>h, <1>j, <1>3, <1>4, <1>6 DEF OnTheWay
<1>8. \A x \in DOMAIN now : \E k \in 1 .. requests_sent[t] : x = call[t].sectors[k]
  <2>1. \A x \in DOMAIN met : \E k \in 1 .. requests_sent[t] : x = call[t].sectors[k]
    BY <1>c DEF Serving, met
  <2> QED
    BY <1>k, <1>l, <2>1 DEF Asked
<1>9. Serving(t)'
  <2>1. pc[t] \notin {"idle", "sem_wait", "lock", "scan", "claim", "sem_post", "return"}
    BY <1>a DEF holding
  <2>2. call[t] # NoCall
    BY <1>c, <2>1 DEF Serving
  <2>3. /\ pc'[t] = pc[t] /\ call'[t] = call[t] /\ requests_sent'[t] = requests_sent[t]
        /\ responses'[t] = responses[t] /\ found'[t] = now
    BY <1>g, <1>j
  <2>4. Truthful(responses'[t], found'[t]) /\ Distinct(responses'[t])
    BY <1>e, <1>5, <2>3
  <2>5. \A x \in DOMAIN found'[t] :
           \E k \in 1 .. requests_sent'[t] : x = call'[t].sectors[k]
    BY <1>8, <2>3
  <2>6. /\ pc'[t] = "idle" <=> call'[t] = NoCall
        /\ pc'[t] \notin {"idle", "sem_wait", "lock", "scan", "claim", "sem_post", "return"}
    BY <2>1, <2>2, <2>3
  <2> QED
    BY <1>7, <2>4, <2>5, <2>6 DEF Serving
<1>10. mainPC' # "bootRecv"
  BY <1>j
<1> QED
  BY <1>b, <1>g, <1>j, <1>9, <1>10, ThreadServes

\* A connection that carries a request is held, or carries main's.
LEMMA ServeStep ==
    ASSUME PoolInv, DataInv, ServeInv, NEW s \in Sockets, Serve(s)
    PROVE  ServeInv'
<1>0. PICK i \in DOMAIN toPPD[s] :
        LET r == toPPD[s][i]
            value == IF r.kind = "read" THEN volume[r.sector] ELSE r.value
        IN  /\ toPPD' = [toPPD EXCEPT ![s] = RemoveAt(@, i)]
            /\ fromPPD' = [fromPPD EXCEPT ![s] =
                             Append(@, [sector |-> r.sector, value |-> value])]
            /\ found' = IF r.by = None THEN found
                        ELSE [found EXCEPT ![r.by] =
                                [x \in DOMAIN @ \cup {r.sector} |->
                                    IF x = r.sector THEN value ELSE @[x]]]
  BY DEF Serve
<1> DEFINE r == toPPD[s][i]
           v == IF r.kind = "read" THEN volume[r.sector] ELSE r.value
<1>a. /\ toPPD' = [toPPD EXCEPT ![s] = RemoveAt(@, i)]
      /\ fromPPD' = [fromPPD EXCEPT ![s] = Append(@, [sector |-> r.sector, value |-> v])]
      /\ found' = IF r.by = None THEN found
                  ELSE [found EXCEPT ![r.by] =
                          [x \in DOMAIN @ \cup {r.sector} |-> IF x = r.sector THEN v ELSE @[x]]]
  BY <1>0
<1>b. UNCHANGED <<mainVars, poolVars, threadVars>> /\ mainPC # "exited"
  BY DEF Serve
<1>c. /\ toPPD[s] \in Seq(Requests) /\ toPPD \in [Sockets -> Seq(Requests)]
      /\ volume \in [Sectors -> Values]
  BY CarriedType DEF DataInv, DataTypes
<1>d. r \in Requests
  BY <1>c
<1>e. [sector |-> r.sector, value |-> v] \in Answers
  BY <1>c, <1>d DEF Requests, Answers
<1>f. status[s] = "NOTFREE"
  <2>1. toPPD[s] # <<>>
    BY <1>c, EmptySeq
  <2> QED
    BY <2>1 DEF DataInv, Quiet
<1>g. mainPC \in {"bootRecv", "mounted"}
  BY <1>b, <1>f DEF PoolInv, Types, Starting, DataInv, Quiet
<1>1. CASE mainPC = "mounted"
  <2>1. PICK t \in Threads : holds(t, s)
    BY <1>1, <1>f DEF PoolInv, Counting
  <2>2. Asked(r, t, call[t], requests_sent[t], found[t])
    BY <2>1 DEF ServeInv, Serving, OnTheWay, holds
  <2>3. r.by = t /\ r.by # None
    BY <2>2, PoolAssumption DEF Asked
  <2>4. found' = [found EXCEPT ![t] =
                    [x \in DOMAIN @ \cup {r.sector} |-> IF x = r.sector THEN v ELSE @[x]]]
    BY <1>a, <2>3
  <2> HIDE DEF v
  <2> QED
    BY <1>1, <1>a, <1>b, <1>e, <2>1, <2>4, ServeServes
<1>2. CASE mainPC = "bootRecv"
  <2>1. r.by = None
    BY <1>2 DEF ServeInv, Booting
  <2>2. found' = found
    BY <1>a, <2>1
  <2>3. ASSUME NEW t \in Threads PROVE Serving(t)'
    <3>1. Serving(t) /\ pc[t] \notin holding
      BY <1>2 DEF ServeInv, PoolInv, Starting, holding
    <3> QED
      BY <1>b, <2>2, <3>1, StillServing DEF threadVars
  <2>4. Booting'
    <3>1. ASSUME NEW k \in DOMAIN RemoveAt(toPPD[s], i)
          PROVE  /\ RemoveAt(toPPD[s], i)[k].by = None
                 /\ RemoveAt(toPPD[s], i)[k].kind = "read"
      BY <1>2, <1>c, RemovedElements DEF ServeInv, Booting
    <3>2. /\ toPPD'[s] = RemoveAt(toPPD[s], i)
          /\ \A x \in Sockets : x # s => toPPD'[x] = toPPD[x]
      BY <1>a, <1>c
    <3> QED
      BY <1>2, <3>1, <3>2 DEF ServeInv, Booting
  <2> QED
    BY <2>2, <2>3, <2>4 DEF ServeInv
<1> QED
  BY <1>g, <1>1, <1>2

LEMMA StillServe ==
    ASSUME ServeInv, UNCHANGED <<mainVars, threadVars, toPPD, fromPPD, found>>
    PROVE  ServeInv'
<1>1. ASSUME NEW t \in Threads PROVE Serving(t)'
  <2>1. Serving(t)
    BY DEF ServeInv
  <2> QED
    BY <2>1, StillServing DEF threadVars
<1> QED
  BY <1>1 DEF ServeInv, Booting, mainVars

LEMMA NextServe == PoolInv /\ DataInv /\ ServeInv /\ [Next]_vars => ServeInv'
<1> SUFFICES ASSUME PoolInv, DataInv, ServeInv, [Next]_vars PROVE ServeInv'
  OBVIOUS
<1>2. CASE Connect \/ BootSend \/ BootReceive
  BY <1>2, MainServe
<1>3. ASSUME NEW t \in Threads,
             Begin(t) \/ SemWait(t) \/ Lock(t) \/ Scan(t) \/ SemPost(t) \/ Return(t)
      PROVE  ServeInv'
  BY <1>3, OutsideServes
<1>4. ASSUME NEW t \in Threads, Claim(t) \/ Send(t) \/ Poll(t) \/ Free(t)
      PROVE  ServeInv'
  BY <1>4, ClaimServes, SendServes, PollServes, FreeServes
<1>5. ASSUME NEW s \in Sockets, Serve(s)
      PROVE  ServeInv'
  BY <1>5, ServeStep
<1>6. ASSUME NEW s \in Sockets, Lose(s)
      PROVE  ServeInv'
  BY <1>6, StillServe DEF Lose
<1>7. CASE UNCHANGED vars
  BY <1>7, StillServe DEF vars, peerVars
<1> QED
  BY <1>2, <1>3, <1>4, <1>5, <1>6, <1>7 DEF Next, OwnStep

THEOREM ServeInvariant == Spec => [](PoolInv /\ DataInv /\ ServeInv)
<1>1. Init => PoolInv /\ DataInv /\ ServeInv
  BY InitInv, InitData, InitServe
<1>2. PoolInv /\ DataInv /\ ServeInv /\ [Next]_vars => PoolInv' /\ DataInv' /\ ServeInv'
  BY NextInv, NextData, NextServe
<1> QED
  BY <1>1, <1>2, PTL DEF Spec

-----------------------------------------------------------------------------
(* The calls implement SectorCalls.                                          *)

\* What is still to be performed of each call, and what its reads found.
Todo == [t \in Threads |-> IF call[t] = NoCall THEN {}
                           ELSE Listed(call[t].sectors) \ DOMAIN found[t]]
Got  == [t \in Threads |-> IF call[t] # NoCall /\ call[t].kind = "read" THEN found[t]
                           ELSE <<>>]

LEMMA InitCalls == Init => Abstract!Init
<1> SUFFICES ASSUME Init PROVE Abstract!Init
  OBVIOUS
<1>1. Todo = [t \in Threads |-> {}] /\ Got = [t \in Threads |-> <<>>]
  BY DEF Init, Todo, Got
<1> QED
  BY <1>1 DEF Init, Abstract!Init, Todo, Got

\* What changes neither the volume nor a call nor what it found is a stutter.
LEMMA StutterCalls ==
    ASSUME UNCHANGED <<volume, call, found, result>>
    PROVE  UNCHANGED Abstract!vars
  BY DEF Abstract!vars

LEMMA BeginCalls ==
    ASSUME PoolInv, DataInv, ServeInv, NEW t \in Threads, Begin(t)
    PROVE  Abstract!Begin(t)
<1>1. PICK c \in CallsOf[t] : call' = [call EXCEPT ![t] = c]
  BY DEF Begin
<1>2. /\ c \in Calls /\ c # NoCall /\ UNCHANGED <<volume, found>>
      /\ result' = [result EXCEPT ![t] = <<>>]
  BY PoolAssumption DEF Begin, Calls, peerVars
<1>3. call[t] = NoCall /\ found[t] = <<>>
  BY DEF ServeInv, Serving, Begin
<1>4. call \in [Threads -> Calls \cup {NoCall}]
  BY DEF DataInv, DataTypes
<1>5. call'[t] = c /\ \A u \in Threads : u # t => call'[u] = call[u]
  BY <1>1, <1>4
<1>6. Todo' = [Todo EXCEPT ![t] = Listed(c.sectors)]
  <2>1. DOMAIN found[t] = {}
    BY <1>3
  <2> QED
    BY <1>2, <1>5, <2>1 DEF Todo
<1>7. Got' = Got
  BY <1>2, <1>3, <1>5 DEF Got
<1>8. Abstract!Listed(c.sectors) = Listed(c.sectors)
  BY DEF Listed, Abstract!Listed
<1> QED
  BY <1>1, <1>2, <1>3, <1>6, <1>7, <1>8 DEF Abstract!Begin, Todo, Got

LEMMA ReturnCalls ==
    ASSUME PoolInv, DataInv, ServeInv, NEW t \in Threads, Return(t)
    PROVE  Abstract!Return(t)
<1> DEFINE sectors == call[t].sectors
           q == responses[t]
<1>1. /\ pc[t] = "return" /\ UNCHANGED volume
      /\ result' = [result EXCEPT ![t] = IF call[t].kind = "read"
                                         THEN reconstruct(q, sectors) ELSE <<>>]
      /\ call' = [call EXCEPT ![t] = NoCall] /\ found' = [found EXCEPT ![t] = <<>>]
  BY DEF Return
<1>2. /\ call[t] # NoCall /\ Truthful(q, found[t]) /\ Distinct(q)
      /\ \A k \in DOMAIN sectors : \E i \in DOMAIN q : q[i].sector = sectors[k]
  BY <1>1 DEF ServeInv, Serving
<1>3. /\ call \in [Threads -> Calls \cup {NoCall}] /\ q \in Seq(Answers)
      /\ found = [x \in Threads |-> found[x]]
  BY DEF DataInv, DataTypes, ServeInv
<1>4. /\ call'[t] = NoCall /\ \A u \in Threads : u # t => call'[u] = call[u]
      /\ found'[t] = <<>> /\ \A u \in Threads : u # t => found'[u] = found[u]
  BY <1>1, <1>3
<1> HIDE DEF sectors, q
<1>5. \A k \in DOMAIN sectors : sectors[k] \in DOMAIN found[t]
  BY <1>2 DEF Truthful
<1>6. Todo[t] = {}
  BY <1>2, <1>5 DEF Todo, Listed, sectors
<1>7. Todo' = Todo
  BY <1>4, <1>6 DEF Todo
<1>8. Got' = [Got EXCEPT ![t] = <<>>]
  BY <1>4 DEF Got
<1>9. reconstruct(q, sectors) = [i \in DOMAIN sectors |-> found[t][sectors[i]]]
  <2>1. ASSUME NEW i \in DOMAIN sectors
        PROVE  reconstruct(q, sectors)[i] = found[t][sectors[i]]
    <3> DEFINE naming == {k \in DOMAIN q : q[k].sector = sectors[i]}
    <3>1. PICK k \in DOMAIN q : q[k].sector = sectors[i]
      BY <1>2
    <3>2. naming = {k}
      BY <1>2, <3>1 DEF Distinct
    <3>3. k \in Int
      BY <1>3
    <3>4. (CHOOSE m \in naming : \A j \in naming : j <= m) = k
      BY <3>2, <3>3
    <3>5. q[k].value = found[t][sectors[i]]
      BY <1>2, <3>1 DEF Truthful
    <3>6. reconstruct(q, sectors)[i] =
            IF naming = {} THEN None
            ELSE q[CHOOSE m \in naming : \A j \in naming : j <= m].value
      BY DEF reconstruct
    <3> HIDE DEF naming
    <3> QED
      BY <3>2, <3>4, <3>5, <3>6
  <2> QED
    BY <2>1 DEF reconstruct
<1>10. call[t].kind = "read" => Got[t] = found[t]
  BY <1>2 DEF Got
<1>11. result' = [result EXCEPT ![t] = IF call[t].kind = "read"
                                       THEN [i \in DOMAIN sectors |-> Got[t][sectors[i]]]
                                       ELSE <<>>]
  <2>1. CASE call[t].kind = "read"
    BY <1>1, <1>9, <1>10, <2>1
  <2>2. CASE call[t].kind # "read"
    BY <1>1, <2>2
  <2> QED
    BY <2>1, <2>2
<1> QED
  BY <1>1, <1>2, <1>6, <1>7, <1>8, <1>11 DEF Abstract!Return, Todo, Got, sectors

LEMMA PerformCalls ==
    ASSUME PoolInv, DataInv, ServeInv, NEW s \in Sockets, Serve(s)
    PROVE  \/ \E t \in Threads : Abstract!Perform(t)
           \/ UNCHANGED Abstract!vars
<1>0. PICK i \in DOMAIN toPPD[s] :
        LET r == toPPD[s][i]
            value == IF r.kind = "read" THEN volume[r.sector] ELSE r.value
        IN  /\ volume' = [volume EXCEPT ![r.sector] = value]
            /\ found' = IF r.by = None THEN found
                        ELSE [found EXCEPT ![r.by] =
                                [x \in DOMAIN @ \cup {r.sector} |->
                                    IF x = r.sector THEN value ELSE @[x]]]
  BY DEF Serve
<1> DEFINE r == toPPD[s][i]
           v == IF r.kind = "read" THEN volume[r.sector] ELSE r.value
<1>a. /\ volume' = [volume EXCEPT ![r.sector] = v]
      /\ found' = IF r.by = None THEN found
                  ELSE [found EXCEPT ![r.by] =
                          [x \in DOMAIN @ \cup {r.sector} |-> IF x = r.sector THEN v ELSE @[x]]]
  BY <1>0
<1>b. UNCHANGED <<call, result>> /\ mainPC # "exited"
  BY DEF Serve, threadVars
<1>c. /\ toPPD[s] \in Seq(Requests) /\ volume \in [Sectors -> Values]
      /\ call \in [Threads -> Calls \cup {NoCall}]
      /\ found = [x \in Threads |-> found[x]]
  BY CarriedType DEF DataInv, DataTypes, ServeInv
<1>d. r \in Requests
  BY <1>c
<1>e. r.kind = "read" => volume' = volume
  BY <1>a, <1>c
<1>f. status[s] = "NOTFREE"
  <2>1. toPPD[s] # <<>>
    BY <1>c, EmptySeq
  <2> QED
    BY <2>1 DEF DataInv, Quiet
<1>g. mainPC \in {"bootRecv", "mounted"}
  BY <1>b, <1>f DEF PoolInv, Types, Starting, DataInv, Quiet
<1>1. CASE mainPC = "mounted"
  <2>1. PICK t \in Threads : holds(t, s)
    BY <1>1, <1>f DEF PoolInv, Counting
  <2>2. Asked(r, t, call[t], requests_sent[t], found[t]) /\ call[t] # NoCall
    BY <2>1 DEF ServeInv, Serving, OnTheWay, holds, holding
  <2>3. r.by = t /\ r.by # None /\ r.kind = call[t].kind /\ r.value = call[t].value
    BY <2>2, PoolAssumption DEF Asked
  <2>4. call[t] \in Calls
    BY <1>c, <2>2
  <2>5. r.sector \in Listed(call[t].sectors) \ DOMAIN found[t]
    <3>1. requests_sent[t] <= Len(call[t].sectors) /\ requests_sent[t] \in Nat
          /\ Len(call[t].sectors) \in Nat /\ call[t].sectors \in Seq(Sectors)
      BY <2>1, <2>4, CallTypes DEF holds, DataInv, DataTypes, Balance
    <3>2. 1 .. requests_sent[t] \subseteq DOMAIN call[t].sectors
      BY <3>1
    <3> QED
      BY <2>2, <3>2 DEF Asked, Listed
  <2>6. found' = [found EXCEPT ![t] =
                    [x \in DOMAIN @ \cup {r.sector} |-> IF x = r.sector THEN v ELSE @[x]]]
    BY <1>a, <2>3
  <2>7. /\ found'[t] = [x \in DOMAIN found[t] \cup {r.sector} |->
                          IF x = r.sector THEN v ELSE found[t][x]]
        /\ \A u \in Threads : u # t => found'[u] = found[u]
    BY <1>c, <2>6
  <2>v. r.kind = "read" => v = volume[r.sector]
    OBVIOUS
  <2>w. r.kind # "read" => v = r.value
    OBVIOUS
  <2> HIDE DEF r, v
  <2>8. Todo' = [Todo EXCEPT ![t] = @ \ {r.sector}]
    <3>1. DOMAIN found'[t] = DOMAIN found[t] \cup {r.sector}
      BY <2>7
    <3>2. Todo'[t] = Todo[t] \ {r.sector}
      BY <1>b, <2>2, <3>1 DEF Todo
    <3>3. \A u \in Threads : u # t => Todo'[u] = Todo[u]
      BY <1>b, <2>7 DEF Todo
    <3> QED
      BY <3>2, <3>3 DEF Todo
  <2>9. r.sector \in Todo[t]
    BY <2>2, <2>5 DEF Todo
  <2>10. CASE call[t].kind = "read"
    <3>1. Got[t] = found[t] /\ Got'[t] = found'[t]
      BY <1>b, <2>2, <2>10 DEF Got
    <3>2. \A u \in Threads : u # t => Got'[u] = Got[u]
      BY <1>b, <2>7 DEF Got
    <3>3. Got' = [Got EXCEPT ![t] = [x \in DOMAIN @ \cup {r.sector} |->
                                        IF x = r.sector THEN volume[r.sector] ELSE @[x]]]
      <4> DEFINE e == [x \in DOMAIN Got[t] \cup {r.sector} |->
                          IF x = r.sector THEN volume[r.sector] ELSE Got[t][x]]
      <4>1. Got'[t] = e
        BY <2>3, <2>7, <2>10, <2>v, <3>1
      <4>2. Got = [u \in Threads |-> Got[u]] /\ Got' = [u \in Threads |-> Got'[u]]
        BY DEF Got
      <4>3. Got' = [Got EXCEPT ![t] = e]
        <5> HIDE DEF e
        <5> QED
          BY <3>2, <4>1, <4>2
      <4> QED
        BY <4>3
    <3>4. UNCHANGED <<volume, call, result>>
      BY <1>b, <1>e, <2>3, <2>10
    <3>5. Abstract!Perform(t)
      BY <2>2, <2>8, <2>9, <2>10, <3>3, <3>4 DEF Abstract!Perform, Todo, Got
    <3> QED
      BY <3>5
  <2>11. CASE call[t].kind # "read"
    <3>1. Got' = Got
      BY <1>b, <2>7, <2>11 DEF Got
    <3>2. volume' = [volume EXCEPT ![r.sector] = call[t].value]
      BY <1>a, <2>3, <2>11, <2>w
    <3>3. Abstract!Perform(t)
      BY <1>b, <2>2, <2>8, <2>9, <2>11, <3>1, <3>2 DEF Abstract!Perform, Todo, Got
    <3> QED
      BY <3>3
  <2> QED
    BY <2>10, <2>11
<1>2. CASE mainPC = "bootRecv"
  <2>1. r.by = None /\ r.kind = "read"
    BY <1>2 DEF ServeInv, Booting
  <2>2. found' = found /\ volume' = volume
    BY <1>a, <1>e, <2>1
  <2> QED
    BY <1>b, <2>2, StutterCalls
<1> QED
  BY <1>g, <1>1, <1>2

LEMMA StepCalls ==
    PoolInv /\ DataInv /\ ServeInv /\ [Next]_vars => [Abstract!Next]_(Abstract!vars)
<1> SUFFICES ASSUME PoolInv, DataInv, ServeInv, [Next]_vars
             PROVE  Abstract!Next \/ UNCHANGED Abstract!vars
  OBVIOUS
<1>1. CASE Connect \/ BootSend \/ BootReceive
  BY <1>1, StutterCalls DEF Connect, BootSend, BootReceive, threadVars, peerVars
<1>2. ASSUME NEW t \in Threads, Begin(t)
      PROVE  Abstract!Next
  BY <1>2, BeginCalls DEF Abstract!Next
<1>3. ASSUME NEW t \in Threads, Return(t)
      PROVE  Abstract!Next
  BY <1>3, ReturnCalls DEF Abstract!Next
<1>4. ASSUME NEW t \in Threads, SemWait(t) \/ Lock(t) \/ Scan(t) \/ Claim(t) \/ Send(t)
                                \/ Poll(t) \/ Free(t) \/ SemPost(t)
      PROVE  UNCHANGED Abstract!vars
  BY <1>4, StutterCalls DEF SemWait, Lock, Scan, Claim, Send, Poll, Free, SemPost, peerVars
<1>5. ASSUME NEW s \in Sockets, Serve(s)
      PROVE  Abstract!Next \/ UNCHANGED Abstract!vars
  BY <1>5, PerformCalls DEF Abstract!Next
<1>6. ASSUME NEW s \in Sockets, Lose(s)
      PROVE  UNCHANGED Abstract!vars
  BY <1>6, StutterCalls DEF Lose, threadVars
<1>7. CASE UNCHANGED vars
  BY <1>7, StutterCalls DEF vars, threadVars, peerVars
<1> QED
  BY <1>1, <1>2, <1>3, <1>4, <1>5, <1>6, <1>7 DEF Next, OwnStep

\* ppd_read_sectors and ppd_write_sectors do what their callers expect, for any
\* number of threads and connections, whatever order the answers come in and
\* whichever connections break: a call performs each of its sectors once before
\* it returns, and a read returns what each sector held, in the caller's order.
THEOREM CallsRefine == Spec => ServesCalls
<1>1. PoolInv /\ DataInv /\ ServeInv /\ [Next]_vars => [Abstract!Next]_(Abstract!vars)
  BY StepCalls
<1> QED
  BY InitCalls, ServeInvariant, <1>1, PTL DEF Spec, ServesCalls, Abstract!Spec
=============================================================================
