---------------------------- MODULE DiskService -----------------------------
(***************************************************************************)
(* What a PPD promises its clients, without queues, semaphores, heads or   *)
(* threads: every accepted request is performed once, in any order that    *)
(* never takes a request past an earlier write of the same sector, and     *)
(* answered once, with the content the sector had when it was performed.   *)
(* A later write may pass an earlier read: TAKER_near prefers writes.      *)
(***************************************************************************)
EXTENDS Sequences, Naturals

CONSTANTS
    Requests,     \* what clients ask: records with id, type, sector, data
    Sectors,      \* the sectors of the disk
    InitialDisk   \* its contents when the process starts

VARIABLES
    pending,   \* accepted requests, in the order of arrival
    disk,      \* [Sectors -> contents]
    answers    \* answers on their way to the clients

vars == <<pending, disk, answers>>

Init ==
    /\ pending = <<>>
    /\ disk = InitialDisk
    /\ answers = {}

Accept(r) ==
    /\ pending' = Append(pending, r)
    /\ UNCHANGED <<disk, answers>>

\* No earlier write of the sector is still waiting.
mayPass(i) ==
    \A j \in 1 .. i - 1 :
        ~ (pending[j].type = "WRITE_SECTORS" /\ pending[j].sector = pending[i].sector)

\* A read is answered with the content, anything else with what it brought.
answerTo(r) ==
    [r EXCEPT !.data = IF r.type = "READ_SECTORS" THEN disk[r.sector] ELSE r.data]

Perform(i) ==
    /\ mayPass(i)
    /\ pending' = [j \in 1 .. Len(pending) - 1 |->
                      IF j < i THEN pending[j] ELSE pending[j + 1]]
    /\ LET r == pending[i] IN
          /\ disk' = IF r.type = "WRITE_SECTORS"
                     THEN [disk EXCEPT ![r.sector] = r.data] ELSE disk
          /\ answers' = answers \cup {answerTo(r)}

Deliver(a) ==
    /\ answers' = answers \ {a}
    /\ UNCHANGED <<pending, disk>>

Next ==
    \/ \E r \in Requests : Accept(r)
    \/ \E i \in DOMAIN pending : Perform(i)
    \/ \E a \in answers : Deliver(a)

Spec == Init /\ [][Next]_vars
=============================================================================
