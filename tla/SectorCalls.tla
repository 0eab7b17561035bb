---------------------------- MODULE SectorCalls -----------------------------
(***************************************************************************)
(* What the threads of PFS expect of ppd_read_sectors and                  *)
(* ppd_write_sectors (PFS/src/pfs_comm.c), whatever sockets carry them: a  *)
(* call performs each of its sectors once, at some moment before it        *)
(* returns and in any order, and a read returns what each sector held at   *)
(* that moment, in the order in which the caller listed them.              *)
(***************************************************************************)
EXTENDS Integers, Sequences

CONSTANTS
    Threads,
    Sectors,
    Values,        \* contents of a sector
    Calls,         \* [kind, sectors, value]: the calls threads make
    NoCall,        \* the call of a thread that is not in one
    InitialVolume

VARIABLES
    volume,  \* content of each sector
    call,    \* the call each thread is in
    todo,    \* the sectors of it that are still to be performed
    got,     \* what its reads found
    result   \* what its last read returned

vars == <<volume, call, todo, got, result>>

Listed(s) == {s[i] : i \in DOMAIN s}

Init ==
    /\ volume = InitialVolume
    /\ call = [t \in Threads |-> NoCall]
    /\ todo = [t \in Threads |-> {}]
    /\ got = [t \in Threads |-> <<>>]
    /\ result = [t \in Threads |-> <<>>]

Begin(t) ==
    /\ call[t] = NoCall
    /\ \E c \in Calls :
        /\ call' = [call EXCEPT ![t] = c]
        /\ todo' = [todo EXCEPT ![t] = Listed(c.sectors)]
    /\ result' = [result EXCEPT ![t] = <<>>]
    /\ UNCHANGED <<volume, got>>

Perform(t) ==
    /\ call[t] # NoCall
    /\ \E s \in todo[t] :
        /\ todo' = [todo EXCEPT ![t] = @ \ {s}]
        /\ IF call[t].kind = "read"
           THEN /\ got' = [got EXCEPT ![t] =
                            [x \in DOMAIN @ \cup {s} |->
                                IF x = s THEN volume[s] ELSE @[x]]]
                /\ UNCHANGED volume
           ELSE /\ volume' = [volume EXCEPT ![s] = call[t].value]
                /\ UNCHANGED got
    /\ UNCHANGED <<call, result>>

Return(t) ==
    /\ call[t] # NoCall
    /\ todo[t] = {}
    /\ result' = [result EXCEPT ![t] =
                    IF call[t].kind = "read"
                    THEN [i \in DOMAIN call[t].sectors |-> got[t][call[t].sectors[i]]]
                    ELSE <<>>]
    /\ call' = [call EXCEPT ![t] = NoCall]
    /\ got' = [got EXCEPT ![t] = <<>>]
    /\ UNCHANGED <<volume, todo>>

Next == \E t \in Threads : Begin(t) \/ Perform(t) \/ Return(t)

Spec == Init /\ [][Next]_vars
=============================================================================
