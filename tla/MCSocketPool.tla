---------------------------- MODULE MCSocketPool ----------------------------
EXTENDS SocketPool

CONSTANTS t1, t2, t3

MCThreads == {t1, t2, t3}

\* Sector 0 is the boot sector; 1 to 4 are read and written.
MCVolume == [s \in 0 .. 4 |-> "old"]

\* One thread reads a cluster whose sectors another one writes; the third one
\* competes for a connection and has nothing to send.
MCCallsOf ==
    (t1 :> {[kind |-> "read", sectors |-> <<3, 1, 2, 4>>, value |-> "old"]}) @@
    (t2 :> {[kind |-> "write", sectors |-> <<1>>, value |-> "new"]}) @@
    (t3 :> {[kind |-> "write", sectors |-> <<>>, value |-> "new"]})
=============================================================================
