--------------------------- MODULE MCFileSystem ----------------------------
EXTENDS FileSystem, TLC

CONSTANTS t1, t2

MCThreads == {t1, t2}

call(kind, path) == [kind |-> kind, path |-> path, to |-> <<>>, size |-> 0]
truncate(path, size) == [kind |-> "truncate", path |-> path, to |-> <<>>, size |-> size]
rename(path, to) == [kind |-> "rename", path |-> path, to |-> to, size |-> 0]

\* One thread works on a file of the root, the other one on a directory of it.
MCOperationsOf ==
    (t1 :> {call("create", <<"a">>), call("unlink", <<"a">>), truncate(<<"a">>, 0),
            truncate(<<"a">>, 1), truncate(<<"a">>, 3), truncate(<<"a">>, 4),
            rename(<<"a">>, <<"d", "b">>)}) @@
    (t2 :> {call("mkdir", <<"d">>), call("rmdir", <<"d">>), call("create", <<"d", "b">>),
            rename(<<"d", "b">>, <<"d", "c">>)})

MCLeftovers == (Size - 1) :> [i \in 1 .. SlotCount |-> slot("file", "b", 3, 1)]
=============================================================================
