---------------------------- MODULE MCSessionDisk ----------------------------
(* Requests and archives for model checking SessionDisk.                    *)
EXTENDS SessionDisk

CONSTANTS c1, c2

Write(path, size) == [op |-> "write", path |-> path, size |-> size]
Delete(path) == [op |-> "delete", path |-> path]

FileRequests ==
    {Write(<<"f">>, 2), Write(<<"d", "f">>, 2), Write(<<"d", "f">>, 0), Write(<<"..", "f">>, 1),
     Delete(<<"f">>), Delete(<<"d", "f">>), Delete(<<"lock">>), [op |-> "run", out |-> 1],
     [op |-> "run", out |-> 3], [op |-> "runfile", path |-> <<"f">>, out |-> 0],
     [op |-> "read", path |-> <<"d", "f">>]}
MCRequests ==
    [c \in Calls |->
        FileRequests \cup IF c = c1 THEN {[op |-> "save"]}
                         ELSE {[op |-> "restore", id |-> c1], [op |-> "remove", ids |-> {c1}]}]

MCArchives ==
    {<<Member(<<"f">>, "reg", 1)>>,
     <<Member(<<"f">>, "reg", 2), Member(<<"d", "f">>, "reg", 1)>>,
     <<Member(<<"d">>, "dir", 0), Member(<<"d", "f">>, "reg", 1)>>,
     <<Member(<<"d">>, "reg", 1), Member(<<"d", "f">>, "reg", 1)>>,
     <<Member(<<"f">>, "reg", 1), Member(<<"f">>, "reg", 1)>>,
     <<Member(<<"..", "f">>, "reg", 1)>>,
     <<Member(<<"d">>, "link", 0)>>,
     <<Member(<<"f">>, "link", 1)>>,
     <<Member(<<"f">>, "reg", 1), Member(<<"d", "f">>, "link", 0)>>,
     <<Member(<<"f">>, "reg", 4)>>}
=============================================================================
