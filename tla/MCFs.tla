------------------------------- MODULE MCFs --------------------------------
(* An instance of Fs: one process works below its directory, which moves;  *)
(* the other removes and links from the root.                              *)
EXTENDS Fs

CONSTANTS p1, p2

MCCall(op, path) == [op |-> op, path |-> path, new |-> <<>>]

MCProcs == {p1, p2}
MCNames == {"a", "b"}
MCBelow == {MCCall("mkdir", <<"a">>), MCCall("chdir", <<"a">>), MCCall("chdir", <<"..">>),
            MCCall("create", <<"b">>), MCCall("open", <<"b">>),
            MCCall("mkdir", <<"b", "a">>), MCCall("openw", <<"a">>)}
MCAbove == {MCCall("unlink", <<"/", "a">>), MCCall("unlink", <<"/", "a", "a">>),
            MCCall("unlink", <<"/", "b">>), MCCall("unlink", <<"/", "a", ".">>),
            MCCall("unlink", <<"/">>), MCCall("mknod", <<"/", "a", "b">>),
            MCCall("exec", <<"/", "b">>),
            [op |-> "link", path |-> <<"/", "b">>, new |-> <<"/", "a", "b">>]}
MCCalls == (p1 :> MCBelow) @@ (p2 :> MCAbove)
============================================================================
