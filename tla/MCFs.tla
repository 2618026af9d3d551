--------------------------------- MODULE MCFs ---------------------------------
EXTENDS Fs

Path(op, path) == [op |-> op, path |-> path]
Open(path, omode) == [op |-> "open", path |-> path, omode |-> omode]

MCImage == << [name |-> "f", size |-> 3] >>

CONSTANTS p1, p2

\* Both make and remove d/x and d and work in d; the rest is divided.
Both ==
  { Open(<<"d", "x">>, {"CREATE", "RDWR"}), Path("unlink", <<"d", "x">>),
    Path("unlink", <<"/", "d">>), Path("chdir", <<"d">>) }

MCCalls ==
  p1 :> Both \cup
        { [op |-> "link", path |-> <<"f">>, new |-> <<"d", "x">>],
          Path("unlink", <<"f">>), Path("mkdir", <<"/", "d">>), Path("mkdir", <<"/">>),
          Open(<<"d", "..">>, {"CREATE", "RDWR"}), Path("mkdir", <<"y">>),
          [op |-> "link", path |-> <<"f">>, new |-> <<"z">>],
          [op |-> "write", fd |-> 0, n |-> 4], [op |-> "dup"], [op |-> "pipe"],
          [op |-> "fork"] }
  @@
  p2 :> Both \cup
        { Open(<<"f">>, {}), Open(<<"/">>, {}), Open(<<"x">>, {"CREATE", "WRONLY", "TRUNC"}),
          [op |-> "mknod", path |-> <<"x">>, major |-> 1],
          [op |-> "mknod", path |-> <<"x">>, major |-> -1], [op |-> "read"],
          [op |-> "link", path |-> <<"d">>, new |-> <<"x">>], Path("chdir", <<"f", "x">>),
          Open(<<"d">>, {"RDWR"}), [op |-> "fstat"], [op |-> "exit"] }

\* A process stays in a directory that is removed, and its parent after it.
MCRemoved ==
  p1 :> { Path("mkdir", <<"d", "x">>), Path("chdir", <<"d", "x">>),
          Path("unlink", <<"/", "d", "x">>), Path("unlink", <<"/", "d">>), Open(<<"..">>, {}) }
=============================================================================
