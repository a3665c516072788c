------------------------------- MODULE MCShell -------------------------------
(***************************************************************************)
(* Instances of Shell for model checking.                                  *)
(***************************************************************************)
EXTENDS Shell

Line(name, args) == [name |-> name, args |-> args]

\* Commands that make files and directories, one of them nameless ("/a/"), list
\* and read them and the devices, or fail in each of the ways there are.
SomeCommands ==
  { Line("pwd", <<>>), Line("exit", <<>>), Line("mkdir", << <<"-", "p">> >>),
    Line("ls", <<>>), Line("ls", << <<"-", "l">>, <<"/", ".">> >>),
    Line("ls", << <<"/", "dev">> >>), Line("ls", << <<"/", "a">> >>),
    Line("ls", << <<"/", "dev", "/", "null">>, <<"-", "i", "l">> >>),
    Line("ls", << <<"-", "l">>, <<"/", "a">> >>),
    Line("ls", << <<"-", "l">>, <<"/", "a", "/">> >>),
    Line("ls", << <<"-", "a">>, <<"-", "-", "l">> >>),
    Line("ls", << <<>> >>), Line("ls", << <<"a">> >>),
    Line("cat", << <<"/", "test.txt">> >>), Line("cat", << <<"/", "dev", "/", "zero">> >>),
    Line("cat", << <<"/", "dev", "/", "null">> >>), Line("cat", << <<"/", "dev">> >>),
    Line("cat", <<>>),
    Line("touch", << <<"/", "test.txt">> >>), Line("touch", << <<"/", "t">> >>),
    Line("touch", << <<"/", "a">> >>),
    Line("mkdir", << <<"/", "a">> >>), Line("mkdir", << <<"/", "a", "/">> >>),
    Line("mkdir", << <<"/", "a", "/", "/", "b">> >>),
    Line("mkdir", << <<"/", "dev", "/", "x">> >>) }

\* ls -l of the directory that holds the devices.
ListDevices == {Line("ls", << <<"-", "l">>, <<"/", "dev">> >>)}

=============================================================================
