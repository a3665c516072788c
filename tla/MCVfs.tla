-------------------------------- MODULE MCVfs --------------------------------
(***************************************************************************)
(* Instances of Vfs for model checking.                                    *)
(***************************************************************************)
EXTENDS VfsRefinement

Abs(s) == [kind |-> "absolute", segs |-> s]
C(op, arg, s) == [op |-> op, arg |-> arg, path |-> Abs(s)]

\* The strings "" and "a".
EmptyPath == [kind |-> "empty", segs |-> <<>>]
RelPath == [kind |-> "relative", segs |-> <<"a">>]

\* Directories, devices, mounts and handles to entries.
TreeCalls ==
  { C("mount", "ramfs", <<>>), C("mount", "devfs", <<"dev">>),
    C("mount", "ramfs", <<"a", "m">>), C("mount", "ext2", <<"m">>),
    C("create_directory", "", <<"a">>),
    C("create_directory", "", <<"a", "b">>),
    C("create_directory", "", <<"dev", "b">>),
    C("create_directory", "", <<".", "b">>),
    C("stat", "", <<"a", "b">>),
    C("stat", "", <<"..", "a", ".", "..", "a">>),
    C("stat", "", <<"dev", "null">>),
    C("read_directory", "", <<"a">>),
    C("read_directory", "", <<"a", "m">>), C("read_directory", "", <<"dev", "null">>) }

\* Open files, on ramfs and on the devices, and the paths that cannot be opened.
FileCalls ==
  { C("mount", "ramfs", <<>>), C("mount", "devfs", <<"dev">>),
    C("open", "Write", <<"f">>), C("open", "Read", <<"f">>),
    C("open", "Append", <<"f">>),
    C("open", "Write", <<"f", "x">>), C("open", "Write", <<"x", "y">>),
    C("open", "Write", <<>>), C("open", "Read", <<>>),
    C("open", "Read", <<".", "f">>),
    C("open", "Write", <<"dev", "null">>), C("open", "Read", <<"dev", "null">>),
    C("open", "Write", <<"dev", "zero">>), C("open", "Read", <<"dev", "zero">>),
    C("open", "Write", <<"dev", "x">>),
    [op |-> "open", arg |-> "Read", path |-> RelPath],
    [op |-> "open", arg |-> "Read", path |-> EmptyPath] }

\* What the kernel's init and the shell's cat do.
CatCalls == {C("mount", "ramfs", <<>>), C("open", "Write", <<"f">>),
             C("open", "Read", <<>>)}

TwoBuffers == {<<1>>, <<2, 3>>}

=============================================================================
