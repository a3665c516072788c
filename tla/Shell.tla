-------------------------------- MODULE Shell --------------------------------
(***************************************************************************)
(* What boot and the shell's commands make of the file system: vfs::init,  *)
(* then one command after the other, each a program of VFS calls.  The     *)
(* calls are those of FileTree, which Vfs implements; one step is a call   *)
(* and what the caller does with its result.                               *)
(*                                                                         *)
(* A command is its name and its arguments, which Tokenizer's iterator has *)
(* made; arguments are sequences of tokens, as in Path, with "-" a token.  *)
(***************************************************************************)
EXTENDS FileTree, Path

CONSTANTS
  Commands,    \* lines that are typed: [name, args]
  MaxFd        \* bound: the commands stop when this many files were opened

VARIABLES
  pc,          \* the next thing to do
  cmd,         \* the command being executed
  fd,          \* the local variable f of vfs::init, cat and touch
  e,           \* the entry that ls found: its name and its place
  children,    \* names ls has still to print
  stopped      \* "no", "exit", or how the caller of the VFS panicked

shell == <<pc, cmd, fd, e, children, stopped>>

Greeting == <<1>>     \* "Hello, world!"
CatBuffer == 512

NoEntry == [name |-> "", place |-> Missing]
NoCommand == [name |-> "none", args |-> <<>>]

ShellInit ==
  /\ Init
  /\ pc = "create_root" /\ cmd = NoCommand /\ fd = 0 /\ e = NoEntry /\ children = {}
  /\ stopped = "no"

Running == panic = "none" /\ stopped = "no"
At(p) == Running /\ pc = p

-----------------------------------------------------------------------------
(* Calls, and their callers.                                               *)

NewCall(op, arg, s) == [op |-> op, arg |-> arg, path |-> from_str(s)]

\* New nodes are numbered in order.
VfsCall(call) ==
  \E c \in {call} : Call(c) /\ DOMAIN tree' = 1..Cardinality(DOMAIN tree')

\* unwrap, expect, or a match arm that panics: go on only after Ok.
Unwrap(next) ==
  IF panic' # "none" THEN UNCHANGED <<pc, stopped>>
  ELSE IF ret'.code = "ok" THEN pc' = next /\ UNCHANGED stopped
  ELSE stopped' = "unwrap" /\ UNCHANGED pc

Local == UNCHANGED <<cmd, fd, e, children>>

OpenUnwrap(c, next) == VfsCall(c) /\ Unwrap(next) /\ fd' = next_fd /\ UNCHANGED <<e, children>>

-----------------------------------------------------------------------------
(* vfs::init.                                                              *)

CreateRoot ==
  /\ At("create_root")
  /\ VfsCall(NewCall("mount", "ramfs", <<"/">>)) /\ Unwrap("mount_dev") /\ Local

MountDev ==
  /\ At("mount_dev")
  /\ VfsCall(NewCall("mount", "devfs", <<"/", "dev">>)) /\ Unwrap("create_test") /\ Local

CreateTest ==
  /\ At("create_test")
  /\ OpenUnwrap(NewCall("open", "Write", <<"/", "test.txt">>), "write_test")
  /\ UNCHANGED cmd

WriteTest ==
  /\ At("write_test")
  /\ (BadDescriptor(fd) \/ DirectoryIo(fd) \/ WrongMode(fd, "Write") \/ Unsupported(fd)
        \/ Write(fd, Greeting))
  /\ Unwrap("close") /\ Local

-----------------------------------------------------------------------------
(* Arguments.                                                              *)

IsFlag(arg) == arg # <<>> /\ arg[1] = "-"
IsNamed(arg) == Len(arg) > 1 /\ arg[1] = "-" /\ arg[2] = "-"

\* The loop ends at the first argument that has the flag or cannot be parsed.
has_boolean_option(args, flag) ==
  LET ends == {i \in DOMAIN args : /\ IsFlag(args[i])
                                   /\ IsNamed(args[i]) \/ flag \in Range(Tail(args[i]))}
  IN IF ends = {} THEN "false"
     ELSE IF IsNamed(args[Min(ends)]) THEN "todo" ELSE "true"

without_flags(args) == SelectSeq(args, LAMBDA a : ~IsFlag(a))

LsPath(args) ==
  IF without_flags(args) = <<>> THEN <<"/">> ELSE Last(without_flags(args))

LsFlags == {"a", "l", "h", "i"}
FlagsParse(args) == \A f \in LsFlags : has_boolean_option(args, f) # "todo"

-----------------------------------------------------------------------------
(* Commands.  Prompt(c): the line c has been read and cut into arguments.  *)

Prompt(c) == At("prompt") /\ cmd' = c
Front1(c) == c.args[1]

\* Commands that make no call: the printing ones, the missing ones, a missing
\* path, and no command at all.
NeedsPath(c) == c.name \in {"cat", "touch", "mkdir"}
HasPath(c) ==
  IF c.name = "mkdir" THEN without_flags(c.args) # <<>> ELSE c.args # <<>>

NoCall(c) ==
  /\ Prompt(c)
  /\ c.name \notin {"ls", "exit"} /\ (NeedsPath(c) => ~HasPath(c))
  /\ UNCHANGED <<vars, pc, fd, e, children, stopped>>

Exit(c) ==
  /\ Prompt(c) /\ c.name = "exit"
  /\ stopped' = "exit" /\ UNCHANGED <<vars, pc, fd, e, children>>

LsTodo(c) ==
  /\ Prompt(c) /\ c.name = "ls" /\ ~FlagsParse(c.args)
  /\ stopped' = "todo" /\ UNCHANGED <<vars, pc, fd, e, children>>

\* DirectoryEntry::name of a place: a node has one parent and one name in it.
NameOf(place) ==
  IF place[1] = "device" THEN place[2]
  ELSE IF place[2] = root THEN "/"
  ELSE LET dir == CHOOSE n \in DOMAIN tree :
                    tree[n].kind = "Directory" /\ \E x \in Names(n) : Child(n, x) = place
       IN CHOOSE x \in Names(dir) : Child(dir, x) = place

Ls(c) ==
  /\ Prompt(c) /\ c.name = "ls" /\ FlagsParse(c.args)
  /\ \E path \in {from_str(LsPath(c.args))} :
       /\ VfsCall([op |-> "stat", arg |-> "", path |-> path])
       /\ \/ /\ panic' = "none" /\ ret'.code = "EntryNotFound"
             /\ UNCHANGED <<pc, e, stopped>>
          \/ /\ panic' = "none" /\ ret'.code = "ok"
             /\ \E place \in {Target(path)} :
                  e' = [name |-> NameOf(place), place |-> place]
             /\ pc' = "ls_entry" /\ UNCHANGED stopped
          \/ /\ panic' # "none" \/ ret'.code \notin {"ok", "EntryNotFound"}
             /\ Unwrap("ls_entry") /\ UNCHANGED e
  /\ UNCHANGED <<fd, children>>

\* ls has printed all there is.
LsEnd == pc' = "prompt" /\ e' = NoEntry /\ children' = {} /\ UNCHANGED <<vars, cmd, fd, stopped>>

\* Not a directory: it is printed.
LsFile == At("ls_entry") /\ ~IsDir(e.place) /\ LsEnd

MutantLsDirectory ==
  /\ At("ls_entry")
  /\ VfsCall(NewCall("read_directory", "", LsPath(cmd.args)))
  /\ Unwrap("ls_children")
  /\ children' = DOMAIN ret'.listing /\ UNCHANGED <<cmd, fd, e>>

LsDirectory ==
  /\ At("ls_entry") /\ IsDir(e.place)
  /\ VfsCall(NewCall("read_directory", "", LsPath(cmd.args)))
  /\ Unwrap("ls_children")
  /\ children' = DOMAIN ret'.listing /\ UNCHANGED <<cmd, fd, e>>

Long == has_boolean_option(cmd.args, "l") = "true"

\* The short format prints the names, the long one needs the entries.
LsShort == At("ls_children") /\ (~Long \/ children = {}) /\ LsEnd

Tokens(name) == IF name = "" THEN <<>> ELSE <<name>>

MutantChildPath(child) == Tokens(e.name) \o <<"/">> \o Tokens(child)

child_path(child) ==
  (IF e.name = "/" THEN <<>> ELSE Tokens(e.name)) \o <<"/">> \o Tokens(child)

MutantLsLong(child) ==
  /\ At("ls_children") /\ Long
  /\ VfsCall(NewCall("stat", "", child_path(child)))
  /\ Unwrap("ls_children")
  /\ UNCHANGED <<cmd, fd, e, children>>

LsLong(child) ==
  /\ At("ls_children") /\ Long
  /\ VfsCall(NewCall("stat", "", child_path(child)))
  /\ Unwrap("ls_children")
  /\ children' = children \ {child} /\ UNCHANGED <<cmd, fd, e>>

Cat(c) ==
  /\ Prompt(c) /\ c.name = "cat" /\ HasPath(c) /\ next_fd =< MaxFd
  /\ OpenUnwrap(NewCall("open", "Read", Front1(c)), "cat_read")

\* The file stays open.
CatRead ==
  /\ At("cat_read")
  /\ (BadDescriptor(fd) \/ DirectoryIo(fd) \/ WrongMode(fd, "Read") \/ Unsupported(fd)
        \/ Read(fd, CatBuffer))
  /\ Unwrap("prompt") /\ Local

Touch(c) ==
  /\ Prompt(c) /\ c.name = "touch" /\ HasPath(c) /\ next_fd =< MaxFd
  /\ OpenUnwrap(NewCall("open", "Write", Front1(c)), "close")

MutantCloseFile ==
  At("close") /\ pc' = "prompt" /\ UNCHANGED <<vars, cmd, fd, e, children, stopped>>


\* The last step of touch and of vfs::init.
CloseFile ==
  /\ At("close") /\ (BadDescriptor(fd) \/ Close(fd))
  /\ Unwrap("prompt") /\ Local

Mkdir(c) ==
  /\ Prompt(c) /\ c.name = "mkdir" /\ HasPath(c)
  /\ VfsCall(NewCall("create_directory", "", Last(without_flags(c.args))))
  /\ Unwrap("prompt") /\ UNCHANGED <<fd, e, children>>

Boot == CreateRoot \/ MountDev \/ CreateTest \/ WriteTest
Start(c) ==
  NoCall(c) \/ Exit(c) \/ LsTodo(c) \/ Ls(c) \/ Cat(c) \/ Touch(c) \/ Mkdir(c)
Go ==
  LsFile \/ LsDirectory \/ LsShort \/ (\E x \in children : LsLong(x))
    \/ CatRead \/ CloseFile

ShellNext == Boot \/ (\E c \in Commands : Start(c)) \/ Go

allvars == <<vars, shell>>

ShellSpec == ShellInit /\ [][ShellNext]_allvars /\ WF_allvars(Boot \/ Go)

-----------------------------------------------------------------------------
(* Properties.                                                             *)

(* touch and vfs::init close what they open.  What is open at the prompt   *)
(* was left by cat, which never closes it: it is open for reading, is no   *)
(* directory, and was read from its start once.                            *)
OnlyCatLeavesOpen ==
  At("prompt") =>
    \A f \in DOMAIN files :
      /\ files[f].mode = "Read" /\ ~IsDir(files[f].at)
      /\ ~OnDevice(f) => files[f].pos = Len(tree[files[f].at[2]].data)

(* A caller never panics over a result that the calls before it rule out:  *)
(* vfs::init succeeds, a descriptor that was just opened can be closed,    *)
(* and read_directory lists the directory that stat has found, so that the *)
(* todo! after it in ls is never reached.                                  *)
ExpectedResults ==
  pc \in {"create_root", "mount_dev", "create_test", "write_test", "close", "ls_entry"}
    => panic = "none" /\ stopped = "no"

(* ls -l of the root directory: every name that read_directory lists, the  *)
(* mount point included, can be looked up under the path that ls makes of  *)
(* it.                                                                     *)
RootListingResolves ==
  pc = "ls_children" /\ e.place = Node(root) => panic = "none" /\ stopped = "no"

(* stat(&child_path).unwrap(): the path that ls -l makes for a child leads *)
(* to it, whatever directory is listed.                                    *)
ListingResolves == pc = "ls_children" => panic = "none" /\ stopped = "no"


(* Boot reaches the prompt, and every command returns to it or stops the   *)
(* kernel.                                                                 *)
BackToPrompt == []<>(pc = "prompt" \/ ~Running)

=============================================================================
