------------------------------- MODULE FsCalls -------------------------------
(***************************************************************************)
(* The calls the virtual file system serves, what they are made of, and    *)
(* the file systems and devices behind them: shared by Vfs, which models   *)
(* the code, and FileTree, which says what the calls are to do.            *)
(***************************************************************************)
EXTENDS Naturals, Sequences, FiniteSets, FiniteSetsExt, Functions

CONSTANTS
  Calls,       \* the path calls callers make: records [op, arg, path]
  Buffers,     \* the byte sequences they write
  ReadSizes    \* the lengths of the buffers they read into

\* The device table, filled by drivers::char::init before anything is mounted.
Devices == {"null", "zero"}

\* The registry of file system types, filled by drivers::fs::init.
FileSystemTypes == {"ramfs", "devfs"}

FileModes == {"Read", "Write", "Append"}

is_mutating(mode) == mode \in {"Write", "Append"}

Ops == {"mount", "open", "read_directory", "create_directory", "stat"}

(* A path as Path::from_str returns it: the empty string is an error, and  *)
(* the segments are what stands between the slashes after the first, so    *)
(* that a trailing or a doubled slash gives an empty segment.              *)
PathKinds == {"empty", "relative", "absolute"}
Dots == {".", ".."}

IsRootPath(path) == path.kind = "absolute" /\ path.segs = <<>>

\* mount looks up the file system type before anything else.
UnknownType(c) == c.op = "mount" /\ c.arg \notin FileSystemTypes

\* Calls that make what they do not find.
Creates(c) ==
  c.op \in {"mount", "create_directory"} \/ (c.op = "open" /\ is_mutating(c.arg))

ASSUME CallsAssumption ==
  \A c \in Calls :
    /\ c.op \in Ops
    /\ c.op = "open" => c.arg \in FileModes
    /\ c.path.kind \in PathKinds
    /\ c.path.segs \in Seq(STRING)

ASSUME DataAssumption == ReadSizes \subseteq Nat /\ Buffers \subseteq Seq(Nat)

-----------------------------------------------------------------------------

Empty == [x \in {} |-> x]
Extend(f, x, v) == [y \in DOMAIN f \cup {x} |-> IF y = x THEN v ELSE f[y]]

\* What a call returns: Ok or the IoError, and a listing if it made one.
Listing(l) == [code |-> "ok", listing |-> l]
Result(code) == [code |-> code, listing |-> Empty]

\* zero has no write and null has no read.
HasRead(device) == device = "zero"
HasWrite(device) == device = "null"

\* ramfs's write: the file grows with zeros to hold the buffer, then the copy.
Overwrite(data, pos, buffer) ==
  [i \in 1..Max({Len(data), pos + Len(buffer)}) |->
     IF i \in pos + 1..pos + Len(buffer) THEN buffer[i - pos]
     ELSE IF i =< Len(data) THEN data[i] ELSE 0]

\* ramfs's read copies what is left of the file, or as much as fits.
Available(data, pos, k) == IF pos > Len(data) THEN 0 ELSE Min({k, Len(data) - pos})

=============================================================================
