------------------------------ MODULE FileTree -------------------------------
(***************************************************************************)
(* What the calls of the virtual file system promise: trees of nodes,      *)
(* joined at mount points, and files open on nodes.  There is no directory *)
(* cache and no directory entry, and a call is one step.  Vfs implements   *)
(* this specification.                                                     *)
(*                                                                         *)
(* The places a path can lead to are nodes and devices; a walk that fails  *)
(* ends in a place that says why.                                          *)
(***************************************************************************)
EXTENDS FsCalls

CONSTANTS
  Ids,         \* identities of nodes
  Fds          \* descriptors callers use

VARIABLES
  tree,        \* node -> [kind, fs, data, kids]
  root,        \* the root node, or NoNode
  points,      \* mount points: <<node, name>> -> root node of the mount
  files,       \* descriptor -> [at, mode, pos]
  next_fd,
  ret,         \* result of the last call
  panic        \* why the kernel panicked, or "none"

vars == <<tree, root, points, files, next_fd, ret, panic>>

NoNode == 0

Init ==
  /\ tree = Empty /\ root = NoNode /\ points = Empty /\ files = Empty /\ next_fd = 1
  /\ ret = Result("none") /\ panic = "none"

-----------------------------------------------------------------------------
(* Paths.                                                                  *)

Node(n) == <<"node", n>>
Device(d) == <<"device", d>>
Missing == <<"missing", NoNode>>
NotDir == <<"not a directory", NoNode>>
Unhandled == <<"todo", NoNode>>
Nowhere == {Missing, NotDir, Unhandled}

\* The end of a path or of a walk, and a walk without its end.
End(s) == s[Len(s)]
Back(s) == SubSeq(s, 1, Len(s) - 1)

IsDirIn(t, place) == place[1] = "node" /\ t[place[2]].kind = "Directory"
IsDir(place) == IsDirIn(tree, place)

\* What is called name in the directory n, given the tree and the mount points:
\* a mount hides what is below it.
ChildIn(t, pts, n, name) ==
  IF <<n, name>> \in DOMAIN pts THEN Node(pts[<<n, name>>])
  ELSE IF t[n].fs = "devfs" THEN IF name \in Devices THEN Device(name) ELSE Missing
  ELSE IF name \in DOMAIN t[n].kids THEN Node(t[n].kids[name]) ELSE Missing
Child(n, name) == ChildIn(tree, points, n, name)

\* "." stays, ".." goes back, but not past the root; on the way to the parent
\* of something to be created dots are not handled.
AtDots(mode, places, seg) ==
  IF mode = "parent" THEN <<Unhandled>>
  ELSE IF seg = "." \/ Len(places) = 1 THEN places
  ELSE Back(places)

Down(t, pts, places, name) ==
  LET child == ChildIn(t, pts, End(places)[2], name)
  IN IF child = Missing THEN <<Missing>> ELSE Append(places, child)

\* One segment of a walk; places are those passed and not left by "..".
WalkSegment(t, pts, mode, places, seg) ==
  IF End(places) \in Nowhere THEN places
  ELSE IF ~IsDirIn(t, End(places)) THEN <<NotDir>>
  ELSE IF seg \in Dots THEN AtDots(mode, places, seg)
  ELSE Down(t, pts, places, seg)

\* The places passed after each number of segments.
Walk(t, pts, r, mode, segs) ==
  LET places[i \in 0..Len(segs)] ==
        IF i = 0 THEN <<Node(r)>> ELSE WalkSegment(t, pts, mode, places[i - 1], segs[i])
  IN places

Target(path) == End(Walk(tree, points, root, "resolve", path.segs)[Len(path.segs)])

\* The directory in which the last segment is to be created, or why it cannot.
ParentOf(path) ==
  LET dir == End(Walk(tree, points, root, "parent", path.segs)[Len(path.segs) - 1])
  IN IF dir \in Nowhere THEN dir
     ELSE IF ~IsDir(dir) THEN NotDir
     ELSE IF End(path.segs) \in Dots THEN Unhandled
     ELSE dir

-----------------------------------------------------------------------------
(* Calls with a path.                                                      *)

Return(r) ==
  ret' = Result(r) /\ UNCHANGED <<tree, root, points, files, next_fd, panic>>

Panic(why) ==
  panic' = why /\ UNCHANGED <<tree, root, points, files, next_fd, ret>>

Ok == ret' = Result("ok") /\ UNCHANGED panic

NewNode(kind, fs) == [kind |-> kind, fs |-> fs, data |-> <<>>, kids |-> Empty]

OpenAt(place, mode) ==
  /\ files' = Extend(files, next_fd, [at |-> place, mode |-> mode, pos |-> 0])
  /\ next_fd' = next_fd + 1

\* The names in a directory, and what they are.
Kind(place) == IF place[1] = "device" THEN "CharDevice" ELSE tree[place[2]].kind
Names(n) ==
  (IF tree[n].fs = "devfs" THEN Devices ELSE DOMAIN tree[n].kids)
    \cup {k[2] : k \in {j \in DOMAIN points : j[1] = n}}
List(n) == [name \in Names(n) |-> Kind(Child(n, name))]

\* The path leads to an existing place.
Existing(c, place) ==
  \/ c.op = "stat" /\ Return("ok")
  \/ c.op = "read_directory" /\ ~IsDir(place) /\ Return("NotADirectory")
  \/ /\ c.op = "read_directory" /\ IsDir(place)
     /\ ret' = Listing(List(place[2]))
     /\ UNCHANGED <<tree, root, points, files, next_fd, panic>>
  \/ c.op = "open" /\ is_mutating(c.arg) /\ IsDir(place) /\ Return("NotAFile")
  \/ /\ c.op = "open" /\ ~(is_mutating(c.arg) /\ IsDir(place))
     /\ OpenAt(place, c.arg) /\ Ok
     /\ UNCHANGED <<tree, root, points>>
  \/ c.op = "create_directory" /\ Return("AlreadyExists")
  \/ c.op = "mount" /\ Panic("todo")

WithChild(dir, name, n, kind) ==
  Extend([tree EXCEPT ![dir].kids = Extend(@, name, n)], n, NewNode(kind, "ramfs"))

\* The directory has no such name, and gets it.
Create(c, dir, name) ==
  \/ /\ c.op # "mount" /\ tree[dir].fs = "devfs"
     /\ Return("OperationNotSupported")
  \/ /\ c.op # "mount" /\ tree[dir].fs = "ramfs"
     /\ \E n \in Ids \ DOMAIN tree :
          \/ /\ c.op = "open" /\ tree' = WithChild(dir, name, n, "File")
             /\ OpenAt(Node(n), c.arg)
          \/ /\ c.op = "create_directory" /\ tree' = WithChild(dir, name, n, "Directory")
             /\ UNCHANGED <<files, next_fd>>
     /\ Ok /\ UNCHANGED <<root, points>>
  \/ /\ c.op = "mount"
     /\ \E n \in Ids \ DOMAIN tree :
          /\ tree' = Extend(tree, n, NewNode("Directory", c.arg))
          /\ points' = Extend(points, <<dir, name>>, n)
     /\ Ok /\ UNCHANGED <<root, files, next_fd>>

MountRoot(c) ==
  \/ root # NoNode /\ Return("AlreadyExists")
  \/ /\ root = NoNode
     /\ \E n \in Ids \ DOMAIN tree :
          tree' = Extend(tree, n, NewNode("Directory", c.arg)) /\ root' = n
     /\ Ok /\ UNCHANGED <<points, files, next_fd>>

\* A walk that must end in a directory to create something in it.
CreateIn(c, dir) ==
  \/ dir = NotDir /\ Return("NotADirectory")
  \/ dir = Missing /\ Return("EntryNotFound")
  \/ dir = Unhandled /\ Panic("todo")
  \/ dir \notin Nowhere /\ Create(c, dir[2], End(c.path.segs))

OnPath(c, place) ==
  \/ place = NotDir /\ Return("NotADirectory")
  \/ place = Missing /\ ~Creates(c) /\ Return("EntryNotFound")
  \/ place = Missing /\ Creates(c) /\ CreateIn(c, ParentOf(c.path))
  \/ place \notin Nowhere /\ Existing(c, place)

Absolute(c) ==
  \/ c.op = "mount" /\ c.path.segs = <<>> /\ MountRoot(c)
  \/ /\ ~(c.op = "mount" /\ c.path.segs = <<>>)
     /\ \/ root = NoNode /\ Return("NoRootDirectory")
        \/ root # NoNode /\ OnPath(c, Target(c.path))

Call(c) ==
  /\ panic = "none"
  /\ \/ UnknownType(c) /\ Return("FileSystemTypeNotFound")
     \/ ~UnknownType(c) /\ c.path.kind = "empty" /\ Return("InvalidPath")
     \/ ~UnknownType(c) /\ c.path.kind = "relative" /\ Panic("todo")
     \/ ~UnknownType(c) /\ c.path.kind = "absolute" /\ Absolute(c)

-----------------------------------------------------------------------------
(* Calls with a descriptor.                                                *)

IsOpen(fd) == panic = "none" /\ fd \in DOMAIN files

BadDescriptor(fd) == panic = "none" /\ fd \notin DOMAIN files /\ Return("InvalidFile")

Close(fd) ==
  /\ IsOpen(fd)
  /\ files' = Restrict(files, DOMAIN files \ {fd}) /\ Ok
  /\ UNCHANGED <<tree, root, points, next_fd>>

\* A directory can be opened but not read or written.
DirectoryIo(fd) == IsOpen(fd) /\ IsDir(files[fd].at) /\ Panic("assert")

Ready(fd) == IsOpen(fd) /\ ~IsDir(files[fd].at)

WrongMode(fd, mode) == Ready(fd) /\ files[fd].mode # mode /\ Return("InvalidMode")

OnDevice(fd) == files[fd].at[1] = "device"

Unsupported(fd) ==
  /\ Ready(fd) /\ OnDevice(fd)
  /\ \/ files[fd].mode = "Read" /\ ~HasRead(files[fd].at[2])
     \/ files[fd].mode = "Write" /\ ~HasWrite(files[fd].at[2])
  /\ Return("OperationNotSupported")

\* The position moves by what was read or written.
Advance(fd, n) == files' = [files EXCEPT ![fd].pos = @ + n]

Read(fd, k) ==
  /\ Ready(fd) /\ files[fd].mode = "Read"
  /\ \/ OnDevice(fd) /\ HasRead(files[fd].at[2]) /\ Advance(fd, k)
     \/ /\ ~OnDevice(fd)
        /\ Advance(fd, Available(tree[files[fd].at[2]].data, files[fd].pos, k))
  /\ Ok /\ UNCHANGED <<tree, root, points, next_fd>>

Write(fd, buffer) ==
  /\ Ready(fd) /\ files[fd].mode = "Write"
  /\ \/ OnDevice(fd) /\ HasWrite(files[fd].at[2]) /\ UNCHANGED tree
     \/ /\ ~OnDevice(fd)
        /\ tree' = [tree EXCEPT ![files[fd].at[2]].data =
                                Overwrite(@, files[fd].pos, buffer)]
  /\ Advance(fd, Len(buffer))
  /\ Ok /\ UNCHANGED <<root, points, next_fd>>

OnDescriptor(fd) ==
  \/ BadDescriptor(fd) \/ Close(fd) \/ DirectoryIo(fd)
  \/ WrongMode(fd, "Read") \/ WrongMode(fd, "Write") \/ Unsupported(fd)
  \/ \E k \in ReadSizes : Read(fd, k)
  \/ \E b \in Buffers : Write(fd, b)

Next == (\E c \in Calls : Call(c)) \/ (\E fd \in Fds : OnDescriptor(fd))

Spec == Init /\ [][Next]_vars

=============================================================================
