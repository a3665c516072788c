--------------------------------- MODULE Vfs ---------------------------------
(***************************************************************************)
(* The virtual file system: path walking, the directory cache, the mount   *)
(* table, open files, and the two file systems that can be mounted (ramfs  *)
(* and devfs with its character devices).                                  *)
(*                                                                         *)
(* The kernel has one thread and no VFS call awaits or runs in a handler,  *)
(* so calls do not overlap.  A call that resolves a path takes one step    *)
(* per path segment; every other call is one step.  A call that panics     *)
(* (todo! or a failed assertion) ends the kernel.                          *)
(*                                                                         *)
(* Strong references (Arc) are modelled by reachability: after every step  *)
(* the only DirectoryEntry objects left are those a mount, a caller or the *)
(* walk in progress holds, and their ancestors.  The cache holds weak      *)
(* references, so its table may name entries that are gone.                *)
(***************************************************************************)
EXTENDS FsCalls

CONSTANTS MaxNodes, MaxEntries, MaxMounts, MaxFd, MaxHeld, MaxLen  \* bounds

ASSUME BoundsAssumption ==
  /\ MaxNodes \in Nat /\ MaxEntries \in Nat /\ MaxMounts \in Nat
  /\ MaxFd \in Nat /\ MaxHeld \in Nat /\ MaxLen \in Nat

VARIABLES
  nodes,    \* FsNode objects, by identity
  entries,  \* DirectoryEntry objects with a strong reference, by id
  table,    \* DirectoryCache::table: <<parent id, name>> -> entry id
  mounts,   \* mount_table: the MountIds are the positions of the sequence
  files,    \* open files by descriptor
  next_fd,  \* FileDescriptor::NEXT_ID
  held,     \* entries callers hold: results of stat and create_directory
  call,     \* the path call in progress
  walk,     \* how far it is: see below
  segs,     \* segments still to be resolved
  stack,    \* the resolution stack
  ret,      \* result of the last finished call
  panic     \* why the kernel panicked, or "none"

store == <<nodes, entries, table, mounts, files, held>>
vars == <<nodes, entries, table, mounts, files, next_fd, held, call, walk,
          segs, stack, ret, panic>>

(* walk is "none" between calls, "resolve" in resolve_path, "missing" once *)
(* that has returned Ok(None), "parent" in resolve_path_parent_directory.  *)
Walks == {"none", "resolve", "missing", "parent"}

NULL == 0
NoCall == [op |-> "none", arg |-> "", path |-> [kind |-> "empty", segs |-> <<>>]]

Init ==
  /\ nodes = Empty /\ entries = Empty /\ table = Empty
  /\ mounts = <<>> /\ files = Empty /\ next_fd = 1 /\ held = {}
  /\ call = NoCall /\ walk = "none" /\ segs = <<>> /\ stack = <<>>
  /\ ret = Result("none") /\ panic = "none"

-----------------------------------------------------------------------------
(* Objects.                                                                *)

NewNode(mount, kind, device) ==
  [mount |-> mount, kind |-> kind, device |-> device, links |-> 1, size |-> 0,
   data |-> <<>>, kids |-> Empty]

RootNode(mount) == NewNode(mount, "Directory", "")
DeviceNode(mount, device) == NewNode(mount, "CharDevice", device)

\* Ids come from counters that never repeat and are compared only with each
\* other, so any id nothing mentions will do.
Fresh(S) == CHOOSE n \in 1..Cardinality(S) + 1 : n \notin S
FreshNode == Fresh(DOMAIN nodes)
UsedEntries == DOMAIN entries \cup {k[1] : k \in DOMAIN table} \cup Range(table)
FreshEntry == Fresh(UsedEntries)

\* "chain" holds the ids reached through the parent references.
NewEntry(parent, node, name) ==
  [name |-> name, node |-> node, parent |-> parent,
   chain |-> IF parent = NULL THEN {} ELSE entries[parent].chain \cup {parent}]

\* DirectoryCache::lookup: a table entry whose weak reference upgrades.
Cached(parent, name) ==
  <<parent, name>> \in DOMAIN table /\ table[<<parent, name>>] \in DOMAIN entries

HasRoot == Cached(NULL, "/")
Root == table[<<NULL, "/">>]

NodeOf(e) == nodes[entries[e].node]
IsDirectory(e) == NodeOf(e).kind = "Directory"
FileSystemOf(n) == mounts[nodes[n].mount].fs

\* Does the file system's lookup find the name?  ramfs looks in the children of
\* the directory, devfs, which is one directory, in the device table.
InRamfs(parent, name) == name \in DOMAIN NodeOf(parent).kids
InDevfs(name) == name \in Devices
OnDisk(parent, name) ==
  IF FileSystemOf(entries[parent].node) = "ramfs" THEN InRamfs(parent, name)
  ELSE InDevfs(name)

\* Mounts whose root is called name in the directory parent.
MountsAt(parent, name) ==
  {m \in DOMAIN mounts : /\ entries[mounts[m].root].parent = parent
                         /\ entries[mounts[m].root].name = name}

MutantSettle(ns, es, ms, fs, hs, st) ==
  LET live == {ms[m].root : m \in DOMAIN ms} \cup hs \cup Range(st)
      used == {es[e].node : e \in live} \cup {fs[f].node : f \in DOMAIN fs}
  IN /\ entries' = Restrict(es, live)
     /\ nodes' = Restrict(ns, {n \in DOMAIN ns :
                                 ns[n].kind # "CharDevice" \/ n \in used})
     /\ mounts' = ms /\ files' = fs /\ held' = hs /\ stack' = st

\* The new objects and references, less what no strong reference reaches any
\* more.  ramfs keeps its nodes itself and never gives one up; the node of a
\* device is owned by its entry and by the files open on it.
Settle(ns, es, ms, fs, hs, st) ==
  LET pins == {ms[m].root : m \in DOMAIN ms} \cup hs \cup Range(st)
      live == pins \cup UNION {es[e].chain : e \in pins}
      used == {es[e].node : e \in live} \cup {fs[f].node : f \in DOMAIN fs}
  IN /\ entries' = Restrict(es, live)
     /\ nodes' = Restrict(ns, {n \in DOMAIN ns :
                                 ns[n].kind # "CharDevice" \/ n \in used})
     /\ mounts' = ms /\ files' = fs /\ held' = hs /\ stack' = st

-----------------------------------------------------------------------------
(* How a call ends.                                                        *)

Running == panic = "none"
Idle == Running /\ walk = "none"

\* The call returns r; its resolution stack is dropped by the caller of this.
Return(r) ==
  /\ ret' = Result(r)
  /\ call' = NoCall /\ walk' = "none" /\ segs' = <<>>
  /\ UNCHANGED panic

\* The call returns r and has changed nothing.
Fail(r) ==
  /\ Return(r)
  /\ Settle(nodes, entries, mounts, files, held, <<>>)
  /\ UNCHANGED <<table, next_fd>>

Panic(why) ==
  /\ panic' = why
  /\ UNCHANGED <<store, next_fd, call, walk, segs, stack, ret>>

-----------------------------------------------------------------------------
(* Starting a call.                                                        *)

\* Bounds: a call starts only if the ids it may need are left.
Room(c) ==
  /\ Cardinality(UsedEntries)
       + 2 * Cardinality({i \in DOMAIN c.path.segs : c.path.segs[i] \notin Dots})
       < MaxEntries
  /\ Cardinality(DOMAIN nodes) + 1 < MaxNodes
  /\ c.op = "open" => next_fd =< MaxFd
  /\ c.op = "mount" => Len(mounts) < MaxMounts
  /\ c.op \in {"stat", "create_directory"} => Cardinality(held) < MaxHeld

Reject(c) ==
  /\ Idle
  /\ \/ UnknownType(c) /\ ret' = Result("FileSystemTypeNotFound")
     \/ ~UnknownType(c) /\ c.path.kind = "empty" /\ ret' = Result("InvalidPath")
     \/ /\ ~UnknownType(c) /\ c.path.kind = "absolute"
        /\ ~(c.op = "mount" /\ IsRootPath(c.path))
        /\ ~HasRoot /\ ret' = Result("NoRootDirectory")
     \/ /\ ~UnknownType(c) /\ c.op = "mount" /\ IsRootPath(c.path)
        /\ HasRoot /\ ret' = Result("AlreadyExists")
  /\ UNCHANGED <<store, next_fd, call, walk, segs, stack, panic>>

RelativePath(c) ==
  /\ Idle /\ ~UnknownType(c) /\ c.path.kind = "relative"
  /\ Panic("todo")

\* mount at "/": the first mount, whose root entry has no parent.
MountRoot(c) ==
  /\ Idle /\ c.op = "mount" /\ ~UnknownType(c) /\ IsRootPath(c.path)
  /\ ~HasRoot /\ Room(c)
  /\ LET n == FreshNode
         e == FreshEntry
     IN /\ table' = Extend(table, <<NULL, "/">>, e)
        /\ Settle(Extend(nodes, n, RootNode(Len(mounts) + 1)),
                  Extend(entries, e, NewEntry(NULL, n, "/")),
                  Append(mounts, [fs |-> c.arg, root |-> e]), files, held, stack)
  /\ ret' = Result("ok")
  /\ UNCHANGED <<next_fd, call, walk, segs, panic>>

\* resolve_path puts the root on its stack and starts on the segments.
Begin(c) ==
  /\ Idle /\ ~UnknownType(c) /\ c.path.kind = "absolute"
  /\ ~(c.op = "mount" /\ IsRootPath(c.path))
  /\ HasRoot /\ Room(c)
  /\ call' = c /\ walk' = "resolve" /\ segs' = c.path.segs /\ stack' = <<Root>>
  /\ UNCHANGED <<store, next_fd, ret, panic>>

-----------------------------------------------------------------------------
(* Walking: one step for each segment.                                     *)

Top == stack[Len(stack)]
Seg == Head(segs)
Resolving == Running /\ walk = "resolve" /\ segs # <<>>
\* In resolve_path_parent_directory the last segment is not looked up.
Descending == Running /\ walk = "parent" /\ Len(segs) > 1
AtParent == Running /\ walk = "parent" /\ Len(segs) = 1 /\ IsDirectory(Top)
              /\ Seg \notin Dots

\* get_cached_or_lookup is reached with Top and Seg.
LookingUp ==
  /\ \/ Resolving /\ MountsAt(Top, Seg) = {}
     \/ Descending
  /\ IsDirectory(Top) /\ Seg \notin Dots

WalkNotADirectory ==
  /\ Resolving \/ (Running /\ walk = "parent")
  /\ ~IsDirectory(Top)
  /\ Fail("NotADirectory")

MutantWalkDot ==
  /\ Resolving /\ IsDirectory(Top)
  /\ Seg = "." \/ (Seg = ".." /\ Len(stack) = 1)
  /\ UNCHANGED <<store, segs, next_fd, call, walk, stack, ret, panic>>

\* "." is redundant, and so is ".." at the root.
WalkDot ==
  /\ Resolving /\ IsDirectory(Top)
  /\ Seg = "." \/ (Seg = ".." /\ Len(stack) = 1)
  /\ segs' = Tail(segs)
  /\ UNCHANGED <<store, next_fd, call, walk, stack, ret, panic>>

WalkDotDot ==
  /\ Resolving /\ IsDirectory(Top)
  /\ Seg = ".." /\ Len(stack) > 1
  /\ segs' = Tail(segs)
  /\ Settle(nodes, entries, mounts, files, held, SubSeq(stack, 1, Len(stack) - 1))
  /\ UNCHANGED <<table, next_fd, call, walk, ret, panic>>

\* resolve_path_parent_directory does not handle dots.
ParentWalkDots ==
  /\ Running /\ walk = "parent" /\ IsDirectory(Top) /\ Seg \in Dots
  /\ Panic("todo")

\* resolve_path asks the mount table, in the order of the ids, first.
WalkMount ==
  /\ Resolving /\ IsDirectory(Top) /\ Seg \notin Dots
  /\ MountsAt(Top, Seg) # {}
  /\ stack' = Append(stack, mounts[Min(MountsAt(Top, Seg))].root)
  /\ segs' = Tail(segs)
  /\ UNCHANGED <<store, next_fd, call, walk, ret, panic>>

WalkCached ==
  /\ LookingUp /\ Cached(Top, Seg)
  /\ stack' = Append(stack, table[<<Top, Seg>>])
  /\ segs' = Tail(segs)
  /\ UNCHANGED <<store, next_fd, call, walk, ret, panic>>

\* The file system's lookup finds the name, and the entry goes into the cache.
\* devfs makes a new node every time.
WalkLookup ==
  /\ LookingUp /\ ~Cached(Top, Seg) /\ OnDisk(Top, Seg)
  /\ LET onRam == FileSystemOf(entries[Top].node) = "ramfs"
         n == IF onRam THEN NodeOf(Top).kids[Seg] ELSE FreshNode
         e == FreshEntry
     IN /\ table' = Extend(table, <<Top, Seg>>, e)
        /\ Settle(IF onRam THEN nodes
                  ELSE Extend(nodes, n, DeviceNode(NodeOf(Top).mount, Seg)),
                  Extend(entries, e, NewEntry(Top, n, Seg)),
                  mounts, files, held, Append(stack, e))
  /\ segs' = Tail(segs)
  /\ UNCHANGED <<next_fd, call, walk, ret, panic>>

\* resolve_path returns Ok(None).
WalkMissing ==
  /\ LookingUp /\ walk = "resolve" /\ ~Cached(Top, Seg) /\ ~OnDisk(Top, Seg)
  /\ walk' = "missing" /\ segs' = <<>>
  /\ Settle(nodes, entries, mounts, files, held, <<>>)
  /\ UNCHANGED <<table, next_fd, call, ret, panic>>

ParentMissing ==
  /\ LookingUp /\ walk = "parent" /\ ~Cached(Top, Seg) /\ ~OnDisk(Top, Seg)
  /\ Fail("EntryNotFound")

-----------------------------------------------------------------------------
(* The end of each call.                                                   *)

Found == Running /\ walk = "resolve" /\ segs = <<>>
Missing == Running /\ walk = "missing"

NotFound == Missing /\ ~Creates(call) /\ Fail("EntryNotFound")

StartParentWalk ==
  /\ Missing /\ Creates(call)
  /\ walk' = "parent" /\ segs' = call.path.segs /\ stack' = <<Root>>
  /\ UNCHANGED <<store, next_fd, call, ret, panic>>

StatFound ==
  /\ Found /\ call.op = "stat"
  /\ Return("ok")
  /\ Settle(nodes, entries, mounts, files, held \cup {Top}, <<>>)
  /\ UNCHANGED <<table, next_fd>>

ReadFile ==
  /\ Found /\ call.op = "read_directory" /\ ~IsDirectory(Top)
  /\ Fail("NotADirectory")

\* What the file system lists, and the kinds of the nodes.
ListOnDisk(dir) ==
  IF FileSystemOf(entries[dir].node) = "ramfs"
  THEN [name \in DOMAIN NodeOf(dir).kids |-> nodes[NodeOf(dir).kids[name]].kind]
  ELSE [name \in Devices |-> "CharDevice"]

MutantList(dir) == ListOnDisk(dir)

\* Over it go the mounts whose roots have this directory as their parent.
List(dir) ==
  LET mnts == {m \in DOMAIN mounts : entries[mounts[m].root].parent = dir}
      names == {entries[mounts[m].root].name : m \in mnts}
  IN [name \in DOMAIN ListOnDisk(dir) \cup names |->
        IF name \in names
        THEN NodeOf(mounts[Max(MountsAt(dir, name))].root).kind
        ELSE ListOnDisk(dir)[name]]

ReadDirectory ==
  /\ Found /\ call.op = "read_directory" /\ IsDirectory(Top)
  /\ ret' = Listing(List(Top))
  /\ call' = NoCall /\ walk' = "none"
  /\ Settle(nodes, entries, mounts, files, held, <<>>)
  /\ UNCHANGED <<table, next_fd, segs, panic>>

\* open with a path that exists.  ns are the nodes before the link count rises.
OpenNode(n, ns, es, st) ==
  /\ Settle([ns EXCEPT ![n].links = @ + 1], es, mounts,
            Extend(files, next_fd, [node |-> n, mode |-> call.arg, pos |-> 0]),
            held, st)
  /\ next_fd' = next_fd + 1

OpenDirectory ==
  /\ Found /\ call.op = "open" /\ is_mutating(call.arg) /\ IsDirectory(Top)
  /\ Fail("NotAFile")

OpenFound ==
  /\ Found /\ call.op = "open"
  /\ is_mutating(call.arg) => ~IsDirectory(Top)
  /\ OpenNode(entries[Top].node, nodes, entries, <<>>)
  /\ Return("ok")
  /\ UNCHANGED table

\* devfs has no create_file and no create_directory.
CreateUnsupported ==
  /\ AtParent /\ call.op \in {"open", "create_directory"}
  /\ FileSystemOf(entries[Top].node) = "devfs"
  /\ Fail("OperationNotSupported")

\* ramfs's create_file and create_directory: children.insert overwrites.
AddChild(parent, name, n, kind) ==
  Extend([nodes EXCEPT ![parent].kids = Extend(@, name, n)],
         n, NewNode(nodes[parent].mount, kind, ""))

\* The new entry is dropped when open returns; the cache keeps its id.  Here
\* and below, DirectoryCache::insert asserts that the name is not cached.
CreateFile ==
  /\ AtParent /\ call.op = "open"
  /\ FileSystemOf(entries[Top].node) = "ramfs"
  /\ IF Cached(Top, Seg) THEN Panic("assert")
     ELSE /\ LET n == FreshNode
             IN OpenNode(n, AddChild(entries[Top].node, Seg, n, "File"), entries, <<>>)
          /\ table' = Extend(table, <<Top, Seg>>, FreshEntry)
          /\ Return("ok")

MutantMkdirExists ==
  /\ Found /\ call.op = "create_directory"
  /\ walk' = "parent" /\ segs' = call.path.segs /\ stack' = <<Root>>
  /\ UNCHANGED <<store, next_fd, call, ret, panic>>

MkdirExists ==
  /\ Found /\ call.op = "create_directory"
  /\ Fail("AlreadyExists")

MutantCreateDirectory ==
  /\ AtParent /\ call.op = "create_directory"
  /\ FileSystemOf(entries[Top].node) = "ramfs"
  /\ LET n == FreshNode
         e == FreshEntry
     IN /\ table' = Extend(table, <<Top, Seg>>, e)
        /\ Settle(Extend(nodes, n, NewNode(NodeOf(Top).mount, "Directory", "")),
                  Extend(entries, e, NewEntry(Top, n, Seg)),
                  mounts, files, held \cup {e}, <<>>)
  /\ Return("ok")
  /\ UNCHANGED next_fd

\* create_directory gives the new entry to its caller.
CreateDirectory ==
  /\ AtParent /\ call.op = "create_directory"
  /\ FileSystemOf(entries[Top].node) = "ramfs"
  /\ IF Cached(Top, Seg) THEN Panic("assert")
     ELSE /\ LET n == FreshNode
                 e == FreshEntry
             IN /\ table' = Extend(table, <<Top, Seg>>, e)
                /\ Settle(AddChild(entries[Top].node, Seg, n, "Directory"),
                          Extend(entries, e, NewEntry(Top, n, Seg)),
                          mounts, files, held \cup {e}, <<>>)
          /\ Return("ok")
          /\ UNCHANGED next_fd

\* Mounting over something that exists is not implemented.
MountOver == Found /\ call.op = "mount" /\ Panic("todo")

MountAt ==
  /\ AtParent /\ call.op = "mount"
  /\ IF Cached(Top, Seg) THEN Panic("assert")
     ELSE /\ LET n == FreshNode
                 e == FreshEntry
             IN /\ table' = Extend(table, <<Top, Seg>>, e)
                /\ Settle(Extend(nodes, n, RootNode(Len(mounts) + 1)),
                          Extend(entries, e, NewEntry(Top, n, Seg)),
                          Append(mounts, [fs |-> call.arg, root |-> e]),
                          files, held, <<>>)
          /\ Return("ok")
          /\ UNCHANGED next_fd

-----------------------------------------------------------------------------
(* Calls on descriptors, and the other calls without a path.               *)

\* Changes to files and nodes only; the others do not take a descriptor.
OnFile(r, ns, fs) ==
  /\ ret' = Result(r)
  /\ Settle(ns, entries, mounts, fs, held, stack)
  /\ UNCHANGED <<table, next_fd, call, walk, segs, panic>>

BadDescriptor(fd) == Idle /\ fd \notin DOMAIN files /\ OnFile("InvalidFile", nodes, files)

MutantClose(fd) ==
  /\ Idle /\ fd \in DOMAIN files
  /\ OnFile("ok", nodes, Restrict(files, DOMAIN files \ {fd}))

Close(fd) ==
  /\ Idle /\ fd \in DOMAIN files
  /\ OnFile("ok", [nodes EXCEPT ![files[fd].node].links = @ - 1],
            Restrict(files, DOMAIN files \ {fd}))

\* read and write assert that the file is not a directory.
DirectoryIo(fd) ==
  /\ Idle /\ fd \in DOMAIN files
  /\ nodes[files[fd].node].kind = "Directory"
  /\ Panic("assert")

IoReady(fd, mode) ==
  Idle /\ fd \in DOMAIN files /\ nodes[files[fd].node].kind # "Directory"
    /\ files[fd].mode = mode

WrongMode(fd, mode) ==
  /\ Idle /\ fd \in DOMAIN files /\ nodes[files[fd].node].kind # "Directory"
  /\ files[fd].mode # mode
  /\ OnFile("InvalidMode", nodes, files)

\* ramfs can read and write every file, devfs asks the device.
CanRead(n) == nodes[n].kind = "CharDevice" => HasRead(nodes[n].device)
CanWrite(n) == nodes[n].kind = "CharDevice" => HasWrite(nodes[n].device)

DeviceUnsupported(fd) ==
  /\ \/ IoReady(fd, "Read") /\ ~CanRead(files[fd].node)
     \/ IoReady(fd, "Write") /\ ~CanWrite(files[fd].node)
  /\ OnFile("OperationNotSupported", nodes, files)

\* What a read into a buffer of k bytes returns; zero fills the buffer.
ReadCount(f, k) ==
  IF nodes[f.node].kind = "CharDevice" THEN k
  ELSE Available(nodes[f.node].data, f.pos, k)

MutantRead(fd, k) ==
  /\ IoReady(fd, "Read") /\ CanRead(files[fd].node)
  /\ files[fd].pos + k =< MaxLen
  /\ OnFile("ok", nodes, [files EXCEPT ![fd].pos = @ + k])

Read(fd, k) ==
  /\ IoReady(fd, "Read") /\ CanRead(files[fd].node)
  /\ files[fd].pos + k =< MaxLen
  /\ OnFile("ok", nodes, [files EXCEPT ![fd].pos = @ + ReadCount(files[fd], k)])

MutantWrite(fd, buffer) ==
  /\ IoReady(fd, "Write") /\ CanWrite(files[fd].node)
  /\ files[fd].pos + Len(buffer) =< MaxLen
  /\ LET n == files[fd].node
     IN OnFile("ok",
               IF nodes[n].kind = "CharDevice" THEN nodes
               ELSE [nodes EXCEPT ![n].data = Overwrite(@, Len(@), buffer)],
               [files EXCEPT ![fd].pos = @ + Len(buffer)])

\* null accepts and forgets everything.
Write(fd, buffer) ==
  /\ IoReady(fd, "Write") /\ CanWrite(files[fd].node)
  /\ files[fd].pos + Len(buffer) =< MaxLen
  /\ LET n == files[fd].node
     IN OnFile("ok",
               IF nodes[n].kind = "CharDevice" THEN nodes
               ELSE [nodes EXCEPT ![n].data = Overwrite(@, files[fd].pos, buffer)],
               [files EXCEPT ![fd].pos = @ + Len(buffer)])

MutantPrune ==
  /\ Idle
  /\ table' = Restrict(table, {k \in DOMAIN table : table[k] \in held})
  /\ UNCHANGED <<nodes, entries, mounts, files, held, next_fd, call, walk, segs,
                 stack, ret, panic>>

\* prune_directory_cache forgets the entries that are gone.
Prune ==
  /\ Idle
  /\ table' = Restrict(table, {k \in DOMAIN table : table[k] \in DOMAIN entries})
  /\ UNCHANGED <<nodes, entries, mounts, files, held, next_fd, call, walk, segs,
                 stack, ret, panic>>

\* A caller drops an entry it was given.
DropEntry(e) ==
  /\ Idle /\ e \in held
  /\ Settle(nodes, entries, mounts, files, held \ {e}, stack)
  /\ UNCHANGED <<table, next_fd, call, walk, segs, ret, panic>>

Hang == ~Running /\ UNCHANGED vars

-----------------------------------------------------------------------------

\* The steps of the call in progress.
Step ==
  \/ WalkNotADirectory \/ WalkDot \/ WalkDotDot \/ ParentWalkDots
  \/ WalkMount \/ WalkCached \/ WalkLookup \/ WalkMissing \/ ParentMissing
  \/ NotFound \/ StartParentWalk
  \/ StatFound \/ ReadFile \/ ReadDirectory
  \/ OpenDirectory \/ OpenFound \/ CreateUnsupported \/ CreateFile
  \/ MkdirExists \/ CreateDirectory \/ MountOver \/ MountAt

\* What callers may do next.
Caller ==
  \/ \E c \in Calls : Reject(c) \/ RelativePath(c) \/ MountRoot(c) \/ Begin(c)
  \/ \E fd \in 1..MaxFd :
       \/ BadDescriptor(fd) \/ Close(fd) \/ DirectoryIo(fd)
       \/ WrongMode(fd, "Read") \/ WrongMode(fd, "Write") \/ DeviceUnsupported(fd)
       \/ \E k \in ReadSizes : Read(fd, k)
       \/ \E b \in Buffers : Write(fd, b)
  \/ \E e \in held : DropEntry(e)
  \/ Prune

Next == Step \/ Caller \/ Hang

\* A call in progress runs on: nothing can preempt it for ever.
Spec == Init /\ [][Next]_vars /\ WF_vars(Step)

-----------------------------------------------------------------------------
(* Properties.                                                             *)

(* Every variable has its type; every reference leads to an object that    *)
(* exists.  In particular file_system()'s expect ("FsNodes which exist     *)
(* should have a valid mount in the mount table") holds for every node.    *)
TypeOK ==
  /\ DOMAIN nodes \subseteq Nat \ {NULL}
  /\ \A n \in DOMAIN nodes :
       /\ nodes[n].mount \in DOMAIN mounts
       /\ nodes[n].kind \in {"Directory", "File", "CharDevice"}
       /\ nodes[n].links \in Nat \ {0}
       /\ \A x \in DOMAIN nodes[n].kids : nodes[n].kids[x] \in DOMAIN nodes
  /\ DOMAIN entries \subseteq Nat \ {NULL}
  /\ \A e \in DOMAIN entries :
       /\ entries[e].node \in DOMAIN nodes
       /\ entries[e].parent \in DOMAIN entries \cup {NULL}
  /\ \A m \in DOMAIN mounts : mounts[m].root \in DOMAIN entries
  /\ \A f \in DOMAIN files : f < next_fd /\ files[f].node \in DOMAIN nodes
  /\ held \subseteq DOMAIN entries
  /\ Range(stack) \subseteq DOMAIN entries
  /\ walk \in Walks
  /\ panic \in {"none", "todo", "assert"}

(* "All directory entries with a live reference count are guaranteed to    *)
(* live in this table", under their own parent and name: so there is never *)
(* a second live entry for the same parent and name.                       *)
LiveEntriesCached ==
  \A e \in DOMAIN entries :
    LET key == <<entries[e].parent, entries[e].name>>
    IN key \in DOMAIN table /\ table[key] = e

(* A node has at most one live entry, however often its path is walked,    *)
(* dropped and walked again: entry ids can stand for the nodes, as         *)
(* DirectoryEntry's PartialEq and the mount table's comparisons assume.    *)
OneEntryPerNode ==
  \A e, f \in DOMAIN entries : entries[e].node = entries[f].node => e = f

(* The cache tells the truth: a live entry is a mount's root, whose name   *)
(* the directory below does not have, or what the file system would find   *)
(* under this name today.                                                  *)
CacheMatchesDisk ==
  \A e \in DOMAIN entries :
    LET p == entries[e].parent
        name == entries[e].name
    IN p # NULL =>
         IF \E m \in DOMAIN mounts : mounts[m].root = e THEN ~OnDisk(p, name)
         ELSE /\ OnDisk(p, name)
              /\ IF FileSystemOf(entries[p].node) = "ramfs"
                 THEN entries[e].node = NodeOf(p).kids[name]
                 ELSE NodeOf(e).device = name

(* When a call is about to create a name, the name is free on disk, in the *)
(* cache and in the mount table: what resolve_path did not find,           *)
(* resolve_path_parent_directory leads to.  So DirectoryCache::insert's    *)
(* assertion ("attempted to re-insert existing entry") never fires and     *)
(* mount's two FIXMEs (is the name taken, is it mounted) are not needed.   *)
CreatesFreeNames ==
  AtParent => ~Cached(Top, Seg) /\ ~OnDisk(Top, Seg) /\ MountsAt(Top, Seg) = {}

(* A node's link count is one for its name and one for each open file, at  *)
(* every moment (open, close and open's error path; the count is what is   *)
(* to decide about eviction).                                              *)
LinkCountExact ==
  \A n \in DOMAIN nodes :
    nodes[n].links = 1 + Cardinality({f \in DOMAIN files : files[f].node = n})

(* No descriptor's position is past the end of a ramfs file, so ramfs's    *)
(* write never leaves a hole and its read never meets offset > len.        *)
PositionInFile ==
  \A f \in DOMAIN files :
    LET n == nodes[files[f].node]
    IN n.kind = "File" => files[f].pos =< Len(n.data)

(* Every call returns or panics.                                           *)
CallsReturn == walk # "none" ~> (walk = "none" \/ ~Running)

(* IoError::NotAFile is for paths that are no file, "i.e. tried to open a  *)
(* directory as a file": no directory is ever open as a file, which the    *)
(* assertions of read and write rely on.                                   *)
OpenFilesAreNotDirectories ==
  \A f \in DOMAIN files : nodes[files[f].node].kind # "Directory"

(* FsNodeMetadata::size: "The current size of the file or directory".      *)
SizeIsCurrent ==
  \A n \in DOMAIN nodes : nodes[n].kind = "File" => nodes[n].size = Len(nodes[n].data)

=============================================================================
