---------------------------- MODULE VfsRefinement ----------------------------
(***************************************************************************)
(* Vfs implements FileTree: the refinement mapping.                        *)
(***************************************************************************)
EXTENDS Vfs

\* Nodes of devices come and go; what they stand for is the device.
TreeNodes(ns) == {n \in DOMAIN ns : ns[n].kind # "CharDevice"}
PlaceOf(ns, n) ==
  IF n \in TreeNodes(ns) THEN <<"node", n>> ELSE <<"device", ns[n].device>>

TreeOf(ns, ms) ==
  [n \in TreeNodes(ns) |-> [kind |-> ns[n].kind, fs |-> ms[ns[n].mount].fs,
                            data |-> ns[n].data, kids |-> ns[n].kids]]

RootOf(es, ms) == IF ms = <<>> THEN NULL ELSE es[ms[1].root].node

\* The root entry of a mount names the directory and the name it is mounted on.
MountPoint(es, ms, m) ==
  LET r == es[ms[m].root] IN <<es[r.parent].node, r.name>>
PointsOf(es, ms) ==
  [k \in {MountPoint(es, ms, m) : m \in 2..Len(ms)} |->
     es[ms[CHOOSE m \in 2..Len(ms) : MountPoint(es, ms, m) = k].root].node]

FilesOf(ns, fs) ==
  [f \in DOMAIN fs |->
     [at |-> PlaceOf(ns, fs[f].node), mode |-> fs[f].mode, pos |-> fs[f].pos]]

FileTree ==
  INSTANCE FileTree WITH
    Ids <- 1..MaxNodes,
    Fds <- 1..MaxFd,
    tree <- TreeOf(nodes, mounts),
    root <- RootOf(entries, mounts),
    points <- PointsOf(entries, mounts),
    files <- FilesOf(nodes, files)

(* The directory cache and the reference counts cannot be noticed: every   *)
(* call leaves the trees, the mount points and the open files, and returns *)
(* what a file system without a cache, whose calls are one step, would;    *)
(* nothing changes before a call's last step.                              *)
ImplementsFileTree == FileTree!Spec

=============================================================================
