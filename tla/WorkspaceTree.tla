--------------------------- MODULE WorkspaceTree ----------------------------
(***************************************************************************)
(* A project tree as filesystem_manifest.py and secure_fs.py see it, and   *)
(* the other processes that edit it while it is being admitted.            *)
(*                                                                         *)
(* A node stands for an inode: kind, number, size, link count and the      *)
(* version of its bytes.  Every edit is stamped with the edit counter, so  *)
(* equal versions mean equal bytes (what SHA-256 is used for) and an edit  *)
(* always moves the node's mtime or ctime.  Kinds other than "file" and    *)
(* "dir" are what the walk refuses: links, mount points, set-id entries    *)
(* and special files.                                                      *)
(***************************************************************************)
EXTENDS Integers, Sequences, SequencesExt, FiniteSetsExt

CONSTANTS
    Paths,         \* the names that may exist below the root
    Children,      \* per directory, its possible names, sorted
    Depth,         \* per path, its depth below the root
    Ignored,       \* the ".git" entries the walk skips
    Root,          \* the root directory, always there
    Sizes,         \* possible file sizes
    Original,      \* the tree before anybody edits it
    MaxEdits       \* bound on the edits of other processes

VARIABLES
    tree,          \* path -> node
    edits          \* edits made so far: stamps versions and inodes

Missing == [kind |-> "none", ino |-> 0, size |-> 0, nlink |-> 0, ver |-> 0]

Below(d) == {p \in Paths : p \in ToSet(Children[d])}

DirExists(d) == d = Root \/ (d \in Paths /\ tree[d].kind = "dir")

Parent(p) == CHOOSE d \in DOMAIN Children : p \in ToSet(Children[d])

TreeInit == tree = Original /\ edits = 0

Edited(p, node) ==
    /\ edits < MaxEdits
    /\ edits' = edits + 1
    /\ tree' = [q \in Paths |-> IF q = p THEN node
                                ELSE IF p \in DOMAIN Children /\ q \in Below(p) THEN Missing
                                ELSE tree[q]]

(* Another process writes the file in place, keeping its inode. *)
Rewrite(p) ==
    /\ tree[p].kind = "file"
    /\ \E s \in Sizes : Edited(p, [tree[p] EXCEPT !.size = s, !.ver = edits + 1])

(* It creates a file or something the walk refuses, or renames one over p. *)
Replace(p) ==
    /\ DirExists(Parent(p))
    /\ tree[p].kind # "dir"
    /\ \E s \in Sizes, k \in {"file", "link"} :
          Edited(p, [kind |-> k, ino |-> 100 + edits, size |-> s, nlink |-> 1,
                     ver |-> edits + 1])

(* It adds a second name for the file's inode outside the tree. *)
Hardlink(p) ==
    /\ tree[p].kind = "file"
    /\ Edited(p, [tree[p] EXCEPT !.nlink = 2])

Unlink(p) ==
    /\ tree[p].kind # "none"
    /\ Edited(p, Missing)

Edit == \E p \in Paths : Rewrite(p) \/ Replace(p) \/ Hardlink(p) \/ Unlink(p)

(* sorted(os.listdir(fd)) without the ".git" entries. *)
Listing(d) ==
    SelectSeq(Children[d], LAMBDA p : tree[p].kind # "none" /\ p \notin Ignored)

(***************************************************************************)
(* open_beneath: openat2 with RESOLVE_NO_SYMLINKS, or the component walk   *)
(* with O_NOFOLLOW on older kernels.  Either way it succeeds only when     *)
(* every component exists and none is a link.                              *)
(***************************************************************************)
OpenBeneath(p) == tree[p].kind \in {"file", "dir"} /\ DirExists(Parent(p))

(* fstat of an open descriptor: the inode that was opened, wherever its     *)
(* name went meanwhile.                                                     *)
Fstat(p, fd) ==
    IF tree[p].ino = fd.ino THEN tree[p] ELSE [fd EXCEPT !.nlink = 0]
=============================================================================
