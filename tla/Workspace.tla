----------------------------- MODULE Workspace ------------------------------
(***************************************************************************)
(* Admission of an untrusted project tree: build_manifest, create_snapshot *)
(* and its isolated worker (filesystem_manifest.py, snapshot.py,           *)
(* snapshot_worker.py, workspace_limits.py), while other processes keep    *)
(* editing the tree.                                                       *)
(*                                                                         *)
(* The worker walks the tree entry by entry (stat, open and compare, hash, *)
(* compare again), copies every file of that manifest into a scratch       *)
(* directory, walks the source a second time, walks the copy, and returns  *)
(* only if all three agree.  Its caller is create_snapshot itself or, when *)
(* isolated, a parent process with a timeout that may kill it anywhere.    *)
(***************************************************************************)
EXTENDS WorkspaceTree

CONSTANTS
    MaxFiles,      \* WorkspaceBudget.max_files
    MaxTotal,      \* max_total_bytes
    MaxFile,       \* max_file_bytes
    MaxDepth       \* max_depth

(* WorkspaceBudget.validate *)
BudgetValid ==
    /\ {MaxFiles, MaxTotal, MaxFile, MaxDepth} \subseteq Nat \ {0}
    /\ MaxFile <= MaxTotal

VARIABLES
    pc,            \* where the worker stands
    todo,          \* entries the walk still has to visit, in order
    fd,            \* node last stat'ed or opened
    digest,        \* version of the bytes last read through fd
    manifest,      \* entries of the walk under way
    before,        \* source_before
    copied,        \* entries of the copy, path -> size and version
    left,          \* entries of source_before still to be copied
    caller,        \* "direct", or where the isolating parent stands
    scratch,       \* directories on the scratch filesystem
    stuck,         \* history: a removal failed
    admitted,      \* history: the files there when source_before was complete
    lasting        \* history: those of them still there when the call returned

worker == <<pc, todo, fd, digest, manifest, before, copied, left>>
vars == <<tree, edits, pc, todo, fd, digest, manifest, before, copied, left,
          caller, scratch, stuck, admitted, lasting>>

Init ==
    /\ TreeInit
    /\ pc = "start"
    /\ todo = <<>> /\ fd = Missing /\ digest = 0
    /\ manifest = <<>> /\ before = <<>> /\ copied = <<>> /\ left = <<>>
    /\ caller = "idle" /\ scratch = {} /\ stuck = FALSE
    /\ admitted = {} /\ lasting = {}

Walking == {"stat", "opendir", "open", "hash", "recheck"}
Copying == {"copyopen", "copyread", "copycheck"}
SecondWalk == "parent" \in scratch

(* The files of a tree as a snapshot would hold them (for the histories). *)
FilesOf(t) ==
    {[path |-> p, size |-> t[p].size, ver |-> t[p].ver] :
        p \in {q \in Paths \ Ignored : t[q].kind = "file"}}

Files(m) == SelectSeq(m, LAMBDA e : e.kind = "file")
Bytes(m) == FoldFunction(LAMBDA e, n : e.size + n, 0, Files(m))

-----------------------------------------------------------------------------
(***************************************************************************)
(* Failure.  A violation before the scratch directory exists just raises;  *)
(* later ones remove what was written first, and an OSError of that        *)
(* removal is swallowed.                                                   *)
(***************************************************************************)
\* Mutant: what was written stays for inspection.
KeepsPartial(dirs) == scratch' = scratch /\ UNCHANGED stuck

Removed(dirs) ==
    \/ scratch' = scratch \ dirs /\ UNCHANGED stuck
    \/ scratch' = scratch /\ stuck' = (stuck \/ scratch \cap dirs # {})

Fail ==
    /\ pc' = "failed"
    /\ Removed({"parent"})
    /\ UNCHANGED <<todo, fd, digest, manifest, before, copied, left, admitted, lasting>>

(* Goes on with the worker; nothing on the scratch filesystem changes. *)
Keep == UNCHANGED <<scratch, stuck, admitted, lasting>>

-----------------------------------------------------------------------------
(* create_snapshot and create_snapshot_isolated, up to the first walk.      *)
StartWalk ==
    /\ pc' = "stat"
    /\ todo' = Listing(Root)
    /\ manifest' = <<>>
    /\ UNCHANGED <<fd, digest, before, copied, left>>

Create ==
    /\ caller = "idle"
    /\ caller' = "direct"
    /\ StartWalk
    /\ Keep /\ UNCHANGED <<tree, edits>>

(* mkdtemp, then the cgroup scope: when that cannot be made the call raises *)
(* before its try block and the empty directory stays.                      *)
CreateIsolated(scoped) ==
    /\ caller = "idle"
    /\ scratch' = {"worker"}
    /\ IF scoped THEN caller' = "waiting" /\ StartWalk
       ELSE caller' = "unscoped" /\ pc' = "failed"
            /\ UNCHANGED <<todo, fd, digest, manifest, before, copied, left>>
    /\ UNCHANGED <<tree, edits, stuck, admitted, lasting>>

-----------------------------------------------------------------------------
(* build_manifest's walk.                                                   *)

(* What stat lets through: within the path budget, a known kind, one link,  *)
(* and file count and bytes including this entry within the budget.         *)
WithinBudget(p) ==
    /\ Depth[p] <= MaxDepth
    /\ Len(manifest) + 1 <= MaxFiles + MaxFiles
    /\ tree[p].kind = "file" =>
         /\ tree[p].size <= MaxFile
         /\ Len(Files(manifest)) + 1 <= MaxFiles
         /\ Bytes(manifest) + tree[p].size <= MaxTotal

Stat(p) ==
    /\ pc = "stat" /\ todo # <<>> /\ p = Head(todo)
    /\ IF tree[p].kind \in {"file", "dir"} /\ WithinBudget(p)
          /\ (tree[p].kind = "file" => tree[p].nlink <= 1)
       THEN /\ pc' = IF tree[p].kind = "dir" THEN "opendir" ELSE "open"
            /\ fd' = tree[p]
            /\ UNCHANGED <<todo, digest, manifest, before, copied, left>>
            /\ Keep
       ELSE Fail

(* The directory must still be the inode stat saw; its names are read once. *)
OpenDir(p) ==
    /\ pc = "opendir" /\ p = Head(todo)
    /\ IF tree[p].kind = "dir" /\ tree[p].ino = fd.ino
       THEN /\ pc' = "stat"
            /\ todo' = Listing(p) \o Tail(todo)
            /\ manifest' = Append(manifest, [path |-> p, kind |-> "dir", ino |-> fd.ino,
                                             size |-> 0, ver |-> 0])
            /\ UNCHANGED <<fd, digest, before, copied, left>>
            /\ Keep
       ELSE Fail

SameFile(node) ==
    node.kind = "file" /\ node.ino = fd.ino /\ node.size = fd.size /\ node.nlink = 1

OpenFile(p) ==
    /\ pc = "open" /\ p = Head(todo)
    /\ IF SameFile(tree[p])
       THEN /\ pc' = "hash"
            /\ fd' = tree[p]
            /\ UNCHANGED <<todo, digest, manifest, before, copied, left>>
            /\ Keep
       ELSE Fail

(* _hash_fd.  A write in the middle of it moves ctime, so the recheck fails *)
(* whatever mixture was read: reading one version loses nothing.            *)
Hash(p) ==
    /\ pc = "hash" /\ p = Head(todo)
    /\ pc' = "recheck"
    /\ digest' = Fstat(p, fd).ver
    /\ UNCHANGED <<todo, fd, manifest, before, copied, left>>
    /\ Keep

(* Size, mtime and ctime have not moved since the open.                     *)
Untouched(p) == tree[p] = fd

Recheck(p) ==
    /\ pc = "recheck" /\ p = Head(todo)
    /\ IF Untouched(p)
       THEN /\ pc' = "stat"
            /\ todo' = Tail(todo)
            /\ manifest' = Append(manifest, [path |-> p, kind |-> "file", ino |-> fd.ino,
                                             size |-> fd.size, ver |-> digest])
            /\ UNCHANGED <<fd, digest, before, copied, left>>
            /\ Keep
       ELSE Fail

-----------------------------------------------------------------------------
(***************************************************************************)
(* The end of the first walk: free space, the scratch directories, the     *)
(* directories of the copy.                                                *)
(***************************************************************************)
Admit(enough) ==
    /\ pc = "stat" /\ todo = <<>> /\ ~SecondWalk
    /\ before' = manifest
    /\ admitted' = FilesOf(tree)
    /\ IF enough
       THEN /\ pc' = "copyopen"
            /\ scratch' = scratch \cup {"parent"}
            /\ left' = Files(manifest)
       ELSE pc' = "failed" /\ UNCHANGED <<scratch, left>>
    /\ UNCHANGED <<todo, fd, digest, manifest, copied, stuck, lasting>>

(* _copy_file, entry by entry: open and compare with the manifest ...       *)
CopyOpen ==
    /\ pc = "copyopen" /\ left # <<>>
    /\ LET e == Head(left) IN
       IF /\ OpenBeneath(e.path)
          /\ tree[e.path].ino = e.ino /\ tree[e.path].size = e.size
          /\ tree[e.path].nlink = 1
       THEN /\ pc' = "copyread"
            /\ fd' = tree[e.path]
            /\ UNCHANGED <<todo, digest, manifest, before, copied, left>>
            /\ Keep
       ELSE Fail

(* ... read, never writing more than the admitted size ...                  *)
CopyRead ==
    /\ pc = "copyread"
    /\ LET e == Head(left)
           now == Fstat(e.path, fd) IN
       IF now.size <= e.size
       THEN /\ pc' = "copycheck"
            /\ digest' = now.ver
            /\ copied' = Append(copied, [path |-> e.path, kind |-> "file",
                                         size |-> now.size, ver |-> now.ver])
            /\ UNCHANGED <<todo, fd, manifest, before, left>>
            /\ Keep
       ELSE Fail

(* ... compare the digest, and the inode and size once more.                *)
CopyMatches(e) == digest = e.ver /\ Fstat(e.path, fd).size = e.size

CopyCheck ==
    /\ pc = "copycheck"
    /\ LET e == Head(left) IN
       IF CopyMatches(e)
       THEN /\ pc' = "copyopen"
            /\ left' = Tail(left)
            /\ UNCHANGED <<todo, fd, digest, manifest, before, copied>>
            /\ Keep
       ELSE Fail

(* The copy is made read-only and the source is walked again. *)
Reread ==
    /\ pc = "copyopen" /\ left = <<>>
    /\ StartWalk
    /\ Keep

(***************************************************************************)
(* The end of the second walk: the identities of every entry must be those *)
(* of source_before (_identity_index), and the walk of the copy must give  *)
(* the same paths, kinds, sizes and digests (_content_hash).               *)
(***************************************************************************)
\* Mutant: only the copy is compared.
AnyIdentity == TRUE

SameIdentity == manifest = before

Shape(m) == {[path |-> e.path, size |-> e.size, ver |-> e.ver] : e \in ToSet(Files(m))}

Finish ==
    /\ pc = "stat" /\ todo = <<>> /\ SecondWalk
    /\ IF SameIdentity /\ Shape(copied) = Shape(before)
       THEN /\ pc' = "returned"
            /\ lasting' = admitted \cap FilesOf(tree)
            /\ UNCHANGED <<todo, fd, digest, manifest, before, copied, left>>
            /\ UNCHANGED <<scratch, stuck, admitted>>
       ELSE Fail

(* require_before: the deadline passes in a walk or a copy. *)
Expire ==
    /\ pc \in Walking \cup Copying
    /\ Fail

WorkerStep ==
    /\ \/ \E p \in Paths : Stat(p) \/ OpenDir(p) \/ OpenFile(p) \/ Hash(p) \/ Recheck(p)
       \/ \E enough \in BOOLEAN : Admit(enough)
       \/ CopyOpen \/ CopyRead \/ CopyCheck \/ Reread \/ Finish \/ Expire
    /\ UNCHANGED <<tree, edits, caller>>

-----------------------------------------------------------------------------
(* A resource limit or the cgroup ends the worker where it stands: nothing  *)
(* is cleaned up by it.                                                     *)
WorkerKilled ==
    /\ caller = "waiting" /\ pc \in Walking \cup Copying
    /\ pc' = "killed"
    /\ UNCHANGED <<todo, fd, digest, manifest, before, copied, left>>
    /\ UNCHANGED <<tree, edits, caller, scratch, stuck, admitted, lasting>>

(* The parent's own timeout does the same. It then removes its directory. *)
ParentTimeout ==
    /\ caller = "waiting" /\ pc \in Walking \cup Copying \cup {"returned", "failed", "killed"}
    /\ caller' = "failed"
    /\ pc' = "killed"
    /\ Removed({"parent", "worker"})
    /\ UNCHANGED <<todo, fd, digest, manifest, before, copied, left, tree, edits, admitted, lasting>>

(* The worker's exit: one line of output, a path below the worker root and  *)
(* the source it was given, or everything is removed.                       *)
Collect ==
    /\ caller = "waiting" /\ pc \in {"returned", "failed", "killed"}
    /\ IF pc = "returned"
       THEN caller' = "returned" /\ UNCHANGED <<scratch, stuck>>
       ELSE caller' = "failed" /\ Removed({"parent", "worker"})
    /\ UNCHANGED <<worker, tree, edits, admitted, lasting>>

(* destroy_snapshot, whose removal may raise. *)
HasSnapshot == pc = "returned" /\ caller \in {"direct", "returned"}

Destroy ==
    /\ HasSnapshot
    /\ pc' = "destroyed"
    /\ Removed({"parent", "worker"})
    /\ UNCHANGED <<todo, fd, digest, manifest, before, copied, left, caller, tree, edits, admitted, lasting>>

EditTree ==
    /\ pc \notin {"start", "failed", "killed", "destroyed"}
    /\ Edit
    /\ UNCHANGED <<worker, caller, scratch, stuck, admitted, lasting>>

Next ==
    \/ Create \/ (\E scoped \in BOOLEAN : CreateIsolated(scoped))
    \/ WorkerStep \/ WorkerKilled \/ ParentTimeout \/ Collect \/ Destroy
    \/ EditTree

Spec == Init /\ [][Next]_vars

-----------------------------------------------------------------------------
(* A snapshot that is handed out is the project tree at one instant, the    *)
(* end of the first walk, whoever edited it during the walks and the copy:  *)
(* every file in it was there then with those bytes, and no file that was   *)
(* there then and was still there at the end is missing.  (A file that came *)
(* and went in between may be.)                                             *)
SnapshotIsInstant ==
    HasSnapshot => Shape(copied) \subseteq admitted /\ lasting \subseteq Shape(copied)

(* A call that fails leaves no copy of the tree on the scratch filesystem,  *)
(* whether the worker failed, was killed or outlived its parent's patience; *)
(* only a removal that itself failed leaves one, and only a scope that      *)
(* could not be made leaves the empty worker directory.  Until then the     *)
(* copy never holds more than the budget admits, however the files grow     *)
(* while they are copied.                                                   *)
ScratchIsBounded ==
    LET over == \/ caller = "direct" /\ pc \in {"failed", "destroyed"}
                \/ caller \in {"failed", "unscoped"}
                \/ pc = "destroyed" IN
    /\ over /\ ~stuck => scratch = IF caller = "unscoped" THEN {"worker"} ELSE {}
    /\ Len(copied) <= MaxFiles
    /\ Bytes(copied) <= MaxTotal
    /\ \A i \in DOMAIN copied : copied[i].size <= MaxFile /\ Depth[copied[i].path] <= MaxDepth
=============================================================================
