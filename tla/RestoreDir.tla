----------------------------- MODULE RestoreDir ------------------------------
(***************************************************************************)
(* The directory walk of `btrfs restore` (cmds-restore.c): cmd_restore    *)
(* picks the tree and the first directory (-r, -d with find_first_dir),   *)
(* then search_dir walks the DIR_INDEX items of a directory, creates each *)
(* regular file and copies it, and recurses into each directory, switching *)
(* to another fs tree when the entry names a ROOT_ITEM (a subvolume or a  *)
(* snapshot).                                                              *)
(*                                                                         *)
(* The recursion of search_dir is a stack of frames, one per call, each   *)
(* with its own path and loop counter.  The DIR_INDEX items of a          *)
(* directory are a sequence in key order, in which a "leaf" element marks *)
(* a leaf boundary: next_leaf and a `continue` that costs one turn of the  *)
(* loop.  copy_file is abstracted to its result, given per file by the    *)
(* image (RestoreCopy models it).  The output directory is a function     *)
(* from paths (sequences of names) to "dir" or "file".                    *)
(***************************************************************************)
EXTENDS Integers, Sequences, FiniteSets

CONSTANTS
  Cases,       \* pairs [img, opt] of an image and the command line:
               \*   img.roots    root objectid -> [snap, ok, dirs]: snap TRUE
               \*                for a snapshot (root key offset # 0), ok
               \*                FALSE when btrfs_read_fs_root fails, dirs a
               \*                function dir objectid -> DIR_INDEX elements
               \*   img.bad      <<root, ino>> whose copy_file fails
               \*   img.out0     the output directory before the run
               \*   img.nowrite  paths that open and mkdir refuse
               \*   img.mounted  check_mounted finds the device mounted
               \*   img.supers   mirror -> [chunk, root]: open_ctree_fs_info
               \*                reads the chunk tree of that superblock, and
               \*                the tree root it names is readable
               \*   img.tlocok   the tree root at the -t location is readable
               \*   img.fslocok  the block at the -f location is readable
               \*   opt          [snaps (-s), overwrite (-o), ignore (-i),
               \*                 rootid (-r, 0 if absent), finddir (-d),
               \*                 super (-u), tloc (-t given), fsloc (-f given)]
  FsTree,      \* BTRFS_FS_TREE_OBJECTID
  FirstFree,   \* BTRFS_FIRST_FREE_OBJECTID, the root directory of a tree
  LoopMax,     \* the 1024 of "if (loops++ >= 1024)"
  StackMax,    \* the deepest recursion the C stack holds
  SuperMax     \* BTRFS_SUPER_MIRROR_MAX

VARIABLES
  img, opt,   \* the case being run
  stack,      \* the search_dir frames: [root, dir, path, slot, loops]
  out,        \* the output directory
  restored,   \* the paths copy_file filled successfully
  pc,         \* "start", "open", "walk", "done", "overflow"
  ret         \* the exit value of cmd_restore

vars == <<img, opt, stack, out, restored, pc, ret>>

Top == stack[Len(stack)]

(* The DIR_INDEX elements of directory d of root r.                       *)
Elems(r, d) == IF d \in DOMAIN img.roots[r].dirs THEN img.roots[r].dirs[d] ELSE <<>>

Parent(p) == SubSeq(p, 1, Len(p) - 1)
ParentIsDir(p) == Parent(p) \in DOMAIN out /\ out[Parent(p)] = "dir"

(* open(path_name, O_CREAT|O_WRONLY) succeeds.                            *)
OpenOK(p) == p \notin img.nowrite /\ ParentIsDir(p) /\ ~(p \in DOMAIN out /\ out[p] = "dir")

(* mkdir(path_name): 0, EEXIST (tolerated), or another error.             *)
MkdirResult(p) ==
  IF p \in DOMAIN out THEN "eexist"
  ELSE IF p \notin img.nowrite /\ ParentIsDir(p) THEN "ok" ELSE "fail"

RootOK(r) == r \in DOMAIN img.roots /\ img.roots[r].ok

(* find_first_dir: the objectid of the first DIR_INDEX item of the tree,   *)
(* -1 when there is none.                                                  *)
find_first_dir(r) ==
  LET D == {d \in DOMAIN img.roots[r].dirs :
              \E i \in DOMAIN img.roots[r].dirs[d] : img.roots[r].dirs[d][i].kind = "entry"}
  IN IF D = {} THEN -1 ELSE CHOOSE d \in D : \A d2 \in D : d <= d2

Frame(r, d, p) == [root |-> r, dir |-> d, path |-> p, slot |-> 1, loops |-> 0]

Init ==
  /\ \E c \in Cases : img = c.img /\ opt = c.opt
  /\ stack = <<>>
  /\ out = img.out0
  /\ restored = {}
  /\ pc = "start"
  /\ ret = 0

(* The superblock open_fs settles on: the first mirror from -u on whose   *)
(* chunk tree open_ctree_fs_info reads, -1 when there is none.            *)
OpenMirror ==
  LET M == {i \in opt.super..(SuperMax - 1) : img.supers[i].chunk}
  IN IF M = {} THEN -1 ELSE CHOOSE i \in M : \A j \in M : i <= j

(* open_fs returns the fs root: a superblock opened, the tree root read   *)
(* (at the -t location if given, else where that superblock points; the  *)
(* other mirrors' roots are not tried), and the fs tree's root item read. *)
open_fs ==
  /\ OpenMirror # -1
  /\ IF opt.tloc THEN img.tlocok ELSE img.supers[OpenMirror].root
  /\ RootOK(FsTree)

Exit(r) == pc' = "done" /\ ret' = r /\ UNCHANGED stack

(* cmd_restore up to the choice of the tree: the device must not be      *)
(* mounted (exit 1), open_fs must give a root (exit 1), and with -f the   *)
(* block at fs_location replaces the fs root's node; when it cannot be    *)
(* read cmd_restore goes to out with ret still 0 from check_mounted.      *)
OpenDevice ==
  /\ pc = "start"
  /\ CASE img.mounted \/ ~open_fs     -> Exit(1)
       [] opt.fsloc /\ ~img.fslocok   -> Exit(0)
       [] OTHER                       -> pc' = "open" /\ UNCHANGED <<stack, ret>>
  /\ UNCHANGED <<img, opt, out, restored>>

(* cmd_restore after open_fs: -r reads the chosen tree (exit 1 when it    *)
(* cannot be read), -d looks for the first directory (exit 1 when there   *)
(* is none), then search_dir starts at the output directory.              *)
cmd_restore ==
  /\ pc = "open"
  /\ LET r == IF opt.rootid # 0 THEN opt.rootid ELSE FsTree
         d == IF opt.finddir THEN find_first_dir(r) ELSE FirstFree
     IN IF ~RootOK(r) \/ d = -1
        THEN Exit(1)
        ELSE pc' = "walk" /\ stack' = <<Frame(r, d, <<>>)>> /\ UNCHANGED ret
  /\ UNCHANGED <<img, opt, out, restored>>

(* The top frame after a change of its own fields.                        *)
SetTop(f) == stack' = [stack EXCEPT ![Len(stack)] = f]

(* goto next.                                                              *)
Next_entry(f) == SetTop([f EXCEPT !.slot = @ + 1])

(* A failure: with -i the entry is skipped, otherwise every search_dir    *)
(* call returns the error and so does cmd_restore.                        *)
Fail(f, r) ==
  IF opt.ignore THEN Next_entry(f) /\ UNCHANGED <<pc, ret>>
  ELSE stack' = <<>> /\ pc' = "done" /\ ret' = r

(* search_dir returns r: the caller goes on at its next entry, or         *)
(* cmd_restore returns r.                                                  *)
Return(r) ==
  IF Len(stack) = 1
  THEN stack' = <<>> /\ pc' = "done" /\ ret' = r
  ELSE LET caller == stack[Len(stack) - 1]
       IN /\ stack' = Append(SubSeq(stack, 1, Len(stack) - 2), [caller EXCEPT !.slot = @ + 1])
          /\ UNCHANGED <<pc, ret>>

(* A regular file: skipped when it exists and -o is absent; otherwise     *)
(* opened (created) and filled by copy_file.                              *)
FileEntry(f, e) ==
  LET p == Append(f.path, e.name) IN
  IF ~opt.overwrite /\ p \in DOMAIN out
  THEN Next_entry([f EXCEPT !.loops = 0]) /\ UNCHANGED <<out, restored, pc, ret>>
  ELSE IF ~OpenOK(p)
  THEN Fail(f, -1) /\ UNCHANGED <<out, restored>>
  ELSE /\ out' = [q \in DOMAIN out \cup {p} |-> IF q = p THEN "file" ELSE out[q]]
       /\ IF <<f.root, e.obj>> \in img.bad
          THEN Fail([f EXCEPT !.loops = 0], -1) /\ UNCHANGED restored
          ELSE /\ Next_entry([f EXCEPT !.loops = 0])
               /\ restored' = restored \cup {p}
               /\ UNCHANGED <<pc, ret>>

(* Descend into directory d of root r at path p: mkdir, then the          *)
(* recursive search_dir.                                                   *)
Descend(f, r, d, p) ==
  LET m == MkdirResult(p) IN
  IF m = "fail" THEN Fail(f, -1) /\ UNCHANGED out
  ELSE /\ out' = IF m = "ok" THEN [q \in DOMAIN out \cup {p} |-> IF q = p THEN "dir" ELSE out[q]]
                 ELSE out
       /\ IF Len(stack) = StackMax
          THEN pc' = "overflow" /\ UNCHANGED <<stack, ret>>
          ELSE /\ stack' = Append([stack EXCEPT ![Len(stack)].loops = 0], Frame(r, d, p))
               /\ UNCHANGED <<pc, ret>>

(* Mutant: the snapshot's entry for itself followed.                      *)
DirEntry_noself(f, e) ==
  LET p == Append(f.path, e.name) IN
  /\ IF ~e.isroot THEN Descend(f, f.root, e.obj, p)
     ELSE IF ~RootOK(e.obj) THEN Fail(f, -1) /\ UNCHANGED out
     ELSE IF img.roots[e.obj].snap /\ ~opt.snaps THEN Next_entry(f) /\ UNCHANGED <<out, pc, ret>>
     ELSE Descend(f, e.obj, FirstFree, p)
  /\ UNCHANGED restored

(* Mutant: location.objectid not reset to the new tree's root directory. *)
DirEntry_keeploc(f, e) ==
  LET p == Append(f.path, e.name) IN
  /\ IF ~e.isroot THEN Descend(f, f.root, e.obj, p)
     ELSE IF e.obj = f.root THEN Next_entry(f) /\ UNCHANGED <<out, pc, ret>>
     ELSE IF ~RootOK(e.obj) THEN Fail(f, -1) /\ UNCHANGED out
     ELSE IF img.roots[e.obj].snap /\ ~opt.snaps THEN Next_entry(f) /\ UNCHANGED <<out, pc, ret>>
     ELSE Descend(f, e.obj, e.obj, p)
  /\ UNCHANGED restored

(* A directory: a ROOT_ITEM location switches to that tree's root         *)
(* directory, skipping the snapshot's entry for itself, a tree that       *)
(* cannot be read, and snapshots unless -s.                                *)
DirEntry(f, e) ==
  LET p == Append(f.path, e.name) IN
  /\ IF ~e.isroot THEN Descend(f, f.root, e.obj, p)
     ELSE IF e.obj = f.root THEN Next_entry(f) /\ UNCHANGED <<out, pc, ret>>
     ELSE IF ~RootOK(e.obj) THEN Fail(f, -1) /\ UNCHANGED out
     ELSE IF img.roots[e.obj].snap /\ ~opt.snaps THEN Next_entry(f) /\ UNCHANGED <<out, pc, ret>>
     ELSE Descend(f, e.obj, FirstFree, p)
  /\ UNCHANGED restored

(* Mutant: the loop guard tested with > instead of >=.                    *)
search_dir_offbyone ==
  /\ pc = "walk"
  /\ LET f0 == Top
         f == [f0 EXCEPT !.loops = @ + 1]
         es == Elems(f0.root, f0.dir)
     IN IF f0.loops > LoopMax \/ f0.slot > Len(es)
        THEN Return(0) /\ UNCHANGED <<out, restored>>
        ELSE LET e == es[f0.slot] IN
             CASE e.kind = "leaf" -> Next_entry(f) /\ UNCHANGED <<out, restored, pc, ret>>
               [] e.type = "reg" -> FileEntry(f, e)
               [] e.type = "dir" -> DirEntry(f, e)
               [] OTHER -> Next_entry(f) /\ UNCHANGED <<out, restored, pc, ret>>
  /\ UNCHANGED <<img, opt>>

(* One turn of the while (leaf) loop of the search_dir call on top.       *)
search_dir ==
  /\ pc = "walk"
  /\ LET f0 == Top
         f == [f0 EXCEPT !.loops = @ + 1]
         es == Elems(f0.root, f0.dir)
     IN IF f0.loops >= LoopMax \/ f0.slot > Len(es)
        THEN Return(0) /\ UNCHANGED <<out, restored>>
        ELSE LET e == es[f0.slot] IN
             CASE e.kind = "leaf" -> Next_entry(f) /\ UNCHANGED <<out, restored, pc, ret>>
               [] e.type = "reg" -> FileEntry(f, e)
               [] e.type = "dir" -> DirEntry(f, e)
               [] OTHER -> Next_entry(f) /\ UNCHANGED <<out, restored, pc, ret>>
  /\ UNCHANGED <<img, opt>>

Next == OpenDevice \/ cmd_restore \/ search_dir

(* restore is one thread: the next statement always runs.                *)
Spec == Init /\ [][Next]_vars /\ WF_vars(Next)

-----------------------------------------------------------------------------
(* Reference (spec 4.11): the regular files under directory d of tree r,  *)
(* as records [path, root, ino], following directories and the trees     *)
(* that ROOT_ITEM entries name, except a snapshot's entry for itself, a   *)
(* tree that cannot be read, and snapshots unless -s; n bounds the depth. *)
RECURSIVE Expected(_, _, _, _)
Expected(r, d, p, n) ==
  IF n = 0 THEN {}
  ELSE LET es == Elems(r, d) IN
  UNION {
    LET e == es[i]
        q == Append(p, e.name)
    IN CASE e.kind = "leaf" -> {}
         [] e.type = "reg" -> {[path |-> q, root |-> r, ino |-> e.obj]}
         [] e.type = "dir" /\ ~e.isroot -> Expected(r, e.obj, q, n - 1)
         [] e.type = "dir" /\ e.obj # r /\ RootOK(e.obj)
              /\ (opt.snaps \/ ~img.roots[e.obj].snap) -> Expected(e.obj, FirstFree, q, n - 1)
         [] OTHER -> {}
    : i \in DOMAIN es}

StartRoot == IF opt.rootid # 0 THEN opt.rootid ELSE FsTree

(* The proper prefixes of a path.                                         *)
Prefixes(p) == {SubSeq(p, 1, k) : k \in 1..(Len(p) - 1)}

(* Why a file may be missing from the output although cmd_restore        *)
(* returned 0: it existed before and -o is absent, or, with -i, a         *)
(* directory above it could not be made (refused, or a file is in the     *)
(* way), or the file could not be opened or copied.                       *)
Excused(x) ==
  \/ ~opt.overwrite /\ x.path \in DOMAIN img.out0
  \/ opt.ignore /\
       \/ \E q \in Prefixes(x.path) :
            IF q \in DOMAIN img.out0 THEN img.out0[q] = "file" ELSE q \in img.nowrite
       \/ x.path \in img.nowrite
       \/ x.path \in DOMAIN img.out0 /\ img.out0[x.path] = "dir"
       \/ <<x.root, x.ino>> \in img.bad

TypeOK ==
  /\ pc \in {"start", "open", "walk", "done", "overflow"}
  /\ Len(stack) \in 0..StackMax
  /\ \A i \in DOMAIN stack : stack[i].loops \in 0..LoopMax
  /\ restored \subseteq DOMAIN out
  /\ ret \in {-1, 0, 1}

(* The refinement mapping: the files RestoreDir should restore and those  *)
(* a flag excuses, its restored set, and its exit as the abstract status; *)
(* a C stack overflow is no status of the abstract spec.                   *)
Wanted ==
  IF StartRoot \notin DOMAIN img.roots THEN {}
  ELSE Expected(StartRoot, IF opt.finddir THEN find_first_dir(StartRoot) ELSE FirstFree,
                <<>>, StackMax)

Abstract == INSTANCE RestoreSpec WITH
              want     <- {x.path : x \in Wanted},
              excused  <- {x.path : x \in {y \in Wanted : Excused(y)}},
              restored <- restored,
              status   <- CASE pc \in {"start", "open", "walk"} -> "running"
                           [] pc = "done" /\ ret = 0     -> "ok"
                           [] pc = "done" /\ ret # 0     -> "error"
                           [] OTHER                      -> "crash"

(* cmd_restore and search_dir implement RestoreSpec: every file they fill  *)
(* is a regular file of the chosen tree (at every step, not only at the    *)
(* end), they exit 0 only when every file spec 4.11 asks for is restored  *)
(* or excused by -o or -i, and they always exit, without overflowing the  *)
(* stack.                                                                  *)
RestoreRefinement == Abstract!Spec

(* search_dir never calls itself, directly or through other calls, on a  *)
(* directory of a tree that a call below it on the stack is walking: the  *)
(* recursion follows no cycle, so it ends within as many calls as there   *)
(* are directories.                                                       *)
NoRecursionCycle ==
  \A i, j \in DOMAIN stack :
    i < j => <<stack[i].root, stack[i].dir>> # <<stack[j].root, stack[j].dir>>
=============================================================================
