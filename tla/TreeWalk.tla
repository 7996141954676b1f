------------------------------ MODULE TreeWalk ------------------------------
(***************************************************************************)
(* The read-only walk over the items of a tree that restore does in       *)
(* copy_file, search_dir and find_first_dir: btrfs_search_slot without    *)
(* COW or insertion (ctree.c), its generic_bin_search and read_node_slot, *)
(* restore's own next_leaf (cmds-restore.c), and the callers' loop that   *)
(* reads the items of a leaf and, at its end, calls next_leaf until a     *)
(* leaf is held ("do { next_leaf } while (!leaf)").                       *)
(*                                                                         *)
(* A tree T is a record: its root block, and for each block its level,    *)
(* its keys (item keys in a leaf, key_ptr keys in a node), its child      *)
(* pointers, and the set ok of blocks that read_tree_block can read.  A   *)
(* key is an integer: btrfs_comp_keys is a total order and only the order *)
(* matters here.  The blocks are checked by check_block elsewhere          *)
(* (LeafCheck); here every block that reads is well formed.               *)
(***************************************************************************)
EXTENDS Integers, Sequences, SequencesExt

CONSTANTS
  Trees,   \* the trees a restore may walk
  Keys     \* the keys copy_file, search_dir and find_first_dir search for

VARIABLES
  tree,    \* the tree walked
  key,     \* the key searched for
  path,    \* the btrfs_path: nodes and slots per level
  items,   \* the keys of the items the caller's loop has read, in order
  pc,      \* "search", "items", "next_leaf", "done", "crash"
  ret      \* the caller's return value once done

vars == <<tree, key, path, items, pc, ret>>

BTRFS_MAX_LEVEL == 8
Null == 0            \* a NULL extent_buffer; blocks are numbered from 1
EIO == -5
Segfault == -999     \* a NULL extent_buffer dereferenced

(* The path of btrfs_alloc_path: no node held, every slot 0.               *)
EmptyPath == [nodes |-> [l \in 0..BTRFS_MAX_LEVEL - 1 |-> Null],
              slots |-> [l \in 0..BTRFS_MAX_LEVEL - 1 |-> 0]]

(* generic_bin_search over the keys ks: 0 and the slot of k, or 1 and     *)
(* the slot where k would be inserted.                                     *)
generic_bin_search(ks, k) ==
  LET RECURSIVE Loop(_, _)
      Loop(low, high) ==
        IF low >= high THEN [ret |-> 1, slot |-> low]
        ELSE LET mid == (low + high) \div 2 IN
             CASE ks[mid + 1] < k -> Loop(mid + 1, high)
               [] ks[mid + 1] > k -> Loop(low, mid)
               [] OTHER -> [ret |-> 0, slot |-> mid]
  IN Loop(0, Len(ks))

(* read_node_slot: the child at slot, or NULL past the pointers or when    *)
(* read_tree_block fails.  Callers guarantee parent is not NULL.           *)
read_node_slot(T, parent, slot) ==
  IF slot < 0 \/ slot >= Len(T.keys[parent]) THEN Null
  ELSE IF T.ptrs[parent][slot + 1] \in T.ok THEN T.ptrs[parent][slot + 1]
  ELSE Null

(* Mutant: a child that cannot be read gives -1 instead of -EIO.        *)
RECURSIVE SearchFrom_minus1(_, _, _, _)
SearchFrom_minus1(T, k, b, p) ==
  LET lv == T.level[b]
      r  == generic_bin_search(T.keys[b], k)
      s  == IF lv # 0 /\ r.ret # 0 /\ r.slot > 0 THEN r.slot - 1 ELSE r.slot
      q  == [nodes |-> [p.nodes EXCEPT ![lv] = b],
             slots |-> [p.slots EXCEPT ![lv] = s]]
  IN IF lv = 0 THEN [ret |-> r.ret, path |-> q]
     ELSE IF read_node_slot(T, b, s) = Null THEN [ret |-> -1, path |-> q]
     ELSE SearchFrom_minus1(T, k, read_node_slot(T, b, s), q)

(* btrfs_search_slot with cow = 0, ins_len = 0 and lowest_level = 0, from *)
(* block b with the path p built so far.  In a node the slot steps back   *)
(* to the child whose range holds k; a child that cannot be read is     *)
(* -EIO.                                                                   *)
RECURSIVE SearchFrom(_, _, _, _)
SearchFrom(T, k, b, p) ==
  LET lv == T.level[b]
      r  == generic_bin_search(T.keys[b], k)
      s  == IF lv # 0 /\ r.ret # 0 /\ r.slot > 0 THEN r.slot - 1 ELSE r.slot
      q  == [nodes |-> [p.nodes EXCEPT ![lv] = b],
             slots |-> [p.slots EXCEPT ![lv] = s]]
  IN IF lv = 0 THEN [ret |-> r.ret, path |-> q]
     ELSE IF read_node_slot(T, b, s) = Null THEN [ret |-> EIO, path |-> q]
     ELSE SearchFrom(T, k, read_node_slot(T, b, s), q)

btrfs_search_slot(T, k) == SearchFrom(T, k, T.root, EmptyPath)

(* next_leaf's first loop: the lowest level above the leaf holding a     *)
(* node, or BTRFS_MAX_LEVEL.                                               *)
LowestHeld(p) ==
  LET H == {l \in 1..BTRFS_MAX_LEVEL - 1 : p.nodes[l] # Null}
  IN IF H = {} THEN BTRFS_MAX_LEVEL ELSE Min(H)

(* next_leaf's second loop from level l: the level whose node has a slot  *)
(* after its current one, or BTRFS_MAX_LEVEL when a level has no node or  *)
(* the root is passed (return 1).                                          *)
RECURSIVE Climb(_, _, _)
Climb(T, p, l) ==
  IF p.nodes[l] = Null THEN BTRFS_MAX_LEVEL
  ELSE IF p.slots[l] + 1 < Len(T.keys[p.nodes[l]]) THEN l
  ELSE IF l + 1 = BTRFS_MAX_LEVEL THEN BTRFS_MAX_LEVEL
  ELSE Climb(T, p, l + 1)

(* Mutant: the slot of each level below is left as it was.             *)
RECURSIVE Redescend_noreset(_, _, _, _)
Redescend_noreset(T, p, l, next) ==
  LET q == [p EXCEPT !.nodes[l - 1] = next] IN
  IF l - 1 = 0 THEN [ret |-> 0, path |-> q]
  ELSE IF next = Null THEN [ret |-> Segfault, path |-> q]
  ELSE Redescend_noreset(T, q, l - 1, read_node_slot(T, next, 0))

(* next_leaf's last loop: next becomes the node at level l - 1 with slot  *)
(* 0, and below it the first child of each node is read.  A child that    *)
(* cannot be read leaves NULL in the path: at the leaf the caller sees no *)
(* leaf, above it read_node_slot(root, NULL, 0) reads the level of NULL.  *)
RECURSIVE Redescend(_, _, _, _)
Redescend(T, p, l, next) ==
  LET q == [nodes |-> [p.nodes EXCEPT ![l - 1] = next],
            slots |-> [p.slots EXCEPT ![l - 1] = 0]]
  IN IF l - 1 = 0 THEN [ret |-> 0, path |-> q]
     ELSE IF next = Null THEN [ret |-> Segfault, path |-> q]
     ELSE Redescend(T, q, l - 1, read_node_slot(T, next, 0))

(* Mutant: path->slots[level] keeps its slot, the next child is read.    *)
next_leaf_noadvance(T, p) ==
  LET l0 == LowestHeld(p)
      l  == IF l0 = BTRFS_MAX_LEVEL THEN l0 ELSE Climb(T, p, l0)
  IN IF l = BTRFS_MAX_LEVEL THEN [ret |-> 1, path |-> p]
     ELSE Redescend(T, p, l, read_node_slot(T, p.nodes[l], p.slots[l] + 1))

(* next_leaf: up to the lowest level with a slot after its own, then    *)
(* down to a leaf along the first children of that slot's subtree.      *)
next_leaf(T, p) ==
  LET l0 == LowestHeld(p)
      l  == IF l0 = BTRFS_MAX_LEVEL THEN l0 ELSE Climb(T, p, l0)
      s  == p.slots[l] + 1
  IN IF l = BTRFS_MAX_LEVEL THEN [ret |-> 1, path |-> p]
     ELSE Redescend(T, [p EXCEPT !.slots[l] = s], l,
                    read_node_slot(T, p.nodes[l], s))

Init ==
  /\ tree \in Trees /\ key \in Keys
  /\ path = EmptyPath /\ items = <<>> /\ pc = "search" /\ ret = 0

Done(r) == pc' = "done" /\ ret' = r

(* The caller's btrfs_search_slot: an error is returned; otherwise the   *)
(* item loop starts, after "while (!leaf)" looks for a first leaf.       *)
Search ==
  LET s == btrfs_search_slot(tree, key) IN
  /\ pc = "search"
  /\ IF s.ret < 0 THEN Done(s.ret) /\ UNCHANGED path
     ELSE /\ path' = s.path
          /\ pc' = IF s.path.nodes[0] = Null THEN "next_leaf" ELSE "items"
          /\ UNCHANGED ret
  /\ UNCHANGED <<tree, key, items>>

(* One turn of the item loop: the item at path->slots[0] is read and     *)
(* slots[0] moves on; at the end of the leaf, next_leaf.                 *)
ReadItem ==
  /\ pc = "items"
  /\ IF path.slots[0] >= Len(tree.keys[path.nodes[0]])
     THEN pc' = "next_leaf" /\ UNCHANGED <<path, items>>
     ELSE /\ items' = Append(items, tree.keys[path.nodes[0]][path.slots[0] + 1])
          /\ path' = [path EXCEPT !.slots[0] = @ + 1]
          /\ UNCHANGED pc
  /\ UNCHANGED <<tree, key, ret>>

(* One call of next_leaf inside "do { ... } while (!leaf)": 1 ends the   *)
(* walk with 0, a path without a leaf calls it again.                   *)
NextLeaf ==
  LET r == next_leaf(tree, path) IN
  /\ pc = "next_leaf"
  /\ CASE r.ret = Segfault -> pc' = "crash" /\ UNCHANGED <<path, ret>>
       [] r.ret = 1 -> Done(0) /\ UNCHANGED path
       [] OTHER -> /\ path' = r.path
                   /\ pc' = IF r.path.nodes[0] = Null THEN "next_leaf"
                            ELSE "items"
                   /\ UNCHANGED ret
  /\ UNCHANGED <<tree, key, items>>

Next == Search \/ ReadItem \/ NextLeaf

(* The walk runs in the restore's single thread.                          *)
Spec == Init /\ [][Next]_vars /\ WF_vars(Next)

-----------------------------------------------------------------------------
(* Reference: the keys of the leaves below block b that can be reached    *)
(* by reads, in order; a block that cannot be read hides its subtree.     *)
RECURSIVE ReadableKeys(_, _)
ReadableKeys(T, b) ==
  IF b \notin T.ok THEN <<>>
  ELSE IF T.level[b] = 0 THEN T.keys[b]
  ELSE FlattenSeq([i \in 1..Len(T.ptrs[b]) |-> ReadableKeys(T, T.ptrs[b][i])])

Wanted == SelectSeq(ReadableKeys(tree, tree.root), LAMBDA x : x >= key)

TypeOK ==
  /\ key \in Keys /\ tree.root \in tree.ok
  /\ pc \in {"search", "items", "next_leaf", "done", "crash"}
  /\ \A l \in 0..BTRFS_MAX_LEVEL - 1 :
       path.nodes[l] \in {Null} \cup DOMAIN tree.level
  /\ ret \in {0, EIO}

(* The item loop of copy_file, search_dir and find_first_dir, with       *)
(* btrfs_search_slot and next_leaf below it, reads the items at or after  *)
(* the key in key order, never one twice and never one out of order, and  *)
(* when it ends with 0 it has read every item of a readable leaf under    *)
(* readable nodes: next_leaf passes over unreadable leaves and never      *)
(* dereferences NULL.  It fails only with the search's -EIO, on a tree    *)
(* with a block that cannot be read.                                      *)
WalkReadsInOrder ==
  /\ pc # "crash"
  /\ IsPrefix(items, Wanted)
  /\ pc = "done" /\ ret = 0 => items = Wanted
  /\ ret = EIO => DOMAIN tree.level # tree.ok

(* The slots of the path from the root level down to the leaf.           *)
Position(p) == [i \in 1..tree.level[tree.root] + 1 |->
                  p.slots[tree.level[tree.root] + 1 - i]]

RECURSIVE LexLess(_, _)
LexLess(a, b) ==
  /\ a # <<>>
  /\ \/ Head(a) < Head(b)
     \/ Head(a) = Head(b) /\ LexLess(Tail(a), Tail(b))

(* Every call of next_leaf that gives the caller a path moves it strictly *)
(* forward in key order, so the do/while loop and the item loop end: the  *)
(* slot above is advanced before the slots below are reset to 0.          *)
WalkAdvances ==
  [][pc = "next_leaf" /\ pc' \in {"items", "next_leaf"}
       => LexLess(Position(path), Position(path'))]_vars

=============================================================================
