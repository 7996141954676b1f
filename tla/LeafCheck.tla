----------------------------- MODULE LeafCheck ------------------------------
(***************************************************************************)
(* The validation of one tree block when it is read: btrfs_check_leaf and *)
(* btrfs_check_node of ctree.c, reached through check_block (ctree.c) on  *)
(* a search and through check_block (cmds-check.c) in run_next_block.    *)
(*                                                                         *)
(* A key is its rank in the order of btrfs_comp_keys (objectid, type,      *)
(* offset compared in turn); rank 0 is the all-zero key, whose type 0     *)
(* makes a parent key be ignored.  A leaf item is its key and the offset  *)
(* and size of its data; the item data grows from the end of the leaf     *)
(* data area towards the item headers.  Sizes are in units of             *)
(* sizeof(struct btrfs_item).                                             *)
(***************************************************************************)
EXTENDS Integers, Sequences, SequencesExt

CONSTANTS
  LeafDataSize,      \* BTRFS_LEAF_DATA_SIZE(root)
  BufLen,            \* buf->len
  ItemSize,          \* sizeof(struct btrfs_item)
  NodePtrsPerBlock,  \* BTRFS_NODEPTRS_PER_BLOCK(root)
  Keys,              \* the key ranks blocks may hold
  Blocks,            \* the blocks a read may return
  Parents            \* the parent keys a caller may pass

EIO == -5
ExtentTreeId == 2    \* BTRFS_EXTENT_TREE_OBJECTID

VARIABLES
  buf,      \* the block being validated
  parent,   \* the parent key: [set |-> FALSE] for a NULL pointer
  ret,      \* the result, 1 before the call
  corrupt   \* fs_info->corrupt_blocks

vars == <<buf, parent, ret, corrupt>>

btrfs_comp_keys(a, b) == IF a > b THEN 1 ELSE IF a < b THEN -1 ELSE 0

(* Item i (C index, from 0) of a leaf.                                     *)
Key(l, i) == l.items[i + 1].key
btrfs_item_offset_nr(l, i) == l.items[i + 1].off
btrfs_item_end_nr(l, i) == l.items[i + 1].off + l.items[i + 1].size

leaf_space_used(l, start, nr) ==
  IF nr = 0 THEN 0
  ELSE LET end == Min({Len(l.items), start + nr}) - 1
       IN btrfs_item_end_nr(l, start) - btrfs_item_offset_nr(l, end)
            + ItemSize * nr

btrfs_leaf_free_space(l) == LeafDataSize - leaf_space_used(l, 0, Len(l.items))

(* memcmp of a parent key whose type is not 0 with the block's first key. *)
ParentKeyDiffers(p, k) == p.set /\ p.key # 0 /\ p.key # k

(* Mutant: compares the offset of item i with its own end.               *)
btrfs_check_leaf_endself(p, l) ==
  LET n == Len(l.items)
      BadPair(i) ==
        \/ btrfs_comp_keys(Key(l, i), Key(l, i + 1)) >= 0
        \/ btrfs_item_offset_nr(l, i) # btrfs_item_end_nr(l, i)
        \/ i = 0 /\ btrfs_item_end_nr(l, i) # LeafDataSize
  IN IF \/ n * ItemSize > BufLen
        \/ l.level # 0
        \/ btrfs_leaf_free_space(l) < 0 THEN EIO
     ELSE IF n = 0 THEN 0
     ELSE IF ParentKeyDiffers(p, Key(l, 0)) THEN EIO
     ELSE IF n > 1 /\ \E i \in 0..(n - 3) : BadPair(i) THEN EIO
     ELSE 0

btrfs_check_leaf(p, l) ==
  LET n == Len(l.items)
      BadPair(i) ==
        \/ btrfs_comp_keys(Key(l, i), Key(l, i + 1)) >= 0
        \/ btrfs_item_offset_nr(l, i) # btrfs_item_end_nr(l, i + 1)
        \/ i = 0 /\ btrfs_item_end_nr(l, i) # LeafDataSize
  IN IF \/ n * ItemSize > BufLen
        \/ l.level # 0
        \/ btrfs_leaf_free_space(l) < 0 THEN EIO
     ELSE IF n = 0 THEN 0
     ELSE IF ParentKeyDiffers(p, Key(l, 0)) THEN EIO
     ELSE IF n > 1 /\ \E i \in 0..(n - 3) : BadPair(i) THEN EIO
     ELSE 0

btrfs_check_node(p, nd) ==
  LET n == Len(nd.keys) IN
  IF n = 0 \/ n > NodePtrsPerBlock THEN EIO
  ELSE IF ParentKeyDiffers(p, nd.keys[1]) THEN EIO
  ELSE IF n > 1 /\ \E i \in 1..(n - 2) :
            btrfs_comp_keys(nd.keys[i], nd.keys[i + 1]) >= 0 THEN EIO
  ELSE 0

(* The key under which the fail path records the block: the parent key   *)
(* when a pointer was passed, else key 0 of the block, which a node with  *)
(* no pointers does not have (the read returns whatever the buffer holds). *)
CorruptKeys(p, b) ==
  IF p.set THEN {p.key}
  ELSE IF b.level = 0 THEN {Key(b, 0)}
  ELSE IF b.keys # <<>> THEN {b.keys[1]}
  ELSE {0} \cup Keys

Init ==
  /\ buf \in Blocks
  /\ parent \in Parents
  /\ ret = 1
  /\ corrupt = {}

(* Mutant: records every corrupt block at level 0, as the leaf path does. *)
check_block_level0 ==
  /\ ret = 1
  /\ ret' = IF buf.level = 0 THEN btrfs_check_leaf(parent, buf)
            ELSE btrfs_check_node(parent, buf)
  /\ IF ret' = EIO /\ buf.owner = ExtentTreeId
     THEN \E k \in CorruptKeys(parent, buf) :
            corrupt' = corrupt \cup {[start |-> buf.start, key |-> k,
                                      level |-> 0]}
     ELSE UNCHANGED corrupt
  /\ UNCHANGED <<buf, parent>>

(* check_block (ctree.c) and the validation half of check_block in        *)
(* cmds-check.c: dispatch on the level; on failure a block of the extent  *)
(* tree is entered in corrupt_blocks (btrfs_add_corrupt_extent_record).   *)
check_block ==
  /\ ret = 1
  /\ ret' = IF buf.level = 0 THEN btrfs_check_leaf(parent, buf)
            ELSE btrfs_check_node(parent, buf)
  /\ IF ret' = EIO /\ buf.owner = ExtentTreeId
     THEN \E k \in CorruptKeys(parent, buf) :
            corrupt' = corrupt \cup {[start |-> buf.start, key |-> k,
                                      level |-> buf.level]}
     ELSE UNCHANGED corrupt
  /\ UNCHANGED <<buf, parent>>

Next == check_block

Spec == Init /\ [][Next]_vars

-----------------------------------------------------------------------------
(* Reference definitions: a well-formed block (spec 8.1 and 8.2, with the *)
(* item data packed from the end of the data area as the code lays it).  *)

StrictlyIncreasing(ks) == \A i \in 1..(Len(ks) - 1) : ks[i] < ks[i + 1]

WellFormedLeaf(p, l) ==
  LET n == Len(l.items) IN
  /\ StrictlyIncreasing([i \in 1..n |-> l.items[i].key])
  /\ FoldLeft(LAMBDA a, it : a + it.size, 0, l.items) + n * ItemSize
       <= LeafDataSize
  /\ n > 0 => /\ btrfs_item_end_nr(l, 0) = LeafDataSize
              /\ \A i \in 0..(n - 2) :
                   btrfs_item_offset_nr(l, i) = btrfs_item_end_nr(l, i + 1)
              /\ ~ParentKeyDiffers(p, Key(l, 0))

WellFormedNode(p, nd) ==
  /\ Len(nd.keys) \in 1..NodePtrsPerBlock
  /\ StrictlyIncreasing(nd.keys)
  /\ ~ParentKeyDiffers(p, nd.keys[1])

WellFormed(p, b) == IF b.level = 0 THEN WellFormedLeaf(p, b)
                    ELSE WellFormedNode(p, b)

TypeOK ==
  /\ ret \in {1, 0, EIO}
  /\ \A c \in corrupt : c.start = buf.start /\ c.level = buf.level

(* No false alarm: a block that satisfies the layout invariants of spec   *)
(* 8.1/8.2 is never rejected by btrfs_check_leaf or btrfs_check_node, so *)
(* a healthy block is never entered in corrupt_blocks and pruned.         *)
AcceptsWellFormed == ret = EIO => ~WellFormed(parent, buf)

(* Spec 8.1/8.2: the keys of a block that btrfs_check_leaf or            *)
(* btrfs_check_node accepts are strictly increasing, which the binary     *)
(* search of bin_search and every slot computation rely on.               *)
BlockKeys(b) == IF b.level = 0 THEN [i \in DOMAIN b.items |-> b.items[i].key]
                ELSE b.keys

AcceptedKeysOrdered == ret = 0 => StrictlyIncreasing(BlockKeys(buf))
=============================================================================
