----------------------------- MODULE ExtentRefs -----------------------------
(***************************************************************************)
(* The extent back-reference reconciliation of `btrfs check`              *)
(* (cmds-check.c: check_extents, run_next_block, add_extent_rec,          *)
(* add_tree_backref, add_data_backref, process_extent_item,               *)
(* maybe_free_extent_rec, check_extent_refs).                             *)
(*                                                                         *)
(* Every tree block reachable from a root is read once.  Node pointers    *)
(* and file extent items are the references the walk FINDS; extent items *)
(* and keyed ref items of the extent tree are the references the extent   *)
(* tree DECLARES.  Both meet in one record per extent (the extent_cache),  *)
(* which is dropped early once it is consistent and otherwise reported    *)
(* when the walk is over.  The order in which blocks are read is the one  *)
(* pick_next_pending derives from the block addresses of the image.       *)
(*                                                                         *)
(* An image has roots (the tree root, then the ROOT_ITEMs in key order),  *)
(* blocks (address -> level, header owner, FULL_BACKREF flag, readable,   *)
(* valid for btrfs_check_leaf/node, and the child pointers or the items)  *)
(* and corrupt, the damage done to an otherwise consistent filesystem     *)
(* ("none" for a consistent one).  Keys are kept only where they decide   *)
(* an outcome (the extent tree order and the data backref triple), and    *)
(* records are looked up by their exact start: the images have no         *)
(* overlapping extents.  Statistics and messages are left out.            *)
(***************************************************************************)
EXTENDS Integers, Sequences, FiniteSets, SequencesExt, FiniteSetsExt

CONSTANTS
  Leaf,      \* root->leafsize (= nodesize): the size of every tree block
  Sector,    \* root->sectorsize: the max_size given to keyed data refs
  ReadaGap,  \* 32768 bytes: the proximity window of pick_next_pending
  BatchMax,  \* bits_nr = 1024: the size of the readahead batch
  Images     \* the filesystem images the checker may be run on

RefKinds == {"TREE_BLOCK_REF", "SHARED_BLOCK_REF",
             "EXTENT_DATA_REF", "SHARED_DATA_REF"}

VARIABLES
  img,      \* the image being checked (never changes)
  cache,    \* extent_cache: extent start -> extent_record
  pending,  \* leaves waiting to be read
  nodes,    \* interior nodes waiting to be read
  reada,    \* the current readahead batch
  seen,     \* every block ever queued
  last,     \* *last of run_next_block
  err,      \* the value check_extent_refs returns
  phase     \* "init", "scan", "done", or "abort" after a BUG_ON

vars == <<img, cache, pending, nodes, reada, seen, last, err, phase>>

Blk(b) == img.blocks[b]

Max2(a, b) == IF a >= b THEN a ELSE b

-----------------------------------------------------------------------------
(* The record and back-reference lists of one extent.                     *)

(* The refs the back references account for: 1 per tree backref, the    *)
(* found count of each data backref.                                       *)
RECURSIVE Found(_)
Found(bs) == IF bs = <<>> THEN 0
             ELSE (IF Head(bs).data THEN Head(bs).cnt ELSE 1) + Found(Tail(bs))

(* all_backpointers_checked(rec, 0): TRUE when the record has an error.   *)
all_backpointers_checked(r) ==
  \/ \E i \in 1..Len(r.backrefs) :
       LET b == r.backrefs[i] IN
       \/ ~b.fet
       \/ ~b.data /\ ~b.found
       \/ b.data /\ (b.cnt # b.num \/ b.bytes # r.nr)
  \/ Found(r.backrefs) # r.refs

(* Mutant: frees a record whose back references do not add up.          *)
maybe_free_extent_rec_unchecked(c, x) ==
  IF /\ c[x].content /\ c[x].owner
     /\ c[x].eir = c[x].refs /\ c[x].refs > 0
  THEN [y \in DOMAIN c \ {x} |-> c[y]]
  ELSE c

maybe_free_extent_rec(c, x) ==
  IF /\ c[x].content /\ c[x].owner
     /\ c[x].eir = c[x].refs /\ c[x].refs > 0
     /\ ~all_backpointers_checked(c[x])
  THEN [y \in DOMAIN c \ {x} |-> c[y]]
  ELSE c

add_extent_rec(c, start, nr, eir, isRoot, incRef, setChecked, extentRec, maxSize) ==
  IF start \in DOMAIN c
  THEN LET r == c[start] IN
       maybe_free_extent_rec(
         [c EXCEPT ![start] =
           [r EXCEPT !.refs = @ + (IF incRef THEN 1 ELSE 0),
                     !.nr = IF extentRec THEN nr
                            ELSE IF @ = 1 THEN Max2(nr, maxSize) ELSE @,
                     !.eir = IF eir > 0 THEN eir ELSE @,
                     !.isRoot = @ \/ isRoot,
                     !.content = @ \/ setChecked,
                     !.owner = @ \/ setChecked,
                     !.maxSize = Max2(@, maxSize)]], start)
  ELSE c @@ (start :> [refs |-> IF incRef THEN 1 ELSE 0, eir |-> eir,
                       nr |-> Max2(nr, maxSize), maxSize |-> maxSize,
                       isRoot |-> isRoot, content |-> setChecked,
                       owner |-> setChecked, backrefs |-> <<>>])

(* A back reference: id is the parent block (full) or the root.           *)
NewBackref(data, parent, root, owner, offset, bytes) ==
  [data |-> data, full |-> parent > 0,
   id |-> IF parent > 0 THEN parent ELSE root,
   owner |-> IF parent > 0 THEN 0 ELSE owner,
   offset |-> IF parent > 0 THEN 0 ELSE offset,
   found |-> FALSE, fet |-> FALSE, cnt |-> 0, num |-> 0, bytes |-> bytes]

find_tree_backref(r, parent, root) ==
  SelectInSeq(r.backrefs, LAMBDA b :
    ~b.data /\ IF parent > 0 THEN b.full /\ b.id = parent
                             ELSE ~b.full /\ b.id = root)

find_data_backref(r, parent, root, owner, offset, foundRef, bytes) ==
  SelectInSeq(r.backrefs, LAMBDA b :
    b.data /\ IF parent > 0
              THEN b.full /\ b.id = parent
              ELSE /\ ~b.full /\ b.id = root
                   /\ b.owner = owner /\ b.offset = offset
                   /\ ~(foundRef /\ b.found /\ b.bytes # bytes))

(* Find the back reference at index i, or append a fresh one; then mark  *)
(* it found by the walk or declared by the extent tree.                   *)
MarkBackref(c, x, i, fresh, foundRef, numRefs, maxSize) ==
  LET bs == IF i = 0 THEN Append(c[x].backrefs, fresh) ELSE c[x].backrefs
      j  == IF i = 0 THEN Len(bs) ELSE i
      mark(b) ==
        CASE foundRef /\ ~b.data -> [b EXCEPT !.found = TRUE]
          [] foundRef /\ b.data ->
               [b EXCEPT !.found = TRUE, !.cnt = @ + 1, !.bytes = maxSize]
          [] ~foundRef /\ ~b.data -> [b EXCEPT !.fet = TRUE]
          [] ~foundRef /\ b.data -> [b EXCEPT !.num = numRefs, !.fet = TRUE]
  IN [c EXCEPT ![x].backrefs = [bs EXCEPT ![j] = mark(@)]]

add_tree_backref(c, x, parent, root, foundRef) ==
  LET c1 == IF x \in DOMAIN c THEN c
            ELSE add_extent_rec(c, x, 1, 0, FALSE, FALSE, FALSE, FALSE, 0)
  IN MarkBackref(c1, x, find_tree_backref(c1[x], parent, root),
                 NewBackref(FALSE, parent, root, 0, 0, 0), foundRef, 0, 0)

add_data_backref(c, x, parent, root, owner, offset, numRefs, foundRef, maxSize) ==
  LET c0 == IF x \in DOMAIN c THEN c
            ELSE add_extent_rec(c, x, 1, 0, FALSE, FALSE, FALSE, FALSE,
                                maxSize)
      c1 == [c0 EXCEPT ![x].maxSize = Max2(@, maxSize)]
  IN MarkBackref(c1, x,
       find_data_backref(c1[x], parent, root, owner, offset, foundRef,
                         maxSize),
       NewBackref(TRUE, parent, root, owner, offset, maxSize), foundRef,
       numRefs, maxSize)

(* One reference the extent tree declares, inline or as its own item.     *)
AddDeclaredRef(c, x, ref, dataMax) ==
  CASE ref.kind = "TREE_BLOCK_REF" ->
         add_tree_backref(c, x, 0, ref.root, FALSE)
    [] ref.kind = "SHARED_BLOCK_REF" ->
         add_tree_backref(c, x, ref.parent, 0, FALSE)
    [] ref.kind = "EXTENT_DATA_REF" ->
         add_data_backref(c, x, 0, ref.root, ref.owner, ref.offset,
                          ref.count, FALSE, dataMax)
    [] ref.kind = "SHARED_DATA_REF" ->
         add_data_backref(c, x, ref.parent, 0, 0, 0, ref.count, FALSE,
                          dataMax)

RECURSIVE AddInlineRefs(_, _, _, _)
AddInlineRefs(c, x, refs, numBytes) ==
  IF refs = <<>> THEN c
  ELSE AddInlineRefs(AddDeclaredRef(c, x, Head(refs), numBytes), x,
                     Tail(refs), numBytes)

process_extent_item(c, it) ==
  LET numBytes == IF it.type = "METADATA_ITEM" THEN Leaf ELSE it.size
  IN AddInlineRefs(add_extent_rec(c, it.obj, numBytes, it.refs, FALSE,
                                  FALSE, FALSE, TRUE, numBytes),
                   it.obj, it.inline, numBytes)

-----------------------------------------------------------------------------
(* Reading one block.                                                     *)

Children(b) == IF Blk(b).level > 0 THEN Range(Blk(b).items) ELSE {}

RECURSIVE Reach(_)
Reach(S) == LET T == S \cup UNION {Children(b) : b \in S}
            IN IF T = S THEN S ELSE Reach(T)

(* The search of check_owner_ref: the block hangs below a node of the     *)
(* tree its header names as owner (btrfs_read_fs_root fails when that     *)
(* root does not exist).                                                  *)
FoundInOwnerTree(b) ==
  \E i \in 1..Len(img.roots) :
    /\ img.roots[i].obj = Blk(b).owner
    /\ \E p \in Reach({img.roots[i].blk}) : b \in Children(p)

(* check_owner_ref: 0 ok, 1 failed, -1 the BUG_ON(rec->is_root).          *)
check_owner_ref(r, b) ==
  IF \E i \in 1..Len(r.backrefs) :
       LET n == r.backrefs[i] IN
       ~n.data /\ n.found /\ ~n.full /\ n.id = Blk(b).owner
  THEN 0
  ELSE IF r.isRoot THEN -1
  ELSE IF FoundInOwnerTree(b) THEN 0 ELSE 1

(* check_block: ret (0 ok, 1 bad, -1 crashed) and the new extent_cache.   *)
check_block(c, b) ==
  IF b \notin DOMAIN c \/ ~Blk(b).valid THEN [ret |-> 1, c |-> c]
  ELSE LET own == IF Blk(b).full THEN 0 ELSE check_owner_ref(c[b], b)
           c1 == [c EXCEPT ![b].content = TRUE, ![b].owner = (own = 0)]
       IN [ret |-> own, c |-> IF own = 0 THEN maybe_free_extent_rec(c1, b)
                                         ELSE c1]

(* parent and owner of the references a block holds (FULL_BACKREF flag).  *)
RefParent(b) == IF Blk(b).full THEN b ELSE 0
RefOwner(b) == IF Blk(b).full THEN 0 ELSE Blk(b).owner

(* One item of a leaf, as the item loop of run_next_block handles it.     *)
ProcessLeafItem(c, b, it) ==
  CASE it.type \in {"EXTENT_ITEM", "METADATA_ITEM"} ->
         process_extent_item(c, it)
    [] it.type \in RefKinds -> AddDeclaredRef(c, it.obj, it.ref, Sector)
    [] it.type = "EXTENT_DATA" /\ ~it.inline /\ it.bytenr # 0 ->
         add_data_backref(
           add_extent_rec(c, it.bytenr, it.disk, 0, FALSE, TRUE, TRUE,
                          FALSE, it.disk),
           it.bytenr, RefParent(b), RefOwner(b), it.obj, it.off, 1, TRUE,
           it.disk)
    [] OTHER -> c

RECURSIVE ProcessLeafItems(_, _, _)
ProcessLeafItems(c, b, its) ==
  IF its = <<>> THEN c
  ELSE ProcessLeafItems(ProcessLeafItem(c, b, Head(its)), b, Tail(its))

(* The pointers of a node: each child's record and its found back ref.    *)
RECURSIVE ProcessNodePtrs(_, _, _)
ProcessNodePtrs(c, b, ptrs) ==
  IF ptrs = <<>> THEN c
  ELSE ProcessNodePtrs(
         add_tree_backref(add_extent_rec(c, Head(ptrs), Leaf, 0, FALSE, TRUE,
                                         FALSE, FALSE, Leaf),
                          Head(ptrs), RefParent(b), RefOwner(b), TRUE),
         b, Tail(ptrs))

RECURSIVE SortedSeq(_)
SortedSeq(S) == IF S = {} THEN <<>> ELSE <<Min(S)>> \o SortedSeq(S \ {Min(S)})
Take(s, n) == SubSeq(s, 1, Min({n, Len(s)}))
From(S, a) == {y \in S : y >= a}

(* The leaves close behind the node batch, as pick_next_pending adds them *)
RECURSIVE Chain(_, _)
Chain(lookup, room) ==
  IF room = 0 \/ From(pending, lookup) = {} THEN <<>>
  ELSE LET nx == Min(From(pending, lookup)) IN
       IF nx - lookup > ReadaGap THEN <<>>
       ELSE <<nx>> \o Chain(nx + Leaf, room - 1)

pick_next_pending ==
  IF reada # {} THEN [bits |-> <<Min(reada)>>, rb |-> TRUE]
  ELSE IF nodes = {} THEN [bits |-> Take(SortedSeq(pending), BatchMax),
                           rb |-> FALSE]
  ELSE LET ns == IF last > ReadaGap THEN last - ReadaGap ELSE last
           st == IF From(nodes, ns) # {} THEN Min(From(nodes, ns))
                 ELSE Min(nodes)
           b0 == Take(SortedSeq(From(nodes, st)), BatchMax)
       IN [bits |-> IF BatchMax - Len(b0) > 8
                    THEN b0 \o Chain(st + Leaf, BatchMax - Len(b0))
                    ELSE b0,
           rb |-> FALSE]

-----------------------------------------------------------------------------
(* The actions.                                                           *)

(* Mutant: queues the root without entering it in the seen tree.         *)
add_root_to_pending_noseen(acc, rt) ==
  LET b == rt.blk
      c1 == add_extent_rec(acc.c, b, Leaf, 0, TRUE, TRUE, FALSE, FALSE, Leaf)
  IN [c |-> add_tree_backref(c1, b, 0, rt.obj, TRUE), seen |-> acc.seen,
      nodes |-> acc.nodes \cup {n \in {b} : Blk(n).level > 0},
      pending |-> acc.pending \cup {n \in {b} : Blk(n).level = 0}]

add_root_to_pending(acc, rt) ==
  LET b == rt.blk
      c1 == add_extent_rec(acc.c, b, Leaf, 0, TRUE, TRUE, FALSE, FALSE, Leaf)
      new == IF b \in acc.seen THEN {} ELSE {b}
  IN [c |-> IF rt.reloc THEN add_tree_backref(c1, b, b, 0, TRUE)
                        ELSE add_tree_backref(c1, b, 0, rt.obj, TRUE),
      seen |-> acc.seen \cup {b},
      nodes |-> acc.nodes \cup {n \in new : Blk(n).level > 0},
      pending |-> acc.pending \cup {n \in new : Blk(n).level = 0}]

RECURSIVE AddRoots(_, _)
AddRoots(acc, rts) ==
  IF rts = <<>> THEN acc
  ELSE AddRoots(add_root_to_pending(acc, Head(rts)), Tail(rts))

Init ==
  /\ img \in Images
  /\ cache = <<>>
  /\ pending = {} /\ nodes = {} /\ reada = {} /\ seen = {}
  /\ last = 0
  /\ err = 0
  /\ phase = "init"

(* check_extents, up to the run_next_block loop: queue every root.        *)
StartCheckExtents ==
  /\ phase = "init"
  /\ LET q == AddRoots([c |-> cache, seen |-> seen, nodes |-> nodes,
                        pending |-> pending], img.roots)
     IN /\ cache' = q.c /\ seen' = q.seen
        /\ nodes' = q.nodes /\ pending' = q.pending
  /\ phase' = "scan"
  /\ UNCHANGED <<img, reada, last, err>>

(* The outcomes of reading block b in run_next_block.                     *)
Dequeue(b) == nodes' = nodes \ {b} /\ pending' = pending \ {b}

ReadFailed(b) ==
  /\ ~Blk(b).readable
  /\ Dequeue(b)
  /\ UNCHANGED <<cache, seen, phase>>

BadBlock(b) ==
  /\ Blk(b).readable
  /\ check_block(cache, b).ret = 1
  /\ cache' = check_block(cache, b).c
  /\ Dequeue(b)
  /\ UNCHANGED <<seen, phase>>

Crash(b) ==
  /\ Blk(b).readable
  /\ check_block(cache, b).ret = -1
  /\ phase' = "abort"
  /\ Dequeue(b)
  /\ UNCHANGED <<cache, seen>>

ScanLeaf(b) ==
  /\ Blk(b).readable /\ Blk(b).level = 0
  /\ check_block(cache, b).ret = 0
  /\ cache' = ProcessLeafItems(check_block(cache, b).c, b, Blk(b).items)
  /\ Dequeue(b)
  /\ UNCHANGED <<seen, phase>>

(* Mutant: queues every child, seen or not.                              *)
ScanNode_noseen(b) ==
  /\ Blk(b).readable /\ Blk(b).level > 0
  /\ check_block(cache, b).ret = 0
  /\ cache' = ProcessNodePtrs(check_block(cache, b).c, b, Blk(b).items)
  /\ seen' = seen \cup Children(b)
  /\ nodes' = (nodes \ {b}) \cup
              (IF Blk(b).level > 1 THEN Children(b) ELSE {})
  /\ pending' = (pending \ {b}) \cup
                (IF Blk(b).level = 1 THEN Children(b) ELSE {})
  /\ UNCHANGED phase

ScanNode(b) ==
  /\ Blk(b).readable /\ Blk(b).level > 0
  /\ check_block(cache, b).ret = 0
  /\ cache' = ProcessNodePtrs(check_block(cache, b).c, b, Blk(b).items)
  /\ LET new == Children(b) \ seen IN
     /\ seen' = seen \cup new
     /\ nodes' = (nodes \ {b}) \cup
                 (IF Blk(b).level > 1 THEN new ELSE {})
     /\ pending' = (pending \ {b}) \cup
                   (IF Blk(b).level = 1 THEN new ELSE {})
  /\ UNCHANGED phase

(* run_next_block: pick, dequeue, read and process the next block.        *)
run_next_block ==
  /\ phase = "scan"
  /\ LET p == pick_next_pending IN
     /\ Len(p.bits) > 0
     /\ LET b == p.bits[1] IN
        /\ last' = b
        /\ reada' = (IF p.rb THEN reada ELSE reada \cup Range(p.bits)) \ {b}
        /\ \/ ReadFailed(b) \/ BadBlock(b) \/ Crash(b) \/ ScanLeaf(b)
           \/ ScanNode(b)
  /\ UNCHANGED <<img, err>>

(* The walk is over: check_extent_refs reports every record still held.   *)
check_extent_refs ==
  /\ phase = "scan"
  /\ Len(pick_next_pending.bits) = 0
  /\ err' = IF \E x \in DOMAIN cache :
                 \/ cache[x].refs # cache[x].eir
                 \/ all_backpointers_checked(cache[x])
                 \/ ~cache[x].owner
            THEN 1 ELSE 0
  /\ cache' = <<>>
  /\ phase' = "done"
  /\ UNCHANGED <<img, pending, nodes, reada, seen, last>>

Next == StartCheckExtents \/ run_next_block \/ check_extent_refs

Spec == Init /\ [][Next]_vars

-----------------------------------------------------------------------------
(* Properties.                                                            *)

Backref == [data : BOOLEAN, full : BOOLEAN, id : Nat, owner : Nat,
            offset : Nat, found : BOOLEAN, fet : BOOLEAN, cnt : Nat,
            num : Nat, bytes : Nat]

TypeOK ==
  /\ \A x \in DOMAIN cache :
       /\ cache[x].refs \in Nat /\ cache[x].eir \in Nat
       /\ cache[x].nr \in Nat /\ cache[x].maxSize \in Nat
       /\ {cache[x].isRoot, cache[x].content, cache[x].owner} \subseteq BOOLEAN
       /\ cache[x].backrefs \in Seq(Backref)
  /\ {pending, nodes, reada} \subseteq SUBSET seen
  /\ seen \subseteq DOMAIN img.blocks
  /\ err \in {0, 1}
  /\ phase \in {"init", "scan", "done", "abort"}

(* Whatever the block addresses (hence the read order of pick_next_pending *)
(* and where the extent tree leaves split its items), check_extent_refs     *)
(* reports an error exactly when the image is damaged: no record that      *)
(* maybe_free_extent_rec drops early is brought back by a later reference,  *)
(* and no inconsistency survives the matching of walked and declared refs. *)
ExtentVerdict == phase = "done" => (err = 1 <=> img.corrupt # "none")

(* The run_next_block loop ends: every iteration either queues a block   *)
(* never seen before or takes one off the queue, and none queues again a  *)
(* block already read (the seen tree of add_pending), so the pair below   *)
(* decreases lexicographically and the walk stops even on an image whose   *)
(* pointers form a cycle.                                                  *)
LoopVariant == <<Cardinality(DOMAIN img.blocks \ seen),
                 Cardinality(pending \cup nodes)>>

LoopProgress ==
  [][run_next_block =>
       \/ LoopVariant'[1] < LoopVariant[1]
       \/ LoopVariant'[1] = LoopVariant[1] /\ LoopVariant'[2] < LoopVariant[2]
    ]_vars

(* check_extents never dies on a BUG_ON for an on-disk inconsistency: it   *)
(* reaches check_extent_refs and returns a verdict.                        *)
NoCrash == phase # "abort"
=============================================================================
