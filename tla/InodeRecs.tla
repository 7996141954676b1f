------------------------------ MODULE InodeRecs -----------------------------
(***************************************************************************)
(* The inode and directory cross-check of one fs tree (cmds-check.c):      *)
(* process_one_leaf hands every item, in key order, to process_inode_item, *)
(* process_dir_item, process_inode_ref or process_file_extent, which fold  *)
(* it into the inode_record of the inode it names; maybe_free_inode_rec    *)
(* releases a record once it is complete; at the end check_fs_root checks  *)
(* the root directory and check_inode_recs reports every record left.      *)
(*                                                                         *)
(* The tree is not shared with another root (refs == 1 on every block), so *)
(* every record is private to the walk and a leaf boundary changes        *)
(* nothing: the walk is the item sequence of the tree in key order.       *)
(* The error bitmasks are sets of flag names; (u64)-1 is U64Max.          *)
(***************************************************************************)
EXTENDS Integers, Sequences, SequencesExt, FiniteSets, FiniteSetsExt, Functions

CONSTANTS
  Images,           \* the item sequences the fs tree may hold
  RootDirId,        \* btrfs_root_dirid(&root->root_item), 256
  OrphanObjectid,   \* BTRFS_ORPHAN_OBJECTID, above every inode number
  U64Max,           \* (u64)-1, above every file offset
  Sector,           \* root->sectorsize
  NameLen           \* the length of each name

VARIABLES
  items,    \* the leaves of the tree, items in key order
  pos,      \* the next item process_one_leaf handles
  recs,     \* root_node.inode_cache: inode number -> inode_record
  current,  \* root_node.current, 0 for NULL
  phase,    \* "walk" | "recs" (the loop of check_inode_recs) | "done"
  error,    \* the error counter of check_inode_recs
  ret       \* the result of check_fs_root, 1 before it returns

vars == <<items, pos, recs, current, phase, error, ret>>

Flag(cond, e) == IF cond THEN {e} ELSE {}

(* imode_to_type: the file type a directory entry must carry for a mode.  *)
imode_to_type(mode) == IF mode = "S_IFDIR" THEN "FT_DIR" ELSE "FT_REG"

NewRec(ino) ==
  [ino |-> ino, checked |-> FALSE, found_inode_item |-> FALSE,
   found_dir_item |-> FALSE, found_file_extent |-> FALSE,
   found_csum_item |-> FALSE, some_csum_missing |-> FALSE,
   nodatasum |-> FALSE, errors |-> {}, nlink |-> 0, imode |-> "S_IFUNK",
   isize |-> 0, nbytes |-> 0, found_link |-> 0, found_size |-> 0,
   extent_start |-> U64Max, extent_end |-> 0, first_extent_gap |-> U64Max,
   backrefs |-> <<>>]

(* get_inode_rec(cache, ino, 1): the record of ino, allocated if absent.  *)
get_inode_rec(rs, ino) == IF ino \in DOMAIN rs THEN rs ELSE rs @@ (ino :> NewRec(ino))

can_free_inode_rec(r) ==
  /\ r.errors = {} /\ r.checked /\ r.found_inode_item
  /\ r.nlink = r.found_link /\ r.backrefs = <<>>

(* The checks maybe_free_inode_rec makes of a checked record.             *)
CheckedRec(r) ==
  LET isReg == r.imode \in {"S_IFREG", "S_IFLNK"}
      gap   == IF isReg /\ (r.extent_start = U64Max \/ r.extent_start > 0)
               THEN 0 ELSE r.first_extent_gap
      errs  ==
        IF r.imode = "S_IFDIR"
        THEN Flag(r.found_size # r.isize, "I_ERR_DIR_ISIZE_WRONG")
             \cup Flag(r.found_file_extent, "I_ERR_ODD_FILE_EXTENT")
        ELSE IF isReg
        THEN Flag(r.found_dir_item, "I_ERR_ODD_DIR_ITEM")
             \cup Flag(r.found_size # r.nbytes, "I_ERR_FILE_NBYTES_WRONG")
             \cup Flag(r.nlink > 0 /\ (r.extent_end < r.isize \/ gap < r.isize),
                       "I_ERR_FILE_EXTENT_DISCOUNT")
             \cup Flag(r.found_csum_item /\ r.nodatasum, "I_ERR_ODD_CSUM_ITEM")
             \cup Flag(r.some_csum_missing /\ ~r.nodatasum,
                       "I_ERR_SOME_CSUM_MISSING")
        ELSE {}
  IN [r EXCEPT !.first_extent_gap = gap, !.errors = @ \cup errs]

(* A backref found as dir item, dir index and inode ref is dropped; one   *)
(* whose dir entries disagree with the mode is marked first.              *)
Resolved(b) == b.found_dir_item /\ b.found_dir_index /\ b.found_inode_ref /\ b.errors = {}

(* Mutant: releases a record before the walk has left its inode.          *)
maybe_free_inode_rec_unchecked(rs, ino) ==
  LET r  == rs[ino]
      ft == imode_to_type(r.imode)
      mark(b) == [b EXCEPT !.errors = @ \cup
                    Flag(b.found_dir_item /\ b.found_dir_index /\ b.filetype # ft,
                         "REF_ERR_FILETYPE_UNMATCH")]
      r1 == [r EXCEPT !.backrefs =
               SelectSeq([k \in DOMAIN r.backrefs |-> mark(r.backrefs[k])],
                         LAMBDA b : ~Resolved(b))]
      r2 == CheckedRec(r1)
  IN IF ~r.found_inode_item THEN rs
     ELSE IF can_free_inode_rec([r2 EXCEPT !.checked = TRUE])
     THEN Restrict(rs, DOMAIN rs \ {ino})
     ELSE [rs EXCEPT ![ino] = r1]

maybe_free_inode_rec(rs, ino) ==
  LET r  == rs[ino]
      ft == imode_to_type(r.imode)
      mark(b) == [b EXCEPT !.errors = @ \cup
                    Flag(b.found_dir_item /\ b.found_dir_index /\ b.filetype # ft,
                         "REF_ERR_FILETYPE_UNMATCH")]
      r1 == [r EXCEPT !.backrefs =
               SelectSeq([k \in DOMAIN r.backrefs |-> mark(r.backrefs[k])],
                         LAMBDA b : ~Resolved(b))]
      r2 == CheckedRec(r1)
  IN IF ~r.found_inode_item THEN rs
     ELSE IF ~r.checked THEN [rs EXCEPT ![ino] = r1]
     ELSE IF can_free_inode_rec(r2) THEN Restrict(rs, DOMAIN rs \ {ino})
     ELSE [rs EXCEPT ![ino] = r2]

NewBackref(dir, name) ==
  [dir |-> dir, name |-> name, index |-> 0, filetype |-> "FT_UNKNOWN",
   ref_type |-> "NONE", found_dir_item |-> FALSE, found_dir_index |-> FALSE,
   found_inode_ref |-> FALSE, errors |-> {}]

(* get_inode_backref: the position of the backref (dir, name) of r,       *)
(* appended when r has none.                                              *)
BackrefsWith(r, dir, name) ==
  IF SelectInSeq(r.backrefs, LAMBDA b : b.dir = dir /\ b.name = name) # 0
  THEN r.backrefs ELSE Append(r.backrefs, NewBackref(dir, name))

get_inode_backref(r, dir, name) ==
  SelectInSeq(BackrefsWith(r, dir, name), LAMBDA b : b.dir = dir /\ b.name = name)

(* Mutant: an inode ref is not compared with the index of its dir index.  *)
add_inode_backref_noindex(rs, ino, dir, index, name, filetype, itemtype, errs) ==
  LET rs1 == get_inode_rec(rs, ino)
      r   == [rs1[ino] EXCEPT !.backrefs = BackrefsWith(rs1[ino], dir, name)]
      k   == get_inode_backref(r, dir, name)
      b   == r.backrefs[k]
      nb  == CASE itemtype = "DIR_INDEX" ->
                    [b EXCEPT !.errors = @ \cup errs
                        \cup Flag(b.found_dir_index, "REF_ERR_DUP_DIR_INDEX")
                        \cup Flag(b.found_inode_ref /\ b.index # index, "REF_ERR_INDEX_UNMATCH")
                        \cup Flag(b.found_dir_item /\ b.filetype # filetype, "REF_ERR_FILETYPE_UNMATCH"),
                      !.index = index, !.filetype = filetype, !.found_dir_index = TRUE]
               [] itemtype = "DIR_ITEM" ->
                    [b EXCEPT !.errors = @ \cup errs
                        \cup Flag(b.found_dir_item, "REF_ERR_DUP_DIR_ITEM")
                        \cup Flag(b.found_dir_index /\ b.filetype # filetype, "REF_ERR_FILETYPE_UNMATCH"),
                      !.filetype = filetype, !.found_dir_item = TRUE]
               [] OTHER ->
                    [b EXCEPT !.errors = @ \cup errs
                        \cup Flag(b.found_inode_ref, "REF_ERR_DUP_INODE_REF"),
                      !.ref_type = itemtype, !.index = index, !.found_inode_ref = TRUE]
      nr  == [r EXCEPT !.backrefs[k] = nb,
                       !.found_link = IF itemtype = "DIR_ITEM" THEN @ + 1 ELSE @]
  IN maybe_free_inode_rec([rs1 EXCEPT ![ino] = nr], ino)

add_inode_backref(rs, ino, dir, index, name, filetype, itemtype, errs) ==
  LET rs1 == get_inode_rec(rs, ino)
      r   == [rs1[ino] EXCEPT !.backrefs = BackrefsWith(rs1[ino], dir, name)]
      k   == get_inode_backref(r, dir, name)
      b   == r.backrefs[k]
      nb  == CASE itemtype = "DIR_INDEX" ->
                    [b EXCEPT !.errors = @ \cup errs
                        \cup Flag(b.found_dir_index, "REF_ERR_DUP_DIR_INDEX")
                        \cup Flag(b.found_inode_ref /\ b.index # index, "REF_ERR_INDEX_UNMATCH")
                        \cup Flag(b.found_dir_item /\ b.filetype # filetype, "REF_ERR_FILETYPE_UNMATCH"),
                      !.index = index, !.filetype = filetype, !.found_dir_index = TRUE]
               [] itemtype = "DIR_ITEM" ->
                    [b EXCEPT !.errors = @ \cup errs
                        \cup Flag(b.found_dir_item, "REF_ERR_DUP_DIR_ITEM")
                        \cup Flag(b.found_dir_index /\ b.filetype # filetype, "REF_ERR_FILETYPE_UNMATCH"),
                      !.filetype = filetype, !.found_dir_item = TRUE]
               [] OTHER ->
                    [b EXCEPT !.errors = @ \cup errs
                        \cup Flag(b.found_inode_ref, "REF_ERR_DUP_INODE_REF")
                        \cup Flag(b.found_dir_index /\ b.index # index, "REF_ERR_INDEX_UNMATCH"),
                      !.ref_type = itemtype, !.index = index, !.found_inode_ref = TRUE]
      nr  == [r EXCEPT !.backrefs[k] = nb,
                       !.found_link = IF itemtype = "DIR_ITEM" THEN @ + 1 ELSE @]
  IN maybe_free_inode_rec([rs1 EXCEPT ![ino] = nr], ino)

(* process_dir_item: each entry of a DIR_ITEM or DIR_INDEX item adds its  *)
(* name to the size of the directory and a backref to the inode it names. *)
(* (The entries of the model's trees name inodes, never subvolume roots.) *)
process_dir_item(rs, key) ==
  LET step(acc, e) ==
        add_inode_backref([acc EXCEPT ![key.obj].found_size = @ + NameLen[e.name]],
                          e.loc, key.obj, key.off, e.name, e.ftype, key.type, {})
      rs1 == FoldLeft(step, [rs EXCEPT ![key.obj].found_dir_item = TRUE], key.entries)
  IN IF key.type = "DIR_INDEX" /\ Len(key.entries) > 1
     THEN [rs1 EXCEPT ![key.obj].errors = @ \cup {"I_ERR_DUP_DIR_INDEX"}]
     ELSE rs1

(* process_inode_ref and process_inode_extref: a backref from the parent  *)
(* directory (the key offset, or the parent field of an extref) for each  *)
(* name the item holds.                                                   *)
process_inode_ref(rs, key) ==
  LET parent(e) == IF key.type = "INODE_REF" THEN key.off ELSE e.parent
      step(acc, e) == add_inode_backref(acc, key.obj, parent(e), e.index, e.name,
                                        "FT_UNKNOWN", key.type, {})
  IN FoldLeft(step, rs, key.entries)

process_inode_item(rs, key) ==
  LET r == rs[key.obj] IN
  IF r.found_inode_item
  THEN [rs EXCEPT ![key.obj].errors = @ \cup {"I_ERR_DUP_INODE_ITEM"}]
  ELSE maybe_free_inode_rec(
         [rs EXCEPT ![key.obj] =
            [r EXCEPT !.nlink = key.nlink, !.isize = key.isize,
                      !.nbytes = key.nbytes, !.imode = key.mode,
                      !.nodatasum = key.nodatasum, !.found_inode_item = TRUE,
                      !.errors = @ \cup Flag(key.nlink = 0, "I_ERR_NO_ORPHAN_ITEM")]],
         key.obj)

RoundUp(n) == ((n + Sector - 1) \div Sector) * Sector

(* process_file_extent.  The checksum tree is abstracted to key.csum, the *)
(* bytes of the extent that count_csum_range finds covered.               *)
process_file_extent(rs, key) ==
  LET r0  == rs[key.obj]
      r1  == [r0 EXCEPT !.found_file_extent = TRUE,
                        !.extent_start = IF @ = U64Max THEN key.off ELSE @,
                        !.extent_end = IF r0.extent_start = U64Max THEN key.off ELSE @]
      ovl == r1.extent_end > key.off
      gap == IF ~ovl /\ r1.extent_end < key.off /\ r1.extent_end < r1.first_extent_gap
             THEN r1.extent_end ELSE r1.first_extent_gap
      inline == key.etype = "INLINE"
      num == IF inline THEN RoundUp(key.num) ELSE key.num
      bad == IF inline THEN key.num = 0
             ELSE \/ key.num = 0 \/ key.num % Sector # 0
                  \/ key.num + key.eoff > key.ram
      disk == ~inline /\ key.disk
      r2  == [r1 EXCEPT
               !.errors = @ \cup Flag(ovl, "I_ERR_FILE_EXTENT_OVERLAP")
                            \cup Flag(bad, "I_ERR_BAD_FILE_EXTENT")
                            \cup Flag(disk /\ key.etype = "PREALLOC" /\ key.csum > 0,
                                      "I_ERR_ODD_CSUM_ITEM"),
               !.first_extent_gap = gap,
               !.found_size = IF inline \/ disk THEN @ + key.num ELSE @,
               !.extent_end = key.off + num,
               !.found_csum_item = @ \/ (disk /\ key.etype = "REG" /\ key.csum > 0),
               !.some_csum_missing = @ \/ (disk /\ key.etype = "REG" /\ key.csum < num)]
  IN [rs EXCEPT ![key.obj] = r2]

(* The handler process_one_leaf calls for an item.                        *)
Dispatch(rs, key) ==
  CASE key.type \in {"DIR_ITEM", "DIR_INDEX"} -> process_dir_item(rs, key)
    [] key.type \in {"INODE_REF", "INODE_EXTREF"} -> process_inode_ref(rs, key)
    [] key.type = "INODE_ITEM" -> process_inode_item(rs, key)
    [] key.type = "EXTENT_DATA" -> process_file_extent(rs, key)
    [] OTHER -> rs

Init ==
  /\ items \in Images
  /\ pos = 1
  /\ recs = <<>>
  /\ current = 0
  /\ phase = "walk"
  /\ error = 0
  /\ ret = 1

(* Closing the record of the inode the walk leaves: marked checked and    *)
(* offered to maybe_free_inode_rec.                                       *)
Leave(rs, ino) == maybe_free_inode_rec([rs EXCEPT ![ino].checked = TRUE], ino)

(* One iteration of the item loop of process_one_leaf: a higher inode     *)
(* number closes the current record and opens the next, then the item is *)
(* dispatched on its type.                                                *)
process_one_leaf ==
  /\ phase = "walk"
  /\ pos <= Len(items)
  /\ LET key  == items[pos]
         next == current = 0 \/ current < key.obj
         rs0  == IF next /\ current # 0 THEN Leave(recs, current) ELSE recs
         rs1  == IF next THEN get_inode_rec(rs0, key.obj) ELSE rs0
     IN /\ recs' = Dispatch(rs1, key)
        /\ current' = IF next THEN key.obj ELSE current
  /\ pos' = pos + 1
  /\ UNCHANGED <<items, phase, error, ret>>

(* check_root_dir: 0 when the root directory has its inode item, no      *)
(* errors, one link and no dir entry, and its first backref is the inode *)
(* ref "..".                                                              *)
check_root_dir(r) ==
  IF /\ r.found_inode_item /\ r.errors = {}
     /\ r.nlink = 1 /\ r.found_link = 0
     /\ r.backrefs # <<>>
     /\ r.backrefs[1].found_inode_ref /\ r.backrefs[1].index = 0
     /\ r.backrefs[1].name = ".."
     /\ ~r.backrefs[1].found_dir_index /\ ~r.backrefs[1].found_dir_item
  THEN 0 ELSE -1

(* The end of check_fs_root after the walk: the last record is closed,   *)
(* then check_inode_recs checks the root directory.  A missing root      *)
(* directory is printed but not counted.                                 *)
FinishWalk ==
  /\ phase = "walk"
  /\ pos > Len(items)
  /\ LET rs == IF current # 0 THEN Leave(recs, current) ELSE recs
     IN /\ recs' = rs
        /\ error' = IF RootDirId \in DOMAIN rs /\ check_root_dir(rs[RootDirId]) # 0
                    THEN error + 1 ELSE error
  /\ phase' = "recs"
  /\ UNCHANGED <<items, pos, current, ret>>

(* check_orphan_item: the tree holds an orphan item for ino.              *)
check_orphan_item(ino) ==
  \E k \in DOMAIN items : /\ items[k].obj = OrphanObjectid
                          /\ items[k].type = "ORPHAN_ITEM"
                          /\ items[k].off = ino

(* One iteration of the loop of check_inode_recs: the lowest record left  *)
(* is removed and, unless it is the root directory, the orphan record or *)
(* an unlinked inode whose orphan item exists, counted as an error.       *)
check_inode_recs ==
  /\ phase = "recs"
  /\ DOMAIN recs # {}
  /\ LET ino == Min(DOMAIN recs)
         r   == recs[ino]
         r1  == IF "I_ERR_NO_ORPHAN_ITEM" \in r.errors /\ check_orphan_item(ino)
                THEN [r EXCEPT !.errors = @ \ {"I_ERR_NO_ORPHAN_ITEM"}] ELSE r
         skip == \/ ino \in {RootDirId, OrphanObjectid}
                 \/ "I_ERR_NO_ORPHAN_ITEM" \in r.errors /\ can_free_inode_rec(r1)
     IN /\ recs' = Restrict(recs, DOMAIN recs \ {ino})
        /\ error' = IF skip THEN error ELSE error + 1
  /\ UNCHANGED <<items, pos, current, phase, ret>>

(* Mutant: returns the number of records in error.                        *)
Return_count ==
  /\ phase = "recs"
  /\ DOMAIN recs = {}
  /\ phase' = "done"
  /\ ret' = error
  /\ UNCHANGED <<items, pos, recs, current, error>>

Return ==
  /\ phase = "recs"
  /\ DOMAIN recs = {}
  /\ phase' = "done"
  /\ ret' = IF error > 0 THEN -1 ELSE 0
  /\ UNCHANGED <<items, pos, recs, current, error>>

Next == process_one_leaf \/ FinishWalk \/ check_inode_recs \/ Return

Spec == Init /\ [][Next]_vars

-----------------------------------------------------------------------------
(* Reference definition: a consistent fs tree (spec 4.5 and 8.4), stated  *)
(* over the items, independently of the records the check builds.        *)

Objs == {items[k].obj : k \in DOMAIN items} \ {OrphanObjectid}
ItemsOf(i, t) == {k \in DOMAIN items : items[k].obj = i /\ items[k].type = t}
Inode(i) == items[CHOOSE k \in ItemsOf(i, "INODE_ITEM") : TRUE]
ModeType == ("S_IFDIR" :> "FT_DIR") @@ ("S_IFREG" :> "FT_REG")

(* Every name of every item of the types T, as <<item, entry>>.           *)
Names(T) == UNION {{<<k, j>> : j \in DOMAIN items[k].entries} :
                     k \in {k \in DOMAIN items : items[k].type \in T}}
Entry(p) == items[p[1]].entries[p[2]]
DirLink(p) == [dir |-> items[p[1]].obj, name |-> Entry(p).name, child |-> Entry(p).loc]
RefLink(p) == [dir |-> IF items[p[1]].type = "INODE_REF" THEN items[p[1]].off
                       ELSE Entry(p).parent,
               name |-> Entry(p).name, child |-> items[p[1]].obj]

DI == Names({"DIR_ITEM"})
DX == Names({"DIR_INDEX"})
RF == Names({"INODE_REF", "INODE_EXTREF"})
DotDot == [dir |-> RootDirId, name |-> "..", child |-> RootDirId]

(* The names of one kind are distinct, and every link is named by a dir   *)
(* item, a dir index and an inode ref that agree on index and file type.  *)
LinksAgree ==
  LET L == {DirLink(p) : p \in DI} IN
  /\ Cardinality(L) = Cardinality(DI)
  /\ Cardinality({DirLink(p) : p \in DX}) = Cardinality(DX)
  /\ Cardinality({RefLink(p) : p \in RF}) = Cardinality(RF)
  /\ {DirLink(p) : p \in DX} = L
  /\ {RefLink(p) : p \in RF} = L \cup {DotDot}
  /\ \A p \in DI \cup DX :
       /\ DirLink(p).child \in Objs /\ DirLink(p).child # RootDirId
       /\ Entry(p).ftype = ModeType[Inode(DirLink(p).child).mode]
  /\ \A p \in DX, q \in RF :
       DirLink(p) = RefLink(q) => items[p[1]].off = Entry(q).index
  /\ \A q \in RF : RefLink(q) = DotDot => Entry(q).index = 0

Extents(i) == ItemsOf(i, "EXTENT_DATA")
Mapped(k) == items[k].etype = "INLINE" \/ items[k].disk

(* A regular file: sound extents that never overlap and, when linked,     *)
(* cover [0, isize); nbytes counts the mapped bytes; data checksums       *)
(* cover every mapped regular extent unless the inode is nodatasum.       *)
FileConsistent(i) ==
  LET X == Extents(i)
      end(k) == items[k].off + items[k].num
  IN /\ ItemsOf(i, "DIR_ITEM") \cup ItemsOf(i, "DIR_INDEX") = {}
     /\ \A k \in X : /\ items[k].num > 0
                     /\ items[k].etype # "INLINE" =>
                          /\ items[k].num % Sector = 0
                          /\ items[k].num + items[k].eoff <= items[k].ram
     /\ \A k, l \in X : k < l => end(k) <= items[l].off
     /\ Inode(i).nlink > 0 =>
          \A o \in 0..(Inode(i).isize - 1) :
            \E k \in X : items[k].off <= o /\ o < end(k)
     /\ Inode(i).nbytes = FoldFunctionOnSet(+, 0,
                            [k \in X |-> IF Mapped(k) THEN items[k].num ELSE 0], X)
     /\ \A k \in X : items[k].disk /\ items[k].etype # "INLINE" =>
          items[k].csum = IF items[k].etype = "REG" /\ ~Inode(i).nodatasum
                          THEN items[k].num ELSE 0

(* A directory: no file extents, and its size counts every name twice,   *)
(* once in its dir items and once in its dir indexes.                    *)
DirConsistent(i) ==
  /\ Extents(i) = {}
  /\ Inode(i).isize = FoldFunctionOnSet(+, 0,
                        [p \in DI \cup DX |-> NameLen[Entry(p).name]],
                        {p \in DI \cup DX : items[p[1]].obj = i})

Consistent ==
  /\ RootDirId \in Objs
  /\ \A i \in Objs : Cardinality(ItemsOf(i, "INODE_ITEM")) = 1
  /\ \A k \in DOMAIN items : items[k].type = "DIR_INDEX" => Len(items[k].entries) = 1
  /\ LinksAgree
  /\ Inode(RootDirId).mode = "S_IFDIR" /\ Inode(RootDirId).nlink = 1
  /\ \A i \in Objs \ {RootDirId} :
       Inode(i).nlink = Cardinality({p \in DI : DirLink(p).child = i})
  /\ \A i \in Objs : Inode(i).nlink = 0 =>
       \E k \in DOMAIN items : items[k].type = "ORPHAN_ITEM" /\ items[k].off = i
  /\ \A i \in Objs : IF Inode(i).mode = "S_IFDIR" THEN DirConsistent(i)
                     ELSE FileConsistent(i)

-----------------------------------------------------------------------------
TypeOK ==
  /\ phase \in {"walk", "recs", "done"}
  /\ pos \in 1..(Len(items) + 1)
  /\ ret \in {1, 0, -1}
  /\ error \in 0..Cardinality(Objs \cup {OrphanObjectid})
  /\ DOMAIN recs \subseteq Objs \cup {OrphanObjectid}
  /\ \A i \in DOMAIN recs : recs[i].ino = i

(* active_node->current is never left pointing at a freed record while   *)
(* process_one_leaf still writes through it: maybe_free_inode_rec frees  *)
(* only records the walk has closed, and a closed inode is never reopened *)
(* by the key order.                                                      *)
CurrentLive == phase = "walk" /\ current # 0 => current \in DOMAIN recs

(* check_fs_root returns an error exactly when the tree is inconsistent: *)
(* no record is released while it still has an unmatched name, a link   *)
(* count or size to check, and no record of a sound inode is left over.  *)
VerdictMatchesTree == phase = "done" => (ret = 0 <=> Consistent)
=============================================================================
