---------------------------- MODULE MC_InodeRecs ----------------------------
(***************************************************************************)
(* fs trees for InodeRecs.  The base tree: the root directory 256 holds   *)
(* the file 257 as "a" and the directory 258 as "b"; 258 holds 257 again  *)
(* as "c" (a hard link from a directory above the file in key order);     *)
(* 259 is an unlinked file with its orphan item; 260 is an empty file    *)
(* in the root directory, complete as soon as its inode ref is read.  The file data of 257 is *)
(* one of several extent layouts; every image is one layout with at most  *)
(* one damage: one item dropped, or one field or entry changed.           *)
(***************************************************************************)
EXTENDS InodeRecs, TLC

MCOrphan == 1000

MCNameLen == (".." :> 2) @@ ("a" :> 1) @@ ("b" :> 1) @@ ("c" :> 1) @@ ("d" :> 1) @@ ("x" :> 1)

Blank == [obj |-> 0, type |-> "NONE", off |-> 0, mode |-> "S_IFUNK",
          nlink |-> 0, isize |-> 0, nbytes |-> 0, nodatasum |-> FALSE,
          entries |-> <<>>, etype |-> "NONE", num |-> 0, disk |-> FALSE,
          eoff |-> 0, ram |-> 0, csum |-> 0]

Ent(loc, name, ft, index, parent) ==
  [loc |-> loc, name |-> name, ftype |-> ft, index |-> index, parent |-> parent]
DirEnt(child, name, ft) == Ent(child, name, ft, 0, 0)
RefEnt(index, name) == Ent(0, name, "FT_UNKNOWN", index, 0)

InodeItem(o, mode, nlink, isize, nbytes, nds) ==
  [Blank EXCEPT !.obj = o, !.type = "INODE_ITEM", !.mode = mode, !.nlink = nlink,
                !.isize = isize, !.nbytes = nbytes, !.nodatasum = nds]
Entries(o, t, off, es) == [Blank EXCEPT !.obj = o, !.type = t, !.off = off, !.entries = es]
Ext(o, off, etype, num, disk, csum) ==
  [Blank EXCEPT !.obj = o, !.type = "EXTENT_DATA", !.off = off, !.etype = etype,
                !.num = num, !.disk = disk, !.ram = num, !.csum = csum]
Orphan(ino) == [Blank EXCEPT !.obj = MCOrphan, !.type = "ORPHAN_ITEM", !.off = ino]

(* The extent layouts of 257: <<extents, isize, nbytes, nodatasum>>.      *)
Layouts ==
  {<< <<Ext(257, 0, "REG", 2, TRUE, 2), Ext(257, 2, "REG", 2, TRUE, 2)>>, 4, 4, FALSE>>,
   << <<Ext(257, 0, "REG", 2, FALSE, 0), Ext(257, 2, "REG", 2, TRUE, 2)>>, 4, 2, FALSE>>,
   << <<Ext(257, 0, "PREALLOC", 4, TRUE, 0)>>, 4, 4, FALSE>>,
   << <<Ext(257, 0, "REG", 4, TRUE, 0)>>, 4, 4, TRUE>>,
   << <<Ext(257, 0, "INLINE", 2, FALSE, 0)>>, 2, 2, FALSE>>}

(* The second link of 257 as an INODE_REF keyed by 258 or an extref.      *)
SecondRef(extref) ==
  IF extref THEN Entries(257, "INODE_EXTREF", 77, <<Ent(0, "c", "FT_UNKNOWN", 2, 258)>>)
  ELSE Entries(257, "INODE_REF", 258, <<RefEnt(2, "c")>>)

Base(L, extref) ==
  << InodeItem(256, "S_IFDIR", 1, 6, 0, FALSE),
     Entries(256, "INODE_REF", 256, <<RefEnt(0, "..")>>),
     Entries(256, "DIR_ITEM", 10, <<DirEnt(257, "a", "FT_REG")>>),
     Entries(256, "DIR_ITEM", 20, <<DirEnt(258, "b", "FT_DIR")>>),
     Entries(256, "DIR_ITEM", 40, <<DirEnt(260, "d", "FT_REG")>>),
     Entries(256, "DIR_INDEX", 2, <<DirEnt(257, "a", "FT_REG")>>),
     Entries(256, "DIR_INDEX", 3, <<DirEnt(258, "b", "FT_DIR")>>),
     Entries(256, "DIR_INDEX", 4, <<DirEnt(260, "d", "FT_REG")>>),
     InodeItem(257, "S_IFREG", 2, L[2], L[3], L[4]),
     Entries(257, "INODE_REF", 256, <<RefEnt(2, "a")>>) >>
  \o <<SecondRef(extref)>> \o L[1]
  \o << InodeItem(258, "S_IFDIR", 1, 2, 0, FALSE),
        Entries(258, "INODE_REF", 256, <<RefEnt(3, "b")>>),
        Entries(258, "DIR_ITEM", 30, <<DirEnt(257, "c", "FT_REG")>>),
        Entries(258, "DIR_INDEX", 2, <<DirEnt(257, "c", "FT_REG")>>),
        InodeItem(259, "S_IFREG", 0, 0, 0, FALSE),
        InodeItem(260, "S_IFREG", 1, 0, 0, FALSE),
        Entries(260, "INODE_REF", 256, <<RefEnt(4, "d")>>),
        Orphan(259) >>

(* The position of the first item of obj and type in s.                   *)
At(s, o, t) == SelectInSeq(s, LAMBDA it : it.obj = o /\ it.type = t)
Set(s, o, t, f(_)) == [s EXCEPT ![At(s, o, t)] = f(@)]

(* One changed field or entry.                                            *)
Damaged(s, d) ==
  CASE d = "nlink_more" -> Set(s, 257, "INODE_ITEM", LAMBDA it : [it EXCEPT !.nlink = 3])
    [] d = "nlink_less" -> Set(s, 257, "INODE_ITEM", LAMBDA it : [it EXCEPT !.nlink = 1])
    [] d = "unlinked_nlink" -> Set(s, 259, "INODE_ITEM", LAMBDA it : [it EXCEPT !.nlink = 1])
    [] d = "dir_isize" -> Set(s, 256, "INODE_ITEM", LAMBDA it : [it EXCEPT !.isize = 8])
    [] d = "file_isize" -> Set(s, 257, "INODE_ITEM", LAMBDA it : [it EXCEPT !.isize = @ + 2])
    [] d = "nbytes" -> Set(s, 257, "INODE_ITEM", LAMBDA it : [it EXCEPT !.nbytes = @ + 2])
    [] d = "nodatasum" -> Set(s, 257, "INODE_ITEM", LAMBDA it : [it EXCEPT !.nodatasum = ~@])
    [] d = "ref_index" -> Set(s, 257, "INODE_REF", LAMBDA it : [it EXCEPT !.entries[1].index = 5])
    [] d = "item_ftype" -> Set(s, 256, "DIR_ITEM", LAMBDA it : [it EXCEPT !.entries[1].ftype = "FT_DIR"])
    [] d = "index_ftype" -> Set(s, 258, "DIR_INDEX", LAMBDA it : [it EXCEPT !.entries[1].ftype = "FT_DIR"])
    [] d = "dup_index" -> Set(s, 258, "DIR_INDEX", LAMBDA it : [it EXCEPT !.entries = @ \o @])
    [] d = "extent_off" -> Set(s, 257, "EXTENT_DATA", LAMBDA it : [it EXCEPT !.off = 1])
    [] d = "extent_len" -> Set(s, 257, "EXTENT_DATA", LAMBDA it : [it EXCEPT !.num = 1, !.ram = 1])
    [] d = "extent_csum" -> Set(s, 257, "EXTENT_DATA", LAMBDA it : [it EXCEPT !.csum = 1])
    [] d = "dir_extent" -> InsertAt(s, At(s, 258, "INODE_REF") + 1, Ext(258, 0, "REG", 2, TRUE, 2))
    [] OTHER -> s

MCDamages == {"nlink_more", "nlink_less", "unlinked_nlink", "dir_isize",
              "file_isize", "nbytes", "nodatasum", "ref_index", "item_ftype",
              "index_ftype", "dup_index", "extent_off", "extent_len",
              "extent_csum", "dir_extent"}

Bases == {Base(L, x) : L \in Layouts, x \in BOOLEAN}

MCImages == Bases
            \cup UNION {{RemoveAt(b, k) : k \in 1..Len(b)} : b \in Bases}
            \cup {Damaged(b, d) : b \in Bases, d \in MCDamages}
=============================================================================
