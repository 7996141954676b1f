--------------------------- MODULE MC_RestoreCopy ---------------------------
(***************************************************************************)
(* Files for RestoreCopy: up to two EXTENT_DATA items drawn from a few    *)
(* kinds, over a chunk of 4 units mapped in pieces of 2, on disks where   *)
(* each mirror has at most one unit that reads short and at most one     *)
(* whose content is damaged.                                              *)
(***************************************************************************)
EXTENDS RestoreCopy

Reg(c, b, d, r) == [kind |-> "reg", compress |-> c, bytenr |-> b, disk |-> d,
                    ram |-> r, ok |-> TRUE]
Inline(c, ok) == [kind |-> "inline", compress |-> c, bytenr |-> 0, disk |-> 0,
                  ram |-> 1, ok |-> ok]
Prealloc == [kind |-> "prealloc", compress |-> 0, bytenr |-> 1, disk |-> 2,
             ram |-> 2, ok |-> TRUE]

(* Extents across a mapping boundary (1..2) and at the chunk end (2..3).  *)
Plain == Reg(0, 1, 2, 2)
Zlib1 == Reg(1, 1, 2, 4)
Zlib2 == Reg(1, 2, 2, 4)
Hole == Reg(0, 0, 0, 0)
BadCompress == Reg(3, 1, 2, 2)
Oversized == Reg(0, 1, 2, 3)

Faults == {{}, {1}, {2}, {3}}

FilesOf(kinds, maxItems) ==
  {[items |-> its, short |-> sh, damaged |-> dm, nospace |-> ns] :
     its \in UNION {[1..n -> kinds] : n \in 1..maxItems},
     sh \in [1..NumCopies -> Faults], dm \in [1..NumCopies -> Faults],
     ns \in BOOLEAN}

MCFiles == FilesOf({Plain, Zlib1, Zlib2, Hole, BadCompress, Prealloc,
                    Inline(1, TRUE), Inline(1, FALSE)}, 2)
MCFilesZlib == FilesOf({Zlib1, Zlib2}, 1)
MCFilesPlain == FilesOf({Plain, Oversized}, 1)
=============================================================================
