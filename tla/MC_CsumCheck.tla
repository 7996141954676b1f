---------------------------- MODULE MC_CsumCheck ----------------------------
(***************************************************************************)
(* Extent and checksum trees for CsumCheck over the addresses 0..5, one  *)
(* address per sector and two bytes of checksum per sector.  An extent   *)
(* tree is a set of disjoint extents (one to three sectors long) with    *)
(* one block group item over the whole space or two over its halves,    *)
(* and optionally an EXTENT_DATA_REF item keyed under every extent.  A   *)
(* checksum tree is a set of disjoint runs of one or two sectors.        *)
(***************************************************************************)
EXTENDS CsumCheck, TLC

MCAddrMax == 6

EXTENT_DATA_REF_KEY == 178

Key(o, t, f) == [obj |-> o, type |-> t, off |-> f]

(* The sets of disjoint intervals <<start, len>> of length at most maxl, *)
(* at most maxn of them, that start at from or later.                   *)
RECURSIVE Intervals(_, _, _)
Intervals(from, maxl, maxn) ==
  {{}} \cup
  IF maxn = 0 THEN {}
  ELSE UNION {{ {<<iv[1], iv[2]>>} \cup rest : rest \in Intervals(iv[1] + iv[2], maxl, maxn - 1)} :
               iv \in {sl \in (from..(MCAddrMax - 1)) \X (1..maxl) : sl[1] + sl[2] <= MCAddrMax}}

(* The items of a set in key order.                                      *)
Sorted(S) == [i \in 1..Cardinality(S) |->
                CHOOSE x \in S : Cardinality({y \in S : KeyLT(y, x)}) = i - 1]

BlockGroups == { {Key(0, BLOCK_GROUP_ITEM_KEY, 6)},
                 {Key(0, BLOCK_GROUP_ITEM_KEY, 3), Key(3, BLOCK_GROUP_ITEM_KEY, 3)} }

ExtentTree(bgs, ivs, refs) ==
  Sorted(bgs \cup {Key(iv[1], EXTENT_ITEM_KEY, iv[2]) : iv \in ivs}
             \cup (IF refs THEN {Key(iv[1], EXTENT_DATA_REF_KEY, 0) : iv \in ivs} ELSE {}))

MCTrees(maxn, refs) == {ExtentTree(bgs, ivs, refs) : bgs \in BlockGroups, ivs \in Intervals(0, 3, maxn)}

CsumTree(ivs) ==
  LET S == {[off |-> iv[1], size |-> 2 * iv[2]] : iv \in ivs}
  IN [i \in 1..Cardinality(S) |->
        CHOOSE x \in S : Cardinality({y \in S : y.off < x.off}) = i - 1]

MCCsumTrees == {CsumTree(ivs) : ivs \in Intervals(0, 2, 3)}

(* The sectors of a checksum item, at two bytes of checksum a sector.    *)
Sectors(item) == item.size \div 2

(* Whether the last checksum item is covered, and alone in its run.      *)
LastCovered(t, c) ==
  LET n == Len(c) IN Covered(t, c[n].off, Sectors(c[n]))
LastAlone(c) ==
  LET n == Len(c) IN n = 1 \/ c[n - 1].off + Sectors(c[n - 1]) # c[n].off

(* Every extent layout against no checksums: the range checks alone.     *)
MCImagesExtents == {<<t, <<>>>> : t \in MCTrees(3, FALSE)}

(* The same layouts with a data backref item keyed under every extent.   *)
MCImagesKeyedRefs == {<<t, <<>>>> : t \in MCTrees(3, TRUE)}

(* The checksum trees whose last run is a covered item of its own, and   *)
(* every extent layout alone.                                             *)
MCImagesCsums == MCImagesExtents \cup
  {<<t, c>> \in MCTrees(2, FALSE) \X MCCsumTrees :
     c = <<>> \/ (LastCovered(t, c) /\ LastAlone(c))}

(* The checksum trees whose last item lies outside every extent.         *)
MCImagesLastRun ==
  {<<t, c>> \in MCTrees(2, FALSE) \X MCCsumTrees :
     c # <<>> /\ ~LastCovered(t, c)}
=============================================================================
