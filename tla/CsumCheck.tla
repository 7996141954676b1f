------------------------------ MODULE CsumCheck -----------------------------
(***************************************************************************)
(* The checksum verifier of cmds-check.c: check_csums walks the checksum  *)
(* tree, joins checksum items whose ranges abut into runs, and asks       *)
(* check_extent_exists whether each run lies inside extent items of the   *)
(* extent tree.                                                           *)
(*                                                                         *)
(* The extent tree is its item sequence in key order, each item a key     *)
(* [obj, type, off] with the type as its key type number; the path of a   *)
(* search is a slot into that sequence (btrfs_prev_leaf and               *)
(* btrfs_next_leaf move to the last item of the previous leaf and the    *)
(* first of the next).  Slots are C indices, from 0.                      *)
(***************************************************************************)
EXTENDS Integers, Sequences, FiniteSets

CONSTANTS
  Images,      \* pairs <<extent tree, checksum tree>>: the extent tree an
               \* item sequence in key order, the checksum tree a sequence
               \* of [off, size] in key order
  CsumSize,    \* btrfs_super_csum_size
  Sector,      \* root->sectorsize
  AddrMax      \* the addresses are 0..AddrMax-1

EXTENT_ITEM_KEY == 168
BLOCK_GROUP_ITEM_KEY == 192

VARIABLES
  etree,      \* fs_info->extent_root
  csums,      \* fs_info->csum_root
  slot,       \* path->slots[0] of check_csums
  offset,     \* the start of the current run
  num_bytes,  \* the length of the current run, 0 before the first item
  errors,     \* the runs reported without an extent record
  ret         \* the result of check_csums, -1 before it returns

vars == <<etree, csums, slot, offset, num_bytes, errors, ret>>

KeyLT(a, b) == \/ a.obj < b.obj
               \/ a.obj = b.obj /\ a.type < b.type
               \/ a.obj = b.obj /\ a.type = b.type /\ a.off < b.off

(* The slot a search of the extent tree for key leaves the walk at: the  *)
(* search stops at key or before the first greater item; when key is not *)
(* found it steps back one item (btrfs_prev_leaf at slot 0 of the first  *)
(* leaf leaves the path alone), and once more over a block group item.   *)
(* Mutant: the step back over a block group item left out.               *)
SearchSlot_nobg(t, key) ==
  LET s  == Cardinality({k \in DOMAIN t : KeyLT(t[k], key)})
  IN IF s < Len(t) /\ t[s + 1] = key THEN s ELSE IF s > 0 THEN s - 1 ELSE 0

SearchSlot(t, key) ==
  LET s  == Cardinality({k \in DOMAIN t : KeyLT(t[k], key)})
      s1 == IF s < Len(t) /\ t[s + 1] = key THEN s
            ELSE IF s > 0 THEN s - 1 ELSE 0
  IN IF t[s1 + 1].type = BLOCK_GROUP_ITEM_KEY /\ s1 > 0 THEN s1 - 1 ELSE s1

(* check_extent_exists(bytenr, num_bytes): 0 when extent items cover the *)
(* range.  ExtentWalk is its while loop at slot s.  An extent k inside   *)
(* the range that ends before it makes the code check the right part by  *)
(* a recursive call and then search again (goto again) with the key it   *)
(* last read, which is k itself, for the left part.                      *)
RECURSIVE check_extent_exists(_, _, _), ExtentWalk(_, _, _, _)
check_extent_exists(t, bytenr, n) ==
  ExtentWalk(t, SearchSlot(t, [obj |-> bytenr, type |-> EXTENT_ITEM_KEY, off |-> 0]), bytenr, n)

ExtentWalk(t, s, bytenr, n) ==
  IF n = 0 THEN 0
  ELSE IF s >= Len(t) THEN 1
  ELSE LET k == t[s + 1]
           kend == k.obj + k.off
       IN IF k.type # EXTENT_ITEM_KEY \/ kend < bytenr THEN ExtentWalk(t, s + 1, bytenr, n)
          ELSE IF k.obj > bytenr + n THEN 1
          ELSE IF k.obj = bytenr
               THEN IF k.off >= n THEN 0
                    ELSE ExtentWalk(t, s + 1, bytenr + k.off, n - k.off)
          ELSE IF k.obj < bytenr
               THEN IF kend >= bytenr + n THEN 0
                    ELSE ExtentWalk(t, s + 1, kend, bytenr + n - kend)
          ELSE IF kend < bytenr + n
               THEN IF check_extent_exists(t, kend, bytenr + n - kend) # 0 THEN 1
                    ELSE ExtentWalk(t, SearchSlot(t, k), bytenr, k.obj - bytenr)
          ELSE ExtentWalk(t, s + 1, bytenr, k.obj - bytenr)

(* Mutant: the item size taken as bytes of data, not divided by the     *)
(* checksum size.                                                         *)
CsumBytes_raw(item) == item.size * Sector

(* The bytes of data a checksum item covers.                             *)
CsumBytes(item) == (item.size \div CsumSize) * Sector

Init ==
  /\ \E img \in Images : etree = img[1] /\ csums = img[2]
  /\ slot = 0
  /\ offset = 0
  /\ num_bytes = 0
  /\ errors = 0
  /\ ret = -1

(* Mutant: the run's start not moved to the new item at a gap.           *)
check_csums_keepoffset ==
  /\ ret = -1
  /\ slot < Len(csums)
  /\ LET key == csums[slot + 1]
         gap == num_bytes # 0 /\ key.off # offset + num_bytes
     IN /\ errors' = IF gap /\ check_extent_exists(etree, offset, num_bytes) # 0
                     THEN errors + 1 ELSE errors
        /\ offset' = IF num_bytes = 0 THEN key.off ELSE offset
        /\ num_bytes' = (IF gap THEN 0 ELSE num_bytes) + CsumBytes(key)
  /\ slot' = slot + 1
  /\ UNCHANGED <<etree, csums, ret>>

(* One checksum item: it starts the first run, extends the current run   *)
(* when it starts where the run ends, or else closes the run (checked    *)
(* against the extent tree) and starts the next.                         *)
check_csums ==
  /\ ret = -1
  /\ slot < Len(csums)
  /\ LET key == csums[slot + 1]
         gap == num_bytes # 0 /\ key.off # offset + num_bytes
     IN /\ errors' = IF gap /\ check_extent_exists(etree, offset, num_bytes) # 0
                     THEN errors + 1 ELSE errors
        /\ offset' = IF num_bytes = 0 \/ gap THEN key.off ELSE offset
        /\ num_bytes' = (IF gap THEN 0 ELSE num_bytes) + CsumBytes(key)
  /\ slot' = slot + 1
  /\ UNCHANGED <<etree, csums, ret>>

(* btrfs_next_leaf finds no further leaf: the loop ends.                 *)
Finish ==
  /\ ret = -1
  /\ slot >= Len(csums)
  /\ ret' = errors
  /\ UNCHANGED <<etree, csums, slot, offset, num_bytes, errors>>

Next == check_csums \/ Finish

Spec == Init /\ [][Next]_vars

-----------------------------------------------------------------------------
(* Reference: the bytes of [b, b + n) all lie inside extent items.        *)
Covered(t, b, n) ==
  \A x \in b..(b + n - 1) :
    \E k \in DOMAIN t : /\ t[k].type = EXTENT_ITEM_KEY
                        /\ t[k].obj <= x /\ x < t[k].obj + t[k].off

CsumCovered(c) ==
  \A i \in DOMAIN c : Covered(etree, c[i].off, CsumBytes(c[i]))

TypeOK ==
  /\ slot \in 0..Len(csums)
  /\ offset \in 0..AddrMax
  /\ num_bytes \in 0..(AddrMax - offset)
  /\ errors \in 0..Len(csums)
  /\ ret \in -1..Len(csums)

(* check_extent_exists answers whether extent items cover a range, for   *)
(* every range of the address space, whatever the item layout (extents   *)
(* met at their start, inside, or split by the range; block group items  *)
(* between them).                                                         *)
ExtentExistsExact ==
  \A b \in 0..(AddrMax - 1) : \A n \in 1..(AddrMax - b) :
    (check_extent_exists(etree, b, n) = 0) <=> Covered(etree, b, n)

(* check_csums reports an error exactly when some checksummed byte has no *)
(* extent item around it.                                                 *)
CsumVerdict == ret # -1 => (ret = 0 <=> CsumCovered(csums))
=============================================================================
