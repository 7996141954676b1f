--------------------------- MODULE MC_ExtentRefs ---------------------------
(***************************************************************************)
(* Images for ExtentRefs.  One filesystem: the tree root RT, the extent    *)
(* tree (node EN over leaves X1 and X2), the fs tree 5 (node FN) and its   *)
(* snapshot 256 (node S); F and S share the leaves A and B, whose file    *)
(* extents reference the data extents D1 (twice) and D2.  The extent tree  *)
(* content is derived from the walked references, so the base image is    *)
(* consistent; every image is the base image under one layout, one choice *)
(* of FULL_BACKREF flags and inline or keyed refs, one leaf split of the   *)
(* extent items, and one damage.  Sizes are in KiB.                       *)
(***************************************************************************)
EXTENDS ExtentRefs, TLC

RT == 4
EN == 8
FN == 12
SN == 16
D1 == 40
D2 == 48
D3 == 56

LeafNames == {"A", "B", "X1", "X2"}
Layouts == {L \in [LeafNames -> {20, 24, 28, 32}] : IsInjective(L)}
DataSize == (D1 :> 8) @@ (D2 :> 4) @@ (D3 :> 4)

MCRoots == <<[obj |-> 1, blk |-> RT, reloc |-> FALSE],
             [obj |-> 2, blk |-> EN, reloc |-> FALSE],
             [obj |-> 5, blk |-> FN, reloc |-> FALSE],
             [obj |-> 256, blk |-> SN, reloc |-> FALSE]>>

MkBlk(level, owner, full, items) ==
  [level |-> level, owner |-> owner, full |-> full, readable |-> TRUE,
   valid |-> TRUE, items |-> items]

FE(ino, x, off) ==
  [type |-> "EXTENT_DATA", obj |-> ino, inline |-> FALSE, bytenr |-> x,
   disk |-> DataSize[x], off |-> off]

(* The walked trees; the extent leaves are filled in later.               *)
FsBlocks(L, fullS, fullB) ==
  (RT :> MkBlk(0, 1, FALSE, <<>>)) @@
  (EN :> MkBlk(1, 2, FALSE, <<L["X1"], L["X2"]>>)) @@
  (FN :> MkBlk(1, 5, FALSE, <<L["A"], L["B"]>>)) @@
  (SN :> MkBlk(1, 256, fullS, <<L["A"], L["B"]>>)) @@
  (L["A"] :> MkBlk(0, 5, FALSE, <<FE(257, D1, 0)>>)) @@
  (L["B"] :> MkBlk(0, 5, fullB, <<FE(258, D1, 0), FE(258, D2, 4)>>)) @@
  (L["X1"] :> MkBlk(0, 2, FALSE, <<>>)) @@
  (L["X2"] :> MkBlk(0, 2, FALSE, <<>>))

MkRef(kind, root, parent, owner, offset) ==
  [kind |-> kind, root |-> root, parent |-> parent, owner |-> owner,
   offset |-> offset, count |-> 1]

(* Every reference the walk finds, as <<extent, ref, where>>.             *)
Occurrences(B) ==
  LET PtrRef(p) == IF B[p].full THEN MkRef("SHARED_BLOCK_REF", 0, p, 0, 0)
                   ELSE MkRef("TREE_BLOCK_REF", B[p].owner, 0, 0, 0)
      FileRef(p, fe) ==
        IF B[p].full THEN MkRef("SHARED_DATA_REF", 0, p, 0, 0)
        ELSE MkRef("EXTENT_DATA_REF", B[p].owner, 0, fe.obj, fe.off)
      Of(p) == IF B[p].level > 0
               THEN {<<B[p].items[i], PtrRef(p), <<p, i>> >> :
                       i \in 1..Len(B[p].items)}
               ELSE {<<B[p].items[i].bytenr, FileRef(p, B[p].items[i]),
                       <<p, i>> >> : i \in 1..Len(B[p].items)}
  IN {<<MCRoots[i].blk, MkRef("TREE_BLOCK_REF", MCRoots[i].obj, 0, 0, 0),
        <<0, i>> >> : i \in 1..Len(MCRoots)}
     \cup UNION {Of(p) : p \in DOMAIN B}

KindCode == ("TREE_BLOCK_REF" :> 176) @@ ("EXTENT_DATA_REF" :> 178) @@
            ("SHARED_BLOCK_REF" :> 182) @@ ("SHARED_DATA_REF" :> 184)

RefKey(r) == <<KindCode[r.kind], r.root + r.parent, r.owner + r.offset>>
LexLT(a, b) == \E i \in 1..Len(a) :
                 a[i] < b[i] /\ \A j \in 1..(i - 1) : a[j] = b[j]

(* The elements of S in the order lt, smallest first.                     *)
(* key is a function on a superset of X giving distinct sort keys.        *)
RECURSIVE SortBy(_, _)
SortBy(X, key) ==
  IF X = {} THEN <<>>
  ELSE LET m == CHOOSE x \in X : \A y \in X \ {x} : LexLT(key[x], key[y])
       IN <<m>> \o SortBy(X \ {m}, key)

(* The refs of extent x as the extent tree keeps them, counts merged.     *)
DeclaredRefs(occs, x) ==
  LET occ == {o \in occs : o[1] = x}
      keys == {o[2] : o \in occ}
      refs == {[k EXCEPT !.count = Cardinality({o \in occ : o[2] = k})] :
                 k \in keys}
  IN SortBy(refs, [r \in refs |-> RefKey(r)])

ItemKey(it) == IF it.type = "EXTENT_ITEM" THEN <<it.obj, 168, 0, 0>>
               ELSE <<it.obj>> \o RefKey(it.ref)

(* The extent items (and, when keyed, the last ref as its own item).      *)
ExtentItems(B, keyed) ==
  LET occs == Occurrences(B)
      Rs == [x \in {o[1] : o \in occs} |-> DeclaredRefs(occs, x)]
      Split(x) == keyed /\ Len(Rs[x]) > 1
      Item(x) == [type |-> "EXTENT_ITEM", obj |-> x,
                  size |-> IF x \in DOMAIN B THEN Leaf ELSE DataSize[x],
                  refs |-> FoldLeft(LAMBDA n, r : n + r.count, 0, Rs[x]),
                  inline |-> IF Split(x) THEN Front(Rs[x]) ELSE Rs[x]]
      Keyed(x) == [type |-> Last(Rs[x]).kind, obj |-> x, ref |-> Last(Rs[x])]
  IN {Item(x) : x \in DOMAIN Rs} \cup {Keyed(x) : x \in {y \in DOMAIN Rs : Split(y)}}

ItemOf(items, x) == CHOOSE it \in items : it.type = "EXTENT_ITEM" /\ it.obj = x

(* Damage done to the extent tree.                                        *)
Retype(items, x, f(_)) == (items \ {ItemOf(items, x)}) \cup {f(ItemOf(items, x))}

DamageItems(items, d, L) ==
  CASE d = "refs_more" -> Retype(items, D1, LAMBDA it : [it EXCEPT !.refs = @ + 1])
    [] d = "refs_less" -> Retype(items, L["A"], LAMBDA it : [it EXCEPT !.refs = @ - 1])
    [] d = "lost_ref" -> Retype(items, L["A"], LAMBDA it : [it EXCEPT !.inline = Tail(@)])
    [] d = "data_count" ->
         Retype(items, D1, LAMBDA it : [it EXCEPT !.inline[1].count = @ + 1])
    [] d = "data_size" -> Retype(items, D2, LAMBDA it : [it EXCEPT !.size = 8])
    [] d = "no_item" -> items \ {ItemOf(items, D2)}
    [] d = "stale_item" ->
         items \cup {[type |-> "EXTENT_ITEM", obj |-> D3, size |-> DataSize[D3],
                      refs |-> 1,
                      inline |-> <<MkRef("EXTENT_DATA_REF", 5, 0, 259, 0)>>]}
    [] OTHER -> items

(* Damage done to the trees the walk reads.                               *)
DamageBlocks(B, d, L) ==
  CASE d = "unreadable" -> [B EXCEPT ![L["B"]].readable = FALSE]
    [] d = "bad_leaf" -> [B EXCEPT ![L["A"]].valid = FALSE]
    [] d = "wrong_owner" -> [B EXCEPT ![L["A"]].owner = 7]
    [] d = "cycle" -> [B EXCEPT ![FN].items = Append(@, FN)]
    [] d = "root_owner" -> [B EXCEPT ![FN].owner = 7]
    [] OTHER -> B

(* The images of one layout and flag choice, one per extent leaf split.   *)
ImagesOf(L, fullS, fullB, keyed, d) ==
  LET B == FsBlocks(L, fullS, fullB)
      set == DamageItems(ExtentItems(B, keyed), d, L)
      its == SortBy(set, [it \in set |-> ItemKey(it)])
  IN {[roots |-> MCRoots, corrupt |-> d,
       blocks |-> DamageBlocks(
                    [B EXCEPT ![L["X1"]].items = SubSeq(its, 1, k),
                              ![L["X2"]].items = SubSeq(its, k + 1, Len(its))],
                    d, L)] : k \in 1..(Len(its) - 1)}

MCDamages == {"refs_more", "refs_less", "lost_ref", "data_count",
              "data_size", "no_item", "stale_item", "unreadable", "bad_leaf",
              "wrong_owner", "cycle", "root_owner"}

(* Damaged images keep A before B and X1 before X2 in the address order.  *)
DamageLayouts == {L \in Layouts : L["A"] < L["B"] /\ L["X1"] < L["X2"]}

MCImages(LS, D) == UNION {ImagesOf(L, fs, fb, kd, d) :
                            L \in LS, fs \in BOOLEAN, fb \in BOOLEAN,
                            kd \in BOOLEAN, d \in D}

MCImagesAll == MCImages(Layouts, {"none"}) \cup
               MCImages(DamageLayouts, MCDamages)
MCImagesRootOwner == MCImages(DamageLayouts, {"root_owner"})
=============================================================================
