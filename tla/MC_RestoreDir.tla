--------------------------- MODULE MC_RestoreDir ----------------------------
(***************************************************************************)
(* Images for RestoreDir.  The fs tree (5) holds the file a, the          *)
(* directory d (with the file b and the symlinks s, t, u, v) and the subvolume sub    *)
(* (tree 300), which holds the file c and its snapshot snap (tree 301,    *)
(* with the snapshot's entry for itself).  Variants: a leaf boundary      *)
(* inside the root directory; the root directory's items lost (so -d      *)
(* finds d); tree 301 unreadable; a copy that fails; files or directories *)
(* already in the output; a path that cannot be created; and the cyclic   *)
(* layout: a snapshot of the fs tree (302) placed inside sub, whose copy  *)
(* of the entry sub still names tree 300.                                 *)
(***************************************************************************)
EXTENDS RestoreDir, TLC, FiniteSets

E(name, type, obj, isroot) ==
  [kind |-> "entry", name |-> name, type |-> type, obj |-> obj, isroot |-> isroot]
Leaf == [kind |-> "leaf", name |-> "", type |-> "", obj |-> 0, isroot |-> FALSE]

Tree(snap, ok, dirs) == [snap |-> snap, ok |-> ok, dirs |-> dirs]

FsDirs(leaf, lost) ==
  LET top == <<E("a", "reg", 257, FALSE)>> \o (IF leaf THEN <<Leaf>> ELSE <<>>)
             \o <<E("d", "dir", 258, FALSE), E("sub", "dir", 300, TRUE)>>
      sub == <<E("b", "reg", 259, FALSE), E("s", "other", 260, FALSE),
              E("t", "other", 261, FALSE), E("u", "other", 262, FALSE),
              E("v", "other", 263, FALSE)>>
  IN IF lost THEN (258 :> sub) ELSE (256 :> top) @@ (258 :> sub)

Roots(leaf, lost, snapok, cyc) ==
  (5 :> Tree(FALSE, TRUE, FsDirs(leaf, lost)))
  @@ (300 :> Tree(FALSE, TRUE,
        256 :> (<<E("c", "reg", 257, FALSE), E("snap", "dir", 301, TRUE)>>
                \o (IF cyc THEN <<E("snapA", "dir", 302, TRUE)>> ELSE <<>>))))
  @@ (301 :> Tree(TRUE, snapok,
        256 :> <<E("c", "reg", 257, FALSE), E("snap", "dir", 301, TRUE)>>))
  @@ (IF cyc THEN 302 :> Tree(TRUE, TRUE, FsDirs(FALSE, FALSE)) ELSE <<>>)

Outs == { <<>> :> "dir",
          (<<>> :> "dir") @@ (<<"a">> :> "file"),
          (<<>> :> "dir") @@ (<<"d">> :> "file"),
          (<<>> :> "dir") @@ (<<"a">> :> "dir") }

(* The superblock mirrors: [chunk tree readable, tree root readable].    *)
Sb(c, r) == [chunk |-> c, root |-> r]
GoodSupers == [i \in 0..2 |-> Sb(TRUE, TRUE)]
SuperSets == { GoodSupers,
               [GoodSupers EXCEPT ![0] = Sb(FALSE, FALSE)],
               [GoodSupers EXCEPT ![0] = Sb(TRUE, FALSE)],
               [GoodSupers EXCEPT ![0] = Sb(FALSE, FALSE), ![1] = Sb(FALSE, FALSE)],
               [i \in 0..2 |-> Sb(FALSE, FALSE)] }

Dev(roots, bad, out0, nowrite, mounted, supers, tlocok, fslocok) ==
  [roots |-> roots, bad |-> bad, out0 |-> out0, nowrite |-> nowrite,
   mounted |-> mounted, supers |-> supers, tlocok |-> tlocok, fslocok |-> fslocok]

(* An image whose device opens.                                           *)
Image(leaf, lost, snapok, cyc, bad, out0, nowrite) ==
  Dev(Roots(leaf, lost, snapok, cyc), bad, out0, nowrite, FALSE, GoodSupers, TRUE, TRUE)

BaseOut == <<>> :> "dir"

(* The number of variants an image takes away from the base image.       *)
Variants(leaf, lost, snapok, bad, out0, nw) ==
  Cardinality({k \in 1..6 : << leaf, lost, ~snapok, bad # {}, out0 # BaseOut, nw # {} >>[k]})

(* Images with at most maxv variants.                                     *)
Images(cyc, maxv) ==
  UNION {IF Variants(leaf, lost, snapok, bad, out0, nw) <= maxv
         THEN {Image(leaf, lost, snapok, cyc, bad, out0, nw)} ELSE {} :
           leaf \in BOOLEAN, lost \in BOOLEAN, snapok \in BOOLEAN,
           bad \in {{}, {<<5, 257>>}, {<<300, 257>>}}, out0 \in Outs,
           nw \in {{}, {<<"d">>}}}

Options ==
  [snaps : BOOLEAN, overwrite : BOOLEAN, ignore : BOOLEAN,
   rootid : {0, 300, 999}, finddir : BOOLEAN,
   super : {0}, tloc : {FALSE}, fsloc : {FALSE}]

(* The base image under every way of opening the device (mounted, -u,    *)
(* -t, -f), the -f block readable when fslocs is {TRUE}.                  *)
OpenCases(fslocs) ==
  {[img |-> Dev(Roots(FALSE, FALSE, TRUE, FALSE), {}, BaseOut, {}, m, sb, tok, fok),
    opt |-> [snaps |-> FALSE, overwrite |-> FALSE, ignore |-> FALSE, rootid |-> 0,
             finddir |-> FALSE, super |-> u, tloc |-> t, fsloc |-> f]] :
     m \in BOOLEAN, sb \in SuperSets, tok \in BOOLEAN, fok \in fslocs,
     u \in {0, 1}, t \in BOOLEAN, f \in BOOLEAN}

CasesUpTo(maxv) ==
  {[img |-> i, opt |-> o] : i \in Images(FALSE, maxv), o \in Options}
  \cup {[img |-> i, opt |-> o] : i \in Images(TRUE, maxv), o \in {o2 \in Options : ~o2.snaps}}

(* Every command line on every image with at most two variants, the      *)
(* cyclic layout only without -s, and every way of opening the device.   *)
MCCases == CasesUpTo(2) \cup OpenCases({TRUE})

(* The base image with the -f block unreadable.                          *)
MCCasesFsloc == OpenCases({FALSE})

(* Every command line on every image.                                     *)
MCCasesAll == CasesUpTo(6)

(* The cyclic layout restored with -s.                                    *)
MCCasesCycle ==
  {[img |-> i, opt |-> o] : i \in Images(TRUE, 2), o \in {o2 \in Options : o2.snaps}}
=============================================================================
