---------------------------- MODULE MC_LeafCheck ----------------------------
(***************************************************************************)
(* Blocks for LeafCheck: leaves of up to 3 items and nodes of up to 4     *)
(* pointers over 3 keys, in the extent tree or an fs tree.  A leaf's item *)
(* data is packed from the end of the data area except for at most one    *)
(* item, whose end is moved by one unit either way.                       *)
(***************************************************************************)
EXTENDS LeafCheck

MCKeys == 1..3

(* Item offsets: every item ends where the previous one starts, item 1 at *)
(* LeafDataSize, plus the displacement d.                                  *)
Offsets(sz, d) ==
  [i \in DOMAIN sz |->
     LeafDataSize + FoldLeft(LAMBDA a, j : a + d[j] - sz[j], 0,
                             [j \in 1..i |-> j])]

Displacements(n) ==
  {[i \in 1..n |-> 0]} \cup
  {[i \in 1..n |-> IF i = j THEN e ELSE 0] : j \in 1..n, e \in {-1, 1}}

Leaves ==
  UNION {{[level |-> 0, owner |-> o, start |-> 100,
           items |-> [i \in 1..n |-> [key |-> ks[i], size |-> sz[i],
                                      off |-> Offsets(sz, d)[i]]]] :
            ks \in [1..n -> MCKeys], sz \in [1..n -> 0..2],
            d \in Displacements(n), o \in {ExtentTreeId, 5}} : n \in 0..3}

Nodes ==
  UNION {{[level |-> 1, owner |-> o, start |-> 100, keys |-> ks] :
            ks \in [1..n -> MCKeys], o \in {ExtentTreeId, 5}} : n \in 0..4}

MCBlocks == {b \in Leaves \cup Nodes :
               b.level > 0 \/ \A i \in DOMAIN b.items : b.items[i].off >= 0}

MCParents == {[set |-> FALSE, key |-> 0]} \cup
             {[set |-> TRUE, key |-> k] : k \in {0} \cup MCKeys}
=============================================================================
