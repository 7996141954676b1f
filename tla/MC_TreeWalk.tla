------------------------------ MODULE MC_TreeWalk ---------------------------
(* Trees for the item walk of copy_file (TreeWalk).  Leaf i of the leaf   *)
(* sizes s holds the even keys after those of leaves 1..i-1, so every     *)
(* odd key searches into a gap.  A block set ok is what reads; the root   *)
(* is always read (open_fs read it).                                       *)
EXTENDS TreeWalk
RECURSIVE SizesBefore(_, _)
SizesBefore(s, i) == IF i <= 1 THEN 0 ELSE s[i - 1] + SizesBefore(s, i - 1)

LeafKeysOf(s, i) == [j \in 1..s[i] |-> 2 * (SizesBefore(s, i) + j)]
First(s, i) == LeafKeysOf(s, i)[1]

(* A single leaf of n items.                                               *)
Tree0(n) == [root |-> 1, level |-> [b \in {1} |-> 0],
             keys |-> [b \in {1} |-> [j \in 1..n |-> 2 * j]],
             ptrs |-> [b \in {1} |-> <<>>], ok |-> {1}]

(* Root 1 (level 1) over the leaves 2..n+1.                                *)
Tree1(s, ok) ==
  LET n == Len(s) IN
  [root  |-> 1,
   level |-> [b \in 1..n + 1 |-> IF b = 1 THEN 1 ELSE 0],
   keys  |-> [b \in 1..n + 1 |-> IF b = 1 THEN [i \in 1..n |-> First(s, i)]
                                  ELSE LeafKeysOf(s, b - 1)],
   ptrs  |-> [b \in 1..n + 1 |-> IF b = 1 THEN [i \in 1..n |-> i + 1]
                                  ELSE <<>>],
   ok    |-> ok]

(* Root 1 (level 2) over node 2 (leaves 1..c) and node 3 (the others);    *)
(* leaf i is block i + 3.                                                  *)
Tree2(s, c, ok) ==
  LET n == Len(s) IN
  [root  |-> 1,
   level |-> [b \in 1..n + 3 |-> CASE b = 1 -> 2 [] b \in {2, 3} -> 1
                                   [] OTHER -> 0],
   keys  |-> [b \in 1..n + 3 |->
               CASE b = 1 -> <<First(s, 1), First(s, c + 1)>>
                 [] b = 2 -> [i \in 1..c |-> First(s, i)]
                 [] b = 3 -> [i \in 1..n - c |-> First(s, c + i)]
                 [] OTHER -> LeafKeysOf(s, b - 3)],
   ptrs  |-> [b \in 1..n + 3 |->
               CASE b = 1 -> <<2, 3>>
                 [] b = 2 -> [i \in 1..c |-> i + 3]
                 [] b = 3 -> [i \in 1..n - c |-> c + i + 3]
                 [] OTHER -> <<>>],
   ok    |-> ok]

Sizes(n) == [1..n -> {1, 2}]

(* Every leaf may fail to read; the nodes above the leaves always read.   *)
MCTrees ==
  {Tree0(n) : n \in 0..2}
  \cup {Tree1(s, {1} \cup bad) : s \in Sizes(3), bad \in SUBSET (2..4)}
  \cup {Tree2(s, c, {1, 2, 3} \cup bad) :
          s \in Sizes(4), c \in 1..3, bad \in SUBSET (4..7)}

(* The same level-2 trees with node 2 or node 3 failing to read.           *)
MCTreesInterior ==
  {Tree2(s, c, {1} \cup nd \cup (4..7)) :
     s \in Sizes(4), c \in 1..3, nd \in {{2}, {3}}}

MCKeys == 1..17
=============================================================================
