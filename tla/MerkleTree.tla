----------------------------- MODULE MerkleTree -----------------------------
(***************************************************************************)
(* Merkle trees over the columns of a matrix, as lcpc-2d builds and climbs *)
(* them and lcpc_online/merkle_tree.rs stores them.                        *)
(*                                                                         *)
(* A tree is one array of digests: the leaves, the layer above them, and   *)
(* so on to the root.  A digest is collision free: it is what it was       *)
(* computed from.                                                          *)
(***************************************************************************)
EXTENDS Integers, SequencesExt

LeafDigest(column) == [leaf |-> column]

NodeDigest(left, right) == [left |-> left, right |-> right]

MerkleLayer(ins) == [i \in 1..Len(ins) \div 2 |-> NodeDigest(ins[2 * i - 1], ins[2 * i])]

\* The least n with 2^n >= width.
Log2(width) == CHOOSE n \in 0..width : 2 ^ n >= width /\ (n = 0 \/ 2 ^ (n - 1) < width)

\* The leaves are a power of two and at least two.
Digests(leaves) ==
  LET height == Log2(Len(leaves))
      layer[n \in 0..height] == IF n = 0 THEN leaves ELSE MerkleLayer(layer[n - 1])
  IN  FlattenSeq([n \in 1..height + 1 |-> layer[n - 1]])

TreeWidth(digests) == (Len(digests) + 1) \div 2

TreeRoot(digests) == Last(digests)

\* Mutant: the right neighbour, whichever side the node is on.
RightNeighbour(index) == index + 1

\* (index & !1) | (!index & 1)
Sibling(index) == IF index % 2 = 0 THEN index + 1 ELSE index - 1

\* Each step up drops the layer it leaves from the front of the array.
GetPath(digests, index) ==
  LET height == Log2(TreeWidth(digests))
      start[n \in 0..height] ==
        IF n = 0 THEN 0 ELSE start[n - 1] + ((Len(digests) - start[n - 1]) + 1) \div 2
  IN  [n \in 1..height |->
         digests[start[n - 1] + Sibling(index \div 2 ^ (n - 1)) + 1]]

\* The digest that a leaf and its path lead to.
Climb(leaf, index, path) ==
  LET hash[n \in 0..Len(path)] ==
        IF n = 0 THEN leaf
        ELSE IF (index \div 2 ^ (n - 1)) % 2 = 0 THEN NodeDigest(hash[n - 1], path[n])
             ELSE NodeDigest(path[n], hash[n - 1])
  IN  hash[Len(path)]
=============================================================================
