----------------------------- MODULE MerkleFrontier -----------------------------
(***************************************************************************)
(* src/src/tree.c: a Merkle tree kept as its frontier, one complete        *)
(* subtree for every level of which the number of leaves has the bit.      *)
(* leaves is a history variable; MaxLeaves bounds leaf_count (a uint64_t). *)
(***************************************************************************)
EXTENDS Naturals, Sequences, SequencesExt, FiniteSetsExt, Hashes

CONSTANTS MERKLE_MAX_DEPTH, Leaf, MaxLeaves

ASSUME MerkleAssumption == MERKLE_MAX_DEPTH \in Nat \ {0} /\ MaxLeaves \in Nat

VARIABLES frontier,         \* level -> hash
          leaf_count,
          leaves            \* all that was appended

merkle == <<frontier, leaf_count, leaves>>

Levels == 0 .. (MERKLE_MAX_DEPTH - 1)

LeafHash(data) == <<data>>

(* Defect: the new subtree becomes the left one. *)
CombinedSwapped(level, hash) == <<hash, frontier[level]>>

Combined(level, hash) == <<frontier[level], hash>>

(* 1 << i *)
Weight[i \in 0 .. MERKLE_MAX_DEPTH] == IF i = 0 THEN 1 ELSE 2 * Weight[i - 1]

Bit(n, i) == (n \div Weight[i]) % 2 = 1

MerkleInit == frontier = [i \in Levels |-> Zero] /\ leaf_count = 0 /\ leaves = <<>>

(* The leaf is carried up to the first level that is free, combined with   *)
(* every subtree on the way; without a free level it is dropped.           *)
merkle_append(data) ==
  LET free       == {i \in Levels : ~Bit(leaf_count, i)}
      carried[i \in Levels] == IF i = 0 THEN LeafHash(data)
                                        ELSE Combined(i - 1, carried[i - 1])
  IN  /\ leaf_count < MaxLeaves
      /\ frontier' = IF free = {} THEN frontier
                     ELSE [frontier EXCEPT ![Min(free)] = carried[Min(free)]]
      /\ leaf_count' = leaf_count + 1
      /\ leaves' = Append(leaves, data)

(* merkle_get_root: the subtrees, from the lowest level up. *)
Root ==
  LET below[i \in 0 .. MERKLE_MAX_DEPTH] ==
        IF i = 0 THEN Zero
        ELSE IF ~Bit(leaf_count, i - 1) THEN below[i - 1]
        ELSE IF below[i - 1] = Zero THEN frontier[i - 1]
        ELSE Combined(i - 1, below[i - 1])
  IN  below[MERKLE_MAX_DEPTH]

merkle_init == /\ leaf_count > 0
               /\ frontier' = [i \in Levels |-> Zero] /\ leaf_count' = 0 /\ leaves' = <<>>

MerkleNext == (\E data \in Leaf : merkle_append(data)) \/ merkle_init
-----------------------------------------------------------------------------
(* The tree of a sequence of leaves: the largest power of two of them that *)
(* leaves some over on the left, the rest on the right.  tree[n][from] is  *)
(* the tree of the n leaves after the first from.                          *)
Left(n) == Max({Weight[i] : i \in 0 .. MERKLE_MAX_DEPTH} \cap 1 .. (n - 1))

Tree(s) ==
  LET tree[n \in 1 .. Len(s)] ==
        [from \in Nat |->
           IF n = 1 THEN LeafHash(s[from + 1])
                    ELSE <<tree[Left(n)][from], tree[n - Left(n)][from + Left(n)]>>]
  IN  IF s = <<>> THEN Zero ELSE tree[Len(s)][0]

(* The root that is put together from the frontier is the root of the tree *)
(* of the leaves, in their order; 2^MERKLE_MAX_DEPTH leaves are forgotten  *)
(* with the last of them and the tree starts afresh.                       *)
RootOfTheLatest ==
  LET n == leaf_count % Weight[MERKLE_MAX_DEPTH]
  IN  Root = Tree(SubSeq(leaves, Len(leaves) - n + 1, Len(leaves)))
=============================================================================
