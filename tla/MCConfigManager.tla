--------------------------- MODULE MCConfigManager ---------------------------
(***************************************************************************)
(* The configuration manager for TLC; every .cfg names its constants.      *)
(***************************************************************************)
EXTENDS ConfigManager, MerkleTree

-----------------------------------------------------------------------------
(* The Merkle trees of one to nine leaves, each made of one byte that is no *)
(* byte of a hash.                                                          *)
Letters == [k \in 1 .. 9 |-> <<[of |-> <<>>, at |-> - k]>>]

Trees == {NewMerkleTree(SubSeq(Letters, 1, n)) : n \in 1 .. Len(Letters)}

Indices(tree) == 0 .. Len(tree.leaves) - 1

(* A proof that verifies has a sibling of every level: the proof of a leaf  *)
(* that goes up alone somewhere on its way, as the last of three does, is   *)
(* refused by VerifyMerkleProof, for it halves the index only at a sibling. *)
ASSUME ProofsOfPairs ==
  \A tree \in Trees : \A index \in Indices(tree) :
    LET proof == GetProof(tree, index)
    IN  VerifyMerkleProof(proof) <=> Len(proof.siblings) = Height(tree.leaves)

(* So every leaf of a tree of 2^k leaves has a proof, and some leaf of any  *)
(* other tree has none.                                                     *)
ASSUME AllProvedOrNot ==
  \A tree \in Trees :
    (\A index \in Indices(tree) : VerifyMerkleProof(GetProof(tree, index)))
      <=> Len(tree.leaves) \in {1, 2, 4, 8}

(* No proof verifies with the hash of another leaf of the tree.             *)
ASSUME ProofsBind ==
  \A tree \in Trees : \A index \in Indices(tree), other \in DOMAIN tree.leaves :
    VerifyMerkleProof([GetProof(tree, index) EXCEPT !.leaf = tree.leaves[other]])
      => other = index + 1

(* What VerifyMerkleProof hashes has no length with it: with bytes of the    *)
(* sibling moved to the end of the leaf, a proof verifies as before.        *)
ASSUME LeafEndsAnywhere ==
  LET proof   == GetProof(NewMerkleTree(SubSeq(Letters, 1, 2)), 0)
      sibling == proof.siblings[1]
  IN  \A n \in 0 .. HashSize :
        VerifyMerkleProof([proof EXCEPT !.leaf = @ \o SubSeq(sibling, 1, n),
                                        !.siblings = <<SubSeq(sibling, n + 1, HashSize)>>])

(* Nor does a tree tell leaves from the hashes of pairs: where an item is    *)
(* two hashes, a leaf that goes up alone may have a proof that verifies.    *)
ASSUME ItemOfHashes ==
  LET pair  == Hash(Letters[1]) \o Hash(Letters[2])
      tree  == NewMerkleTree(<<Letters[1], Letters[2], pair>>)
      proof == GetProof(tree, 2)
  IN  VerifyMerkleProof(proof) /\ Len(proof.siblings) < Height(tree.leaves)

(* Of sections that all differ, other ones have another root.               *)
ASSUME RootsTellSections ==
  \A given, others \in SUBSET ToSet(Sections) :
    ComputeConfigMerkleRoot(given) = ComputeConfigMerkleRoot(others) <=> given = others
==============================================================================
