------------------------------ MODULE MerkleTree ------------------------------
(***************************************************************************)
(* The Merkle trees of pkg/crypto/crypto.go, and the root that a           *)
(* configuration block takes of its sections (models/config.go), without   *)
(* state.  What is hashed, and a hash, is a sequence of bytes.  A hash has  *)
(* HashSize bytes and is taken to differ for all that is hashed; where one  *)
(* of the parts of what is hashed ends, it does not tell.                   *)
(***************************************************************************)
EXTENDS Integers, Sequences, SequencesExt

CONSTANT HashSize   (* of SHA-256: 32 bytes *)

ASSUME HashAssumption == HashSize \in Nat \ {0}

(* A byte of a hash tells what was hashed, and which byte it is.            *)
Hash(bytes)        == [n \in 1 .. HashSize |-> [of |-> bytes, at |-> n]]
HashMultiple(a, b) == Hash(a \o b)
NoRoot             == <<>>

(* One level up: nodes are hashed in pairs, and one without a partner moves *)
(* up as it is.                                                             *)
NextLevel(level) ==
  [i \in 1 .. (Len(level) + 1) \div 2 |->
     IF 2 * i <= Len(level) THEN HashMultiple(level[2 * i - 1], level[2 * i])
                            ELSE level[2 * i - 1]]

(* The levels above the leaves until one node is left, and their number.    *)
Level(leaves) ==
  LET level[k \in 0 .. Len(leaves)] == IF k = 0 THEN leaves ELSE NextLevel(level[k - 1])
  IN  level

Height(leaves) ==
  CHOOSE k \in 0 .. Len(leaves) :
    /\ Len(Level(leaves)[k]) = 1
    /\ \A j \in 0 .. k - 1 : Len(Level(leaves)[j]) > 1

(* NewMerkleTree; a tree without leaves has no root.                        *)
Nodes(leaves) ==
  FlattenSeq([k \in 1 .. Height(leaves) + 1 |-> Level(leaves)[k - 1]])

NewMerkleTree(items) ==
  LET leaves == [i \in DOMAIN items |-> Hash(items[i])]
  IN  IF items = <<>> THEN [leaves |-> <<>>, root |-> NoRoot]
                      ELSE [leaves |-> leaves, root |-> Last(Nodes(leaves))]

-------------------------------------------------------------------------------
(* The neighbour in its pair, counting from 0.                              *)
Sibling(index) == IF index % 2 = 0 THEN index + 1 ELSE index - 1

(* The index at every level on the way up: it is halved from one to the     *)
(* next.                                                                    *)
Way(index, height) ==
  LET way[k \in 0 .. height] == IF k = 0 THEN index ELSE way[k - 1] \div 2
  IN  way

(* GetProof collects the siblings on the way up, where there is one.        *)
Collected(leaves, index) ==
  LET found[k \in 0 .. Height(leaves)] ==
        IF k = 0 THEN <<>>
                 ELSE LET level == Level(leaves)[k - 1]
                          at    == Sibling(Way(index, Height(leaves))[k - 1])
                      IN  IF at < Len(level) THEN Append(found[k - 1], level[at + 1])
                                             ELSE found[k - 1]
  IN  found

GetProof(tree, index) ==
  [index |-> index, leaf |-> tree.leaves[index + 1], root |-> tree.root,
   siblings |-> Collected(tree.leaves, index)[Height(tree.leaves)]]

(* VerifyMerkleProof goes one level up with every sibling.                  *)
Climb(proof) ==
  LET hash[k \in 0 .. Len(proof.siblings)] ==
        IF k = 0 THEN proof.leaf
                 ELSE IF Way(proof.index, Len(proof.siblings))[k - 1] % 2 = 0
                        THEN HashMultiple(hash[k - 1], proof.siblings[k])
                        ELSE HashMultiple(proof.siblings[k], hash[k - 1])
  IN  hash

VerifyMerkleProof(proof) == Climb(proof)[Len(proof.siblings)] = proof.root

-------------------------------------------------------------------------------
(* The sections of a configuration that are given, in the code's order, and *)
(* the root over them; what a section is encoded as differs from section to *)
(* section, and is one byte here.                                           *)
Sections == <<"interfaces", "routing", "security", "services", "system", "custom">>

ComputeConfigMerkleRoot(given) ==
  LET listed == SelectSeq([k \in DOMAIN Sections |-> k], LAMBDA k : Sections[k] \in given)
  IN  NewMerkleTree([i \in DOMAIN listed |-> <<[of |-> <<>>, at |-> - listed[i]]>>]).root
===============================================================================
