--------------------------- MODULE MerkleTreeProofs ---------------------------
(***************************************************************************)
(* Proofs about the Merkle trees, for any number of leaves.                *)
(***************************************************************************)
EXTENDS MerkleTree, WellFoundedInduction, TLAPS

-----------------------------------------------------------------------------
(* Induction, and the functions a recursive definition names                *)

(* A set of numbers that is not empty has a smallest member, and so a set   *)
(* with 0 and every successor of its members holds every number.            *)
LEMMA Smallest ==
  ASSUME NEW T \in SUBSET Nat, T # {}
  PROVE  \E n \in T : \A m \in T : n <= m
<1> DEFINE R == {p \in Nat \X Nat : p[1] < p[2]}
<1>1. IsWellFoundedOn(R, Nat)
  BY NatLessThanWellFounded DEF OpToRel
<1> HIDE DEF R
<1>2. PICK n \in T : \A m \in T : ~ (<<m, n>> \in R)
  BY <1>1, WFMin
<1>3. \A m \in T : ~ (m < n)
  BY <1>2 DEF R
<1> QED
  BY <1>3

LEMMA EveryNumber ==
  ASSUME NEW S, 0 \in S, \A n \in Nat : n \in S => n + 1 \in S
  PROVE  Nat \subseteq S
<1> SUFFICES ASSUME Nat \ S # {} PROVE FALSE
  OBVIOUS
<1>1. PICK n \in Nat \ S : \A m \in Nat \ S : n <= m
  BY Smallest
<1>2. n - 1 \in Nat /\ n - 1 \in S
  BY <1>1
<1> QED
  BY <1>1, <1>2

(* The levels: the leaves first, each other one made of the one below it.   *)
LEMMA LevelIs ==
  ASSUME NEW leaves, Len(leaves) \in Nat
  PROVE  /\ Level(leaves)[0] = leaves
         /\ \A k \in 1 .. Len(leaves) :
              Level(leaves)[k] = NextLevel(Level(leaves)[k - 1])
<1> DEFINE From(g, n) == [k \in 0 .. n |-> IF k = 0 THEN leaves ELSE NextLevel(g[k - 1])]
           N          == {n \in Nat : \E g : g = From(g, n)}
<1>1. 0 \in N
  <2> DEFINE g == [k \in 0 .. 0 |-> leaves]
  <2>1. g = From(g, 0)
    OBVIOUS
  <2> QED
    BY <2>1
<1>2. ASSUME NEW n \in Nat, n \in N PROVE n + 1 \in N
  <2>1. PICK g : g = From(g, n)
    BY <1>2
  <2> DEFINE h == [k \in 0 .. n + 1 |->
                     IF k <= n THEN g[k] ELSE IF k = 0 THEN leaves ELSE NextLevel(g[k - 1])]
  <2>2. \A k \in 0 .. n : g[k] = IF k = 0 THEN leaves ELSE NextLevel(g[k - 1])
    BY <2>1
  <2>3. \A k \in 0 .. n + 1 : h[k] = IF k = 0 THEN leaves ELSE NextLevel(h[k - 1])
    <3> SUFFICES ASSUME NEW k \in 0 .. n + 1
                 PROVE  h[k] = IF k = 0 THEN leaves ELSE NextLevel(h[k - 1])
      OBVIOUS
    <3>1. CASE k = n + 1
      <4>1. /\ h[k] = IF k = 0 THEN leaves ELSE NextLevel(g[k - 1])
            /\ k # 0 => h[k - 1] = g[k - 1]
        BY <3>1
      <4> HIDE DEF h
      <4> QED
        BY <4>1
    <3>2. CASE k \in 0 .. n
      <4>1. h[k] = g[k] /\ (k # 0 => h[k - 1] = g[k - 1])
        BY <3>2
      <4> HIDE DEF h
      <4> QED
        BY <2>2, <3>2, <4>1
    <3> QED
      BY <3>1, <3>2
  <2>4. h = From(h, n + 1)
    BY <2>3
  <2> HIDE DEF h
  <2> QED
    BY <2>4
<1>3. Len(leaves) \in N
  <2> HIDE DEF N
  <2> QED
    BY <1>1, <1>2, EveryNumber
<1> DEFINE made == CHOOSE g : g = From(g, Len(leaves))
<1>4. made = From(made, Len(leaves))
  <2> HIDE DEF From
  <2> QED
    BY <1>3
<1>5. Level(leaves) = made
  BY DEF Level
<1> HIDE DEF made
<1>6. made[0] = leaves
  BY <1>4
<1>7. ASSUME NEW k \in 1 .. Len(leaves)
      PROVE  made[k] = NextLevel(made[k - 1])
  <2>1. k \in 0 .. Len(leaves) /\ k # 0
    OBVIOUS
  <2> QED
    BY ONLY <1>4, <2>1
<1> QED
  BY <1>5, <1>6, <1>7

(* The way up: the index, halved at every level.                            *)
LEMMA WayIs ==
  ASSUME NEW index, NEW height \in Nat
  PROVE  /\ Way(index, height)[0] = index
         /\ \A k \in 1 .. height :
              Way(index, height)[k] = Way(index, height)[k - 1] \div 2
<1> DEFINE From(g, n) == [k \in 0 .. n |-> IF k = 0 THEN index ELSE g[k - 1] \div 2]
           N          == {n \in Nat : \E g : g = From(g, n)}
<1>1. 0 \in N
  <2> DEFINE g == [k \in 0 .. 0 |-> index]
  <2>1. g = From(g, 0)
    OBVIOUS
  <2> QED
    BY <2>1
<1>2. ASSUME NEW n \in Nat, n \in N PROVE n + 1 \in N
  <2>1. PICK g : g = From(g, n)
    BY <1>2
  <2> DEFINE h == [k \in 0 .. n + 1 |->
                     IF k <= n THEN g[k] ELSE IF k = 0 THEN index ELSE g[k - 1] \div 2]
  <2>2. \A k \in 0 .. n : g[k] = IF k = 0 THEN index ELSE g[k - 1] \div 2
    BY <2>1
  <2>3. \A k \in 0 .. n + 1 : h[k] = IF k = 0 THEN index ELSE h[k - 1] \div 2
    <3> SUFFICES ASSUME NEW k \in 0 .. n + 1
                 PROVE  h[k] = IF k = 0 THEN index ELSE h[k - 1] \div 2
      OBVIOUS
    <3>1. CASE k = n + 1
      <4>1. /\ h[k] = IF k = 0 THEN index ELSE g[k - 1] \div 2
            /\ k # 0 => h[k - 1] = g[k - 1]
        BY <3>1
      <4> HIDE DEF h
      <4> QED
        BY <4>1
    <3>2. CASE k \in 0 .. n
      <4>1. h[k] = g[k] /\ (k # 0 => h[k - 1] = g[k - 1])
        BY <3>2
      <4> HIDE DEF h
      <4> QED
        BY <2>2, <3>2, <4>1
    <3> QED
      BY <3>1, <3>2
  <2>4. h = From(h, n + 1)
    BY <2>3
  <2> HIDE DEF h
  <2> QED
    BY <2>4
<1>3. height \in N
  <2> HIDE DEF N
  <2> QED
    BY <1>1, <1>2, EveryNumber
<1> DEFINE made == CHOOSE g : g = From(g, height)
<1>4. made = From(made, height)
  <2> HIDE DEF From
  <2> QED
    BY <1>3
<1>5. Way(index, height) = made
  BY DEF Way
<1> HIDE DEF made
<1>6. made[0] = index
  BY <1>4
<1>7. ASSUME NEW k \in 1 .. height
      PROVE  made[k] = made[k - 1] \div 2
  <2>1. k \in 0 .. height /\ k # 0
    OBVIOUS
  <2> QED
    BY ONLY <1>4, <2>1
<1> QED
  BY <1>5, <1>6, <1>7

(* The hash a proof has come to after some of its siblings.                 *)
LEMMA ClimbIs ==
  ASSUME NEW proof, Len(proof.siblings) \in Nat
  PROVE  /\ Climb(proof)[0] = proof.leaf
         /\ \A k \in 1 .. Len(proof.siblings) :
              Climb(proof)[k] = IF Way(proof.index, Len(proof.siblings))[k - 1] % 2 = 0
                 THEN HashMultiple(Climb(proof)[k - 1], proof.siblings[k])
                 ELSE HashMultiple(proof.siblings[k], Climb(proof)[k - 1])
<1> DEFINE From(g, n) == [k \in 0 .. n |-> IF k = 0 THEN proof.leaf ELSE IF Way(proof.index, Len(proof.siblings))[k - 1] % 2 = 0
                 THEN HashMultiple(g[k - 1], proof.siblings[k])
                 ELSE HashMultiple(proof.siblings[k], g[k - 1])]
           N          == {n \in Nat : \E g : g = From(g, n)}
<1>1. 0 \in N
  <2> DEFINE g == [k \in 0 .. 0 |-> proof.leaf]
  <2>1. g = From(g, 0)
    OBVIOUS
  <2> QED
    BY <2>1
<1>2. ASSUME NEW n \in Nat, n \in N PROVE n + 1 \in N
  <2>1. PICK g : g = From(g, n)
    BY <1>2
  <2> DEFINE h == [k \in 0 .. n + 1 |->
                     IF k <= n THEN g[k] ELSE IF k = 0 THEN proof.leaf ELSE IF Way(proof.index, Len(proof.siblings))[k - 1] % 2 = 0
                 THEN HashMultiple(g[k - 1], proof.siblings[k])
                 ELSE HashMultiple(proof.siblings[k], g[k - 1])]
  <2>2. \A k \in 0 .. n : g[k] = IF k = 0 THEN proof.leaf ELSE IF Way(proof.index, Len(proof.siblings))[k - 1] % 2 = 0
                 THEN HashMultiple(g[k - 1], proof.siblings[k])
                 ELSE HashMultiple(proof.siblings[k], g[k - 1])
    BY <2>1
  <2>3. \A k \in 0 .. n + 1 : h[k] = IF k = 0 THEN proof.leaf ELSE IF Way(proof.index, Len(proof.siblings))[k - 1] % 2 = 0
                 THEN HashMultiple(h[k - 1], proof.siblings[k])
                 ELSE HashMultiple(proof.siblings[k], h[k - 1])
    <3> SUFFICES ASSUME NEW k \in 0 .. n + 1
                 PROVE  h[k] = IF k = 0 THEN proof.leaf ELSE IF Way(proof.index, Len(proof.siblings))[k - 1] % 2 = 0
                 THEN HashMultiple(h[k - 1], proof.siblings[k])
                 ELSE HashMultiple(proof.siblings[k], h[k - 1])
      OBVIOUS
    <3>1. CASE k = n + 1
      <4>1. /\ h[k] = IF k = 0 THEN proof.leaf ELSE IF Way(proof.index, Len(proof.siblings))[k - 1] % 2 = 0
                 THEN HashMultiple(g[k - 1], proof.siblings[k])
                 ELSE HashMultiple(proof.siblings[k], g[k - 1])
            /\ k # 0 => h[k - 1] = g[k - 1]
        BY <3>1
      <4> HIDE DEF h
      <4> QED
        BY <4>1
    <3>2. CASE k \in 0 .. n
      <4>1. h[k] = g[k] /\ (k # 0 => h[k - 1] = g[k - 1])
        BY <3>2
      <4> HIDE DEF h
      <4> QED
        BY <2>2, <3>2, <4>1
    <3> QED
      BY <3>1, <3>2
  <2>4. h = From(h, n + 1)
    BY <2>3
  <2> HIDE DEF h
  <2> QED
    BY <2>4
<1>3. Len(proof.siblings) \in N
  <2> HIDE DEF N
  <2> QED
    BY <1>1, <1>2, EveryNumber
<1> DEFINE made == CHOOSE g : g = From(g, Len(proof.siblings))
<1>4. made = From(made, Len(proof.siblings))
  <2> HIDE DEF From
  <2> QED
    BY <1>3
<1>5. Climb(proof) = made
  BY DEF Climb
<1> HIDE DEF made
<1>6. made[0] = proof.leaf
  BY <1>4
<1>7. ASSUME NEW k \in 1 .. Len(proof.siblings)
      PROVE  made[k] = IF Way(proof.index, Len(proof.siblings))[k - 1] % 2 = 0
                 THEN HashMultiple(made[k - 1], proof.siblings[k])
                 ELSE HashMultiple(proof.siblings[k], made[k - 1])
  <2>1. k \in 0 .. Len(proof.siblings) /\ k # 0
    OBVIOUS
  <2> QED
    BY ONLY <1>4, <2>1
<1> QED
  BY <1>5, <1>6, <1>7

(* The siblings found after some levels.                                    *)
LEMMA CollectedIs ==
  ASSUME NEW leaves, NEW index, Height(leaves) \in Nat
  PROVE  /\ Collected(leaves, index)[0] = <<>>
         /\ \A k \in 1 .. Height(leaves) :
              Collected(leaves, index)[k] = IF Sibling(Way(index, Height(leaves))[k - 1]) < Len(Level(leaves)[k - 1])
                 THEN Append(Collected(leaves, index)[k - 1], Level(leaves)[k - 1][Sibling(Way(index, Height(leaves))[k - 1]) + 1])
                 ELSE Collected(leaves, index)[k - 1]
<1> DEFINE From(g, n) == [k \in 0 .. n |-> IF k = 0 THEN <<>> ELSE IF Sibling(Way(index, Height(leaves))[k - 1]) < Len(Level(leaves)[k - 1])
                 THEN Append(g[k - 1], Level(leaves)[k - 1][Sibling(Way(index, Height(leaves))[k - 1]) + 1])
                 ELSE g[k - 1]]
           N          == {n \in Nat : \E g : g = From(g, n)}
<1>1. 0 \in N
  <2> DEFINE g == [k \in 0 .. 0 |-> <<>>]
  <2>1. g = From(g, 0)
    OBVIOUS
  <2> QED
    BY <2>1
<1>2. ASSUME NEW n \in Nat, n \in N PROVE n + 1 \in N
  <2>1. PICK g : g = From(g, n)
    BY <1>2
  <2> DEFINE h == [k \in 0 .. n + 1 |->
                     IF k <= n THEN g[k] ELSE IF k = 0 THEN <<>> ELSE IF Sibling(Way(index, Height(leaves))[k - 1]) < Len(Level(leaves)[k - 1])
                 THEN Append(g[k - 1], Level(leaves)[k - 1][Sibling(Way(index, Height(leaves))[k - 1]) + 1])
                 ELSE g[k - 1]]
  <2>2. \A k \in 0 .. n : g[k] = IF k = 0 THEN <<>> ELSE IF Sibling(Way(index, Height(leaves))[k - 1]) < Len(Level(leaves)[k - 1])
                 THEN Append(g[k - 1], Level(leaves)[k - 1][Sibling(Way(index, Height(leaves))[k - 1]) + 1])
                 ELSE g[k - 1]
    BY <2>1
  <2>3. \A k \in 0 .. n + 1 : h[k] = IF k = 0 THEN <<>> ELSE IF Sibling(Way(index, Height(leaves))[k - 1]) < Len(Level(leaves)[k - 1])
                 THEN Append(h[k - 1], Level(leaves)[k - 1][Sibling(Way(index, Height(leaves))[k - 1]) + 1])
                 ELSE h[k - 1]
    <3> SUFFICES ASSUME NEW k \in 0 .. n + 1
                 PROVE  h[k] = IF k = 0 THEN <<>> ELSE IF Sibling(Way(index, Height(leaves))[k - 1]) < Len(Level(leaves)[k - 1])
                 THEN Append(h[k - 1], Level(leaves)[k - 1][Sibling(Way(index, Height(leaves))[k - 1]) + 1])
                 ELSE h[k - 1]
      OBVIOUS
    <3>1. CASE k = n + 1
      <4>1. /\ h[k] = IF k = 0 THEN <<>> ELSE IF Sibling(Way(index, Height(leaves))[k - 1]) < Len(Level(leaves)[k - 1])
                 THEN Append(g[k - 1], Level(leaves)[k - 1][Sibling(Way(index, Height(leaves))[k - 1]) + 1])
                 ELSE g[k - 1]
            /\ k # 0 => h[k - 1] = g[k - 1]
        BY <3>1
      <4> HIDE DEF h
      <4> QED
        BY <4>1
    <3>2. CASE k \in 0 .. n
      <4>1. h[k] = g[k] /\ (k # 0 => h[k - 1] = g[k - 1])
        BY <3>2
      <4> HIDE DEF h
      <4> QED
        BY <2>2, <3>2, <4>1
    <3> QED
      BY <3>1, <3>2
  <2>4. h = From(h, n + 1)
    BY <2>3
  <2> HIDE DEF h
  <2> QED
    BY <2>4
<1>3. Height(leaves) \in N
  <2> HIDE DEF N
  <2> QED
    BY <1>1, <1>2, EveryNumber
<1> DEFINE made == CHOOSE g : g = From(g, Height(leaves))
<1>4. made = From(made, Height(leaves))
  <2> HIDE DEF From
  <2> QED
    BY <1>3
<1>5. Collected(leaves, index) = made
  BY DEF Collected
<1> HIDE DEF made
<1>6. made[0] = <<>>
  BY <1>4
<1>7. ASSUME NEW k \in 1 .. Height(leaves)
      PROVE  made[k] = IF Sibling(Way(index, Height(leaves))[k - 1]) < Len(Level(leaves)[k - 1])
                 THEN Append(made[k - 1], Level(leaves)[k - 1][Sibling(Way(index, Height(leaves))[k - 1]) + 1])
                 ELSE made[k - 1]
  <2>1. k \in 0 .. Height(leaves) /\ k # 0
    OBVIOUS
  <2> QED
    BY ONLY <1>4, <2>1
<1> QED
  BY <1>5, <1>6, <1>7

-----------------------------------------------------------------------------
(* Sequences                                                                *)

IsSeq(s) == \E T : s \in Seq(T)

LEMMA SeqIs ==
  ASSUME NEW s, IsSeq(s)
  PROVE  Len(s) \in Nat /\ DOMAIN s = 1 .. Len(s)
BY DEF IsSeq

LEMMA SeqMade ==
  ASSUME NEW n \in Nat, NEW T, NEW s \in [1 .. n -> T]
  PROVE  IsSeq(s) /\ Len(s) = n
<1>1. s \in Seq(T)
  OBVIOUS
<1> QED
  BY <1>1 DEF IsSeq

LEMMA SeqAppend ==
  ASSUME NEW s, IsSeq(s), NEW x
  PROVE  /\ IsSeq(Append(s, x)) /\ Len(Append(s, x)) = Len(s) + 1
         /\ \A i \in 1 .. Len(s) : Append(s, x)[i] = s[i]
         /\ Append(s, x)[Len(s) + 1] = x
<1>1. PICK T : s \in Seq(T)
  BY DEF IsSeq
<1>2. s \in Seq(T \union {x})
  BY <1>1
<1>3. Append(s, x) \in Seq(T \union {x})
  BY <1>2
<1>4. IsSeq(Append(s, x))
  BY <1>3 DEF IsSeq
<1> QED
  BY <1>2, <1>4

-----------------------------------------------------------------------------
(* Hashes                                                                   *)

IsHash(x) == \E bytes : x = Hash(bytes)

LEMMA HashIs ==
  ASSUME NEW x, IsHash(x)
  PROVE  IsSeq(x) /\ Len(x) = HashSize
<1>1. PICK bytes : x = Hash(bytes)
  BY DEF IsHash
<1>2. x \in [1 .. HashSize -> {[of |-> bytes, at |-> n] : n \in 1 .. HashSize}]
  BY <1>1 DEF Hash
<1> QED
  BY <1>2, HashAssumption, SeqMade

(* A hash tells what was hashed.                                            *)
LEMMA HashOne ==
  ASSUME NEW x, NEW y, Hash(x) = Hash(y)
  PROVE  x = y
<1>1. 1 \in 1 .. HashSize
  BY HashAssumption
<1>2. Hash(x)[1] = [of |-> x, at |-> 1] /\ Hash(y)[1] = [of |-> y, at |-> 1]
  BY <1>1 DEF Hash
<1>3. [of |-> x, at |-> 1] = [of |-> y, at |-> 1]
  BY <1>2
<1> QED
  BY ONLY <1>3

(* It does not tell where the first of two parts ended: only if their       *)
(* lengths are known are the parts.                                         *)
LEMMA Joined ==
  ASSUME NEW a, NEW b, NEW c, NEW d, IsSeq(a), IsSeq(b), IsSeq(c), IsSeq(d),
         a \o b = c \o d, Len(a) = Len(c) \/ Len(b) = Len(d)
  PROVE  a = c /\ b = d
<1>1. PICK A, B, C, D : a \in Seq(A) /\ b \in Seq(B) /\ c \in Seq(C) /\ d \in Seq(D)
  BY DEF IsSeq
<1> DEFINE T == A \union B \union C \union D
<1>2. a \in Seq(T) /\ b \in Seq(T) /\ c \in Seq(T) /\ d \in Seq(T)
  BY <1>1
<1> HIDE DEF T
<1>3. Len(a) \in Nat /\ Len(b) \in Nat /\ Len(c) \in Nat /\ Len(d) \in Nat
  BY <1>2
<1>4. Len(a \o b) = Len(a) + Len(b) /\ Len(c \o d) = Len(c) + Len(d)
  BY <1>2
<1>5. Len(a) = Len(c) /\ Len(b) = Len(d)
  BY <1>3, <1>4
<1>6. ASSUME NEW i \in 1 .. Len(a) PROVE a[i] = c[i]
  <2>1. (a \o b)[i] = a[i] /\ (c \o d)[i] = c[i]
    BY <1>2, <1>3, <1>5
  <2> QED
    BY <2>1
<1>7. ASSUME NEW i \in 1 .. Len(b) PROVE b[i] = d[i]
  <2>1. (a \o b)[Len(a) + i] = b[i] /\ (c \o d)[Len(c) + i] = d[i]
    BY <1>2, <1>3, <1>5
  <2> QED
    BY <1>5, <2>1
<1> QED
  BY <1>2, <1>5, <1>6, <1>7

LEMMA HashTells ==
  ASSUME NEW a, NEW b, NEW c, NEW d, IsHash(a), IsHash(b), IsHash(c), IsHash(d),
         HashMultiple(a, b) = HashMultiple(c, d)
  PROVE  a = c /\ b = d
<1>1. a \o b = c \o d
  BY HashOne DEF HashMultiple
<1>2. IsSeq(a) /\ IsSeq(b) /\ IsSeq(c) /\ IsSeq(d)
  BY HashIs
<1>3. Len(a) = Len(c)
  BY HashIs
<1> QED
  BY ONLY <1>1, <1>2, <1>3, Joined, ZenonT(60)

LEMMA PairIsHash ==
  ASSUME NEW a, NEW b
  PROVE  IsHash(HashMultiple(a, b))
BY DEF IsHash, HashMultiple

-----------------------------------------------------------------------------
(* The levels of a tree                                                     *)

(* A level above another: half as long, and its nodes the hashes of pairs,  *)
(* or the node that is left over.                                           *)
LEMMA NextLevelIs ==
  ASSUME NEW s, IsSeq(s)
  PROVE  /\ IsSeq(NextLevel(s)) /\ Len(NextLevel(s)) = (Len(s) + 1) \div 2
         /\ \A i \in 1 .. (Len(s) + 1) \div 2 :
              NextLevel(s)[i] = IF 2 * i <= Len(s) THEN HashMultiple(s[2 * i - 1], s[2 * i])
                                                   ELSE s[2 * i - 1]
<1> DEFINE n       == (Len(s) + 1) \div 2
           node(i) == IF 2 * i <= Len(s) THEN HashMultiple(s[2 * i - 1], s[2 * i])
                                         ELSE s[2 * i - 1]
           T       == {node(i) : i \in 1 .. n}
<1>1. n \in Nat
  BY SeqIs
<1>2. NextLevel(s) = [i \in 1 .. n |-> node(i)]
  BY DEF NextLevel
<1>3. NextLevel(s) \in [1 .. n -> T]
  BY <1>2
<1>4. IsSeq(NextLevel(s)) /\ Len(NextLevel(s)) = n
  <2> HIDE DEF n, T
  <2> QED
    BY <1>1, <1>3, SeqMade
<1> QED
  BY <1>2, <1>4

LEMMA LevelsHalve ==
  ASSUME NEW leaves, IsSeq(leaves), Len(leaves) # 0
  PROVE  /\ \A k \in 0 .. Len(leaves) : IsSeq(Level(leaves)[k]) /\ Len(Level(leaves)[k]) >= 1
         /\ \A k \in 1 .. Len(leaves) :
              Len(Level(leaves)[k]) = (Len(Level(leaves)[k - 1]) + 1) \div 2
<1> DEFINE level == Level(leaves)
           n     == Len(leaves)
           N     == {k \in Nat : k <= n => IsSeq(level[k]) /\ Len(level[k]) >= 1}
<1>1. n \in Nat
  BY SeqIs
<1>2. level[0] = leaves /\ \A k \in 1 .. n : level[k] = NextLevel(level[k - 1])
  BY <1>1, LevelIs
<1> HIDE DEF level
<1>3. 0 \in N
  BY <1>1, <1>2
<1>4. ASSUME NEW k \in Nat, k \in N PROVE k + 1 \in N
  <2> SUFFICES ASSUME k + 1 <= n PROVE IsSeq(level[k + 1]) /\ Len(level[k + 1]) >= 1
    OBVIOUS
  <2>1. IsSeq(level[k]) /\ Len(level[k]) >= 1 /\ Len(level[k]) \in Nat
    BY <1>1, <1>4, SeqIs
  <2>2. k + 1 \in 1 .. n /\ (k + 1) - 1 = k
    BY <1>1
  <2>3. level[k + 1] = NextLevel(level[k])
    BY <1>2, <2>2
  <2>4. IsSeq(level[k + 1]) /\ Len(level[k + 1]) = (Len(level[k]) + 1) \div 2
    BY <2>1, <2>3, NextLevelIs
  <2>5. \A w \in Nat : w >= 1 => (w + 1) \div 2 >= 1
    OBVIOUS
  <2>6. Len(level[k + 1]) >= 1
    BY <2>1, <2>4, <2>5
  <2> QED
    BY <2>4, <2>6
<1>5. \A k \in Nat : k \in N
  <2> HIDE DEF N
  <2> QED
    BY <1>3, <1>4, EveryNumber
<1>6. \A k \in 0 .. n : IsSeq(level[k]) /\ Len(level[k]) >= 1
  BY <1>1, <1>5
<1>7. ASSUME NEW k \in 1 .. n PROVE Len(level[k]) = (Len(level[k - 1]) + 1) \div 2
  <2>1. IsSeq(level[k - 1])
    BY <1>1, <1>6
  <2> QED
    BY <1>2, <2>1, NextLevelIs
<1> QED
  BY <1>6, <1>7 DEF level

(* One node is left after as many levels as there are leaves at most.       *)
LEMMA HeightIs ==
  ASSUME NEW leaves, IsSeq(leaves), Len(leaves) # 0
  PROVE  /\ Height(leaves) \in 0 .. Len(leaves)
         /\ Len(Level(leaves)[Height(leaves)]) = 1
         /\ \A j \in 0 .. Height(leaves) - 1 : Len(Level(leaves)[j]) > 1
<1> DEFINE wide(k) == Len(Level(leaves)[k])
           n       == Len(leaves)
           N       == {k \in Nat : k <= n => (\E j \in 0 .. k : wide(j) = 1) \/ wide(k) <= n - k}
<1>1. n \in Nat
  BY SeqIs
<1>2. wide(0) = n
  BY <1>1, LevelIs
<1>3. \A k \in 0 .. n : wide(k) \in Nat /\ wide(k) >= 1
  BY LevelsHalve, SeqIs
<1>4. \A k \in 1 .. n : wide(k) = (wide(k - 1) + 1) \div 2
  BY LevelsHalve
<1> HIDE DEF wide
<1>5. 0 \in N
  BY <1>1, <1>2
<1>6. ASSUME NEW k \in Nat, k \in N PROVE k + 1 \in N
  <2> SUFFICES ASSUME k + 1 <= n, \A j \in 0 .. k + 1 : wide(j) # 1
               PROVE  wide(k + 1) <= n - (k + 1)
    OBVIOUS
  <2>1. wide(k) <= n - k /\ wide(k) # 1 /\ wide(k) \in Nat /\ wide(k) >= 1
    BY <1>1, <1>3, <1>6
  <2>2. k + 1 \in 1 .. n /\ (k + 1) - 1 = k
    BY <1>1
  <2>3. wide(k + 1) = (wide(k) + 1) \div 2
    BY <1>4, <2>2
  <2> QED
    BY <1>1, <2>1, <2>3
<1>7. \E j \in 0 .. n : wide(j) = 1
  <2>1. n \in N
    <3> HIDE DEF N
    <3> QED
      BY <1>1, <1>5, <1>6, EveryNumber
  <2>2. wide(n) >= 1 /\ wide(n) \in Nat
    BY <1>1, <1>3
  <2> QED
    BY <1>1, <2>1, <2>2
<1>8. \E h \in 0 .. n : wide(h) = 1 /\ \A j \in 0 .. h - 1 : wide(j) > 1
  <2> DEFINE T == {j \in 0 .. n : wide(j) = 1}
  <2>1. T \in SUBSET Nat /\ T # {}
    BY <1>7
  <2>2. PICK h \in T : \A j \in T : h <= j
    <3> HIDE DEF T
    <3> QED
      BY <2>1, Smallest
  <2>3. \A j \in 0 .. h - 1 : j \in 0 .. n /\ j \notin T
    BY <1>1, <2>2
  <2>4. \A j \in 0 .. h - 1 : wide(j) > 1
    BY <1>3, <2>3
  <2> QED
    BY <2>2, <2>4
<1> QED
  BY <1>8 DEF Height, wide

(* Every node is a hash if the leaves are.                                  *)
LEMMA NodesAreHashes ==
  ASSUME NEW leaves, IsSeq(leaves), Len(leaves) # 0,
         \A i \in 1 .. Len(leaves) : IsHash(leaves[i])
  PROVE  \A k \in 0 .. Len(leaves) :
           \A i \in 1 .. Len(Level(leaves)[k]) : IsHash(Level(leaves)[k][i])
<1> DEFINE level   == Level(leaves)
           n       == Len(leaves)
           Hashed(k) == \A i \in 1 .. Len(level[k]) : IsHash(level[k][i])
           N       == {k \in Nat : k <= n => Hashed(k)}
<1>1. n \in Nat
  BY SeqIs
<1>2. level[0] = leaves /\ \A k \in 1 .. n : level[k] = NextLevel(level[k - 1])
  BY <1>1, LevelIs
<1>3. \A k \in 0 .. n : IsSeq(level[k])
  BY LevelsHalve
<1> HIDE DEF level
<1>4. 0 \in N
  BY <1>2
<1>5. ASSUME NEW k \in Nat, k \in N PROVE k + 1 \in N
  <2> SUFFICES ASSUME k + 1 <= n, NEW i \in 1 .. Len(level[k + 1])
               PROVE  IsHash(level[k + 1][i])
    OBVIOUS
  <2>1. PICK low : low = level[k]
    OBVIOUS
  <2>2. k + 1 \in 1 .. n /\ (k + 1) - 1 = k /\ k \in 0 .. n
    BY <1>1
  <2>3. IsSeq(low) /\ level[k + 1] = NextLevel(low) /\ \A j \in 1 .. Len(low) : IsHash(low[j])
    BY <1>2, <1>3, <1>5, <2>1, <2>2
  <2>4. i \in 1 .. (Len(low) + 1) \div 2
    BY <2>3, NextLevelIs
  <2>5. level[k + 1][i] = IF 2 * i <= Len(low) THEN HashMultiple(low[2 * i - 1], low[2 * i])
                                              ELSE low[2 * i - 1]
    BY <2>3, <2>4, NextLevelIs
  <2>6. CASE 2 * i <= Len(low)
    BY <2>5, <2>6, PairIsHash
  <2>7. CASE ~ (2 * i <= Len(low))
    <3>1. Len(low) \in Nat
      BY <2>3, SeqIs
    <3>2. 2 * i - 1 \in 1 .. Len(low)
      BY ONLY <2>4, <3>1
    <3> QED
      BY <2>3, <2>5, <2>7, <3>2
  <2> QED
    BY <2>6, <2>7
<1>6. \A k \in Nat : k \in N
  <2> HIDE DEF N
  <2> QED
    BY <1>4, <1>5, EveryNumber
<1>7. \A k \in 0 .. n : Hashed(k)
  BY <1>1, <1>6
<1> QED
  BY <1>7 DEF level

-----------------------------------------------------------------------------
(* The way of a leaf                                                        *)

Wide(leaves, k) == Len(Level(leaves)[k])
Node(leaves, index, k) == Level(leaves)[k][Way(index, Height(leaves))[k] + 1]

(* A tree's leaves, and the place of one of them.                           *)
LeafOf(leaves, index) ==
  /\ IsSeq(leaves) /\ \A i \in 1 .. Len(leaves) : IsHash(leaves[i])
  /\ index \in 0 .. Len(leaves) - 1

LEMMA TreeIs ==
  ASSUME NEW leaves, NEW index, LeafOf(leaves, index)
  PROVE  /\ Len(leaves) \in Nat /\ Len(leaves) # 0 /\ index \in Nat
         /\ Height(leaves) \in Nat /\ Height(leaves) <= Len(leaves)
         /\ \A k \in 0 .. Height(leaves) : Wide(leaves, k) \in Nat /\ Wide(leaves, k) >= 1
         /\ \A k \in 0 .. Height(leaves) - 1 :
              Wide(leaves, k) > 1 /\ Wide(leaves, k + 1) = (Wide(leaves, k) + 1) \div 2
         /\ Wide(leaves, 0) = Len(leaves) /\ Wide(leaves, Height(leaves)) = 1
<1>1. Len(leaves) \in Nat /\ Len(leaves) # 0 /\ IsSeq(leaves) /\ index \in Nat
  BY SeqIs DEF LeafOf
<1>2. /\ Height(leaves) \in 0 .. Len(leaves)
      /\ Len(Level(leaves)[Height(leaves)]) = 1
      /\ \A j \in 0 .. Height(leaves) - 1 : Len(Level(leaves)[j]) > 1
  BY <1>1, HeightIs
<1>3. Level(leaves)[0] = leaves
  BY <1>1, LevelIs
<1>4. ASSUME NEW k \in 0 .. Height(leaves) PROVE Wide(leaves, k) \in Nat /\ Wide(leaves, k) >= 1
  <2>1. k \in 0 .. Len(leaves)
    BY <1>1, <1>2
  <2> QED
    BY <1>1, <2>1, LevelsHalve, SeqIs DEF Wide
<1>5. ASSUME NEW k \in 0 .. Height(leaves) - 1
      PROVE  Wide(leaves, k + 1) = (Wide(leaves, k) + 1) \div 2
  <2>1. k + 1 \in 1 .. Len(leaves) /\ (k + 1) - 1 = k
    BY <1>1, <1>2
  <2> QED
    BY <1>1, <2>1, LevelsHalve DEF Wide
<1>6. \A k \in 0 .. Height(leaves) - 1 : Wide(leaves, k) > 1
  BY <1>2 DEF Wide
<1>7. Wide(leaves, 0) = Len(leaves) /\ Wide(leaves, Height(leaves)) = 1
  BY <1>2, <1>3 DEF Wide
<1>8. Height(leaves) \in Nat /\ Height(leaves) <= Len(leaves)
  BY <1>1, <1>2
<1> QED
  BY <1>1, <1>4, <1>5, <1>6, <1>7, <1>8

(* It stays within the levels.                                              *)
LEMMA WayWithin ==
  ASSUME NEW leaves, NEW index, LeafOf(leaves, index)
  PROVE  /\ Way(index, Height(leaves))[0] = index
         /\ \A k \in 0 .. Height(leaves) :
              /\ Way(index, Height(leaves))[k] \in Nat
              /\ Way(index, Height(leaves))[k] < Wide(leaves, k)
         /\ \A k \in 0 .. Height(leaves) - 1 :
              Way(index, Height(leaves))[k + 1] = Way(index, Height(leaves))[k] \div 2
<1> DEFINE h      == Height(leaves)
           way    == Way(index, h)
           w(k)   == Wide(leaves, k)
           N      == {k \in Nat : k <= h => way[k] \in Nat /\ way[k] < w(k)}
<1>1. h \in Nat /\ index \in Nat /\ index < w(0)
  <2>1. index \in 0 .. Len(leaves) - 1
    BY DEF LeafOf
  <2> QED
    BY <2>1, TreeIs
<1>2. way[0] = index /\ \A k \in 1 .. h : way[k] = way[k - 1] \div 2
  BY <1>1, WayIs
<1>3. \A k \in 0 .. h : w(k) \in Nat /\ w(k) >= 1
  BY TreeIs
<1>4. \A k \in 0 .. h - 1 : w(k + 1) = (w(k) + 1) \div 2
  BY TreeIs
<1> HIDE DEF way, w, h
<1>5. ASSUME NEW k \in 0 .. h - 1 PROVE way[k + 1] = way[k] \div 2
  <2>1. k + 1 \in 1 .. h /\ (k + 1) - 1 = k
    BY <1>1
  <2> QED
    BY <1>2, <2>1
<1>6. 0 \in N
  BY <1>1, <1>2
<1>7. ASSUME NEW k \in Nat, k \in N PROVE k + 1 \in N
  <2> SUFFICES ASSUME k + 1 <= h PROVE way[k + 1] \in Nat /\ way[k + 1] < w(k + 1)
    OBVIOUS
  <2>1. way[k] \in Nat /\ way[k] < w(k) /\ k \in 0 .. h - 1 /\ w(k) \in Nat
    BY <1>1, <1>3, <1>7
  <2>2. \A x, y \in Nat : x < y => x \div 2 \in Nat /\ x \div 2 < (y + 1) \div 2
    OBVIOUS
  <2>3. way[k] \div 2 \in Nat /\ way[k] \div 2 < (w(k) + 1) \div 2
    BY <2>1, <2>2
  <2> QED
    BY <1>4, <1>5, <2>1, <2>3
<1>8. \A k \in Nat : k \in N
  <2> HIDE DEF N
  <2> QED
    BY <1>6, <1>7, EveryNumber
<1>9. \A k \in 0 .. h : way[k] \in Nat /\ way[k] < w(k)
  BY <1>1, <1>8
<1> QED
  BY <1>2, <1>5, <1>9 DEF way, h, w

(* However long it is, a way is the same as far as it goes.                 *)
LEMMA WaySame ==
  ASSUME NEW index, NEW m \in Nat, NEW n \in Nat
  PROVE  \A k \in Nat : k <= m /\ k <= n => Way(index, m)[k] = Way(index, n)[k]
<1> DEFINE N == {k \in Nat : k <= m /\ k <= n => Way(index, m)[k] = Way(index, n)[k]}
<1>1. /\ Way(index, m)[0] = index /\ \A k \in 1 .. m : Way(index, m)[k] = Way(index, m)[k - 1] \div 2
      /\ Way(index, n)[0] = index /\ \A k \in 1 .. n : Way(index, n)[k] = Way(index, n)[k - 1] \div 2
  BY WayIs
<1>2. 0 \in N
  BY <1>1
<1>3. ASSUME NEW k \in Nat, k \in N PROVE k + 1 \in N
  <2> SUFFICES ASSUME k + 1 <= m, k + 1 <= n PROVE Way(index, m)[k + 1] = Way(index, n)[k + 1]
    OBVIOUS
  <2>1. k + 1 \in 1 .. m /\ k + 1 \in 1 .. n /\ (k + 1) - 1 = k
    OBVIOUS
  <2>2. Way(index, m)[k] = Way(index, n)[k]
    BY <1>3
  <2> QED
    BY <1>1, <2>1, <2>2
<1> HIDE DEF N
<1>4. \A k \in Nat : k \in N
  BY <1>2, <1>3, EveryNumber
<1> QED
  BY <1>4 DEF N

LEMMA Halves ==
  ASSUME NEW x \in Nat
  PROVE  /\ x \div 2 \in Nat
         /\ x % 2 = 0 => x = 2 * (x \div 2)
         /\ x % 2 # 0 => x = 2 * (x \div 2) + 1
OBVIOUS

LEMMA Places ==
  \A at, w, q, v \in Nat :
    at < w /\ w > 1 /\ (w + 1 = 2 * v \/ w + 1 = 2 * v + 1) =>
      /\ at = 2 * q => /\ q + 1 \in 1 .. v /\ (at = w - 1 => q = v - 1 /\ v >= 2)
                       /\ 2 * (q + 1) - 1 = at + 1 /\ 2 * (q + 1) = at + 2
      /\ at = 2 * q + 1 => /\ q + 1 \in 1 .. v /\ (at = w - 1 => q = v - 1) /\ at >= 1
                           /\ 2 * (q + 1) - 1 = at /\ 2 * (q + 1) = at + 1
OBVIOUS

(* One level up: a node goes on as it is if it is alone, which only the     *)
(* last of a level is, and is hashed with its neighbour otherwise.          *)
LEMMA OneUp ==
  ASSUME NEW leaves, NEW index, LeafOf(leaves, index), NEW k \in 0 .. Height(leaves) - 1,
         NEW at, at = Way(index, Height(leaves))[k], NEW w, w = Wide(leaves, k)
  PROVE  /\ at \in Nat /\ Sibling(at) \in Nat /\ w \in Nat
         /\ Way(index, Height(leaves))[k + 1] = at \div 2
         /\ at = w - 1 => at \div 2 = Wide(leaves, k + 1) - 1
         /\ Sibling(at) >= w =>
              /\ at % 2 = 0 /\ at = w - 1 /\ Wide(leaves, k + 1) >= 2
              /\ Node(leaves, index, k + 1) = Node(leaves, index, k)
         /\ Sibling(at) < w /\ at % 2 = 0 =>
              Node(leaves, index, k + 1) =
                HashMultiple(Node(leaves, index, k), Level(leaves)[k][Sibling(at) + 1])
         /\ Sibling(at) < w /\ at % 2 # 0 =>
              Node(leaves, index, k + 1) =
                HashMultiple(Level(leaves)[k][Sibling(at) + 1], Node(leaves, index, k))
         /\ at = w - 1 /\ Sibling(at) < w => at % 2 # 0 /\ Sibling(at) + 1 < w
<1> DEFINE lev == Level(leaves)[k]
<1>1. /\ at \in Nat /\ at < w /\ w \in Nat /\ w > 1
      /\ Way(index, Height(leaves))[k + 1] = at \div 2
      /\ Wide(leaves, k + 1) = (w + 1) \div 2
      /\ k \in 0 .. Len(leaves) - 1
  BY TreeIs, WayWithin
<1>2. /\ k \in 0 .. Len(leaves) /\ k + 1 \in 1 .. Len(leaves) /\ (k + 1) - 1 = k
      /\ Len(leaves) \in Nat /\ Len(leaves) # 0 /\ IsSeq(leaves)
  BY <1>1, TreeIs DEF LeafOf
<1>3. IsSeq(lev) /\ Len(lev) = w
  BY <1>2, LevelsHalve DEF Wide
<1>4. Level(leaves)[k + 1] = NextLevel(lev)
  BY <1>2, LevelIs
<1>5. PICK q, v : q = at \div 2 /\ v = (w + 1) \div 2
  OBVIOUS
<1>6. /\ q \in Nat /\ v \in Nat /\ q + 1 \in 1 .. v
      /\ at = w - 1 => q = v - 1
      /\ at % 2 = 0 => Sibling(at) = at + 1 /\ 2 * (q + 1) - 1 = at + 1 /\ 2 * (q + 1) = at + 2
      /\ at % 2 # 0 => /\ at >= 1 /\ Sibling(at) = at - 1
                       /\ 2 * (q + 1) - 1 = at /\ 2 * (q + 1) = at + 1
      /\ at = w - 1 /\ at % 2 = 0 => v >= 2
  <2>1. q \in Nat /\ (at % 2 = 0 => at = 2 * q) /\ (at % 2 # 0 => at = 2 * q + 1)
    BY <1>1, <1>5, Halves
  <2>2. w + 1 \in Nat
    BY <1>1
  <2>3. v \in Nat /\ (w + 1 = 2 * v \/ w + 1 = 2 * v + 1)
    BY <1>5, <2>2, Halves
  <2>4. /\ at = 2 * q => /\ q + 1 \in 1 .. v /\ (at = w - 1 => q = v - 1 /\ v >= 2)
                         /\ 2 * (q + 1) - 1 = at + 1 /\ 2 * (q + 1) = at + 2
        /\ at = 2 * q + 1 => /\ q + 1 \in 1 .. v /\ (at = w - 1 => q = v - 1) /\ at >= 1
                             /\ 2 * (q + 1) - 1 = at /\ 2 * (q + 1) = at + 1
    <3>1. at \in Nat /\ w \in Nat /\ at < w /\ w > 1 /\ q \in Nat /\ v \in Nat
      BY <1>1, <2>1, <2>3
    <3>2. w + 1 = 2 * v \/ w + 1 = 2 * v + 1
      BY <2>3
    <3> QED
      BY ONLY <3>1, <3>2, Places
  <2> QED
    BY <2>1, <2>3, <2>4 DEF Sibling
<1>7. NextLevel(lev)[q + 1] =
        IF 2 * (q + 1) <= w THEN HashMultiple(lev[2 * (q + 1) - 1], lev[2 * (q + 1)])
                            ELSE lev[2 * (q + 1) - 1]
  BY <1>3, <1>5, <1>6, NextLevelIs
<1>8. Node(leaves, index, k + 1) = NextLevel(lev)[q + 1] /\ Node(leaves, index, k) = lev[at + 1]
  BY <1>1, <1>4, <1>5 DEF Node
<1>9. Way(index, Height(leaves))[k + 1] = q /\ Wide(leaves, k + 1) = v
  BY <1>1, <1>5
<1> HIDE DEF lev
<1>10. CASE at % 2 = 0
  <2>1. Node(leaves, index, k + 1) =
          IF at + 2 <= w THEN HashMultiple(lev[at + 1], lev[at + 2]) ELSE lev[at + 1]
    BY <1>6, <1>7, <1>8, <1>10
  <2>2. Sibling(at) = at + 1 /\ Sibling(at) + 1 = at + 2 /\ Sibling(at) \in Nat
    <3>1. at \in Nat
      BY <1>1
    <3> QED
      BY ONLY <1>10, <3>1 DEF Sibling
  <2>3. /\ Sibling(at) >= w => at = w - 1 /\ Node(leaves, index, k + 1) = lev[at + 1]
        /\ Sibling(at) < w => /\ at # w - 1
                              /\ Node(leaves, index, k + 1) = HashMultiple(lev[at + 1], lev[at + 2])
    BY <1>1, <2>1, <2>2
  <2> QED
    BY <1>1, <1>5, <1>6, <1>8, <1>9, <1>10, <2>2, <2>3 DEF lev
<1>11. CASE at % 2 # 0
  <2>0. /\ at >= 1 /\ Sibling(at) = at - 1
        /\ 2 * (q + 1) - 1 = at /\ 2 * (q + 1) = at + 1
    BY <1>6, <1>11
  <2>1. Node(leaves, index, k + 1) = HashMultiple(lev[at], lev[at + 1])
    <3>1. at + 1 <= w
      BY <1>1
    <3> QED
      BY <1>7, <1>8, <2>0, <3>1
  <2>2. Sibling(at) = at - 1 /\ Sibling(at) + 1 = at /\ Sibling(at) \in Nat /\ Sibling(at) < w
    BY <1>1, <2>0
  <2>3. at = w - 1 => Sibling(at) + 1 < w
    BY <1>1, <2>2
  <2>4. at = w - 1 => at \div 2 = Wide(leaves, k + 1) - 1
    BY <1>5, <1>6, <1>9
  <2>5. Node(leaves, index, k + 1) = HashMultiple(lev[Sibling(at) + 1], Node(leaves, index, k))
    BY <1>8, <2>1, <2>2
  <2>6. ~ (Sibling(at) >= w)
    BY <1>1, <2>2
  <2> QED
    BY <1>1, <1>11, <2>2, <2>3, <2>4, <2>5, <2>6 DEF lev
<1> QED
  BY <1>10, <1>11

-----------------------------------------------------------------------------
(* What is collected on the way                                             *)

LEMMA FoundIs ==
  ASSUME NEW leaves, NEW index, LeafOf(leaves, index), NEW h, h = Height(leaves),
         NEW found, found = Collected(leaves, index)
  PROVE  /\ found[0] = <<>>
         /\ \A k \in 0 .. h : IsSeq(found[k]) /\ Len(found[k]) \in Nat /\ Len(found[k]) <= k
         /\ \A k \in 0 .. h - 1 :
              Sibling(Way(index, h)[k]) >= Wide(leaves, k) => found[k + 1] = found[k]
         /\ \A k \in 0 .. h - 1 :
              Sibling(Way(index, h)[k]) < Wide(leaves, k) =>
                found[k + 1] = Append(found[k], Level(leaves)[k][Sibling(Way(index, h)[k]) + 1])
<1> DEFINE N == {k \in Nat : k <= h => IsSeq(found[k]) /\ Len(found[k]) <= k}
           next(k) == IF Sibling(Way(index, h)[k]) < Wide(leaves, k)
                        THEN Append(found[k], Level(leaves)[k][Sibling(Way(index, h)[k]) + 1])
                        ELSE found[k]
<1>1. h \in Nat
  BY TreeIs
<1>2. found[0] = <<>> /\ \A k \in 1 .. h : found[k] = next(k - 1)
  BY <1>1, CollectedIs DEF Wide
<1>3. ASSUME NEW k \in 0 .. h - 1 PROVE found[k + 1] = next(k)
  <2>1. k + 1 \in 1 .. h /\ (k + 1) - 1 = k
    BY <1>1
  <2> HIDE DEF next
  <2> QED
    BY <1>2, <2>1
<1>4. ASSUME NEW k \in 0 .. h - 1
      PROVE  Sibling(Way(index, h)[k]) \in Nat /\ Wide(leaves, k) \in Nat
  BY OneUp
<1>5. 0 \in N
  <2>1. IsSeq(<<>>) /\ Len(<<>>) = 0
    BY DEF IsSeq
  <2> QED
    BY <1>2, <2>1
<1>6. ASSUME NEW k \in Nat, k \in N PROVE k + 1 \in N
  <2> SUFFICES ASSUME k + 1 <= h PROVE IsSeq(found[k + 1]) /\ Len(found[k + 1]) <= k + 1
    OBVIOUS
  <2>1. k \in 0 .. h - 1
    BY <1>1
  <2>2. found[k + 1] = found[k] \/ \E x : found[k + 1] = Append(found[k], x)
    BY <1>3, <2>1
  <2>3. IsSeq(found[k]) /\ Len(found[k]) <= k /\ Len(found[k]) \in Nat
    BY <1>1, <1>6, SeqIs
  <2>4. CASE found[k + 1] = found[k]
    BY <2>3, <2>4
  <2>5. CASE \E x : found[k + 1] = Append(found[k], x)
    <3>1. PICK x : found[k + 1] = Append(found[k], x)
      BY <2>5
    <3>2. IsSeq(found[k + 1]) /\ Len(found[k + 1]) = Len(found[k]) + 1
      BY <2>3, <3>1, SeqAppend
    <3>3. \A l \in Nat : l <= k => l + 1 <= k + 1
      OBVIOUS
    <3> QED
      BY <2>3, <3>2, <3>3
  <2> QED
    BY <2>2, <2>4, <2>5
<1>7. \A k \in Nat : k \in N
  <2> HIDE DEF N
  <2> QED
    BY <1>5, <1>6, EveryNumber
<1>8. \A k \in 0 .. h : IsSeq(found[k]) /\ Len(found[k]) <= k
  BY <1>1, <1>7
<1>9. \A k \in 0 .. h : Len(found[k]) \in Nat
  BY <1>8, SeqIs
<1>10. \A k \in 0 .. h - 1 : Sibling(Way(index, h)[k]) >= Wide(leaves, k) => found[k + 1] = found[k]
  BY <1>3, <1>4
<1>11. \A k \in 0 .. h - 1 :
         Sibling(Way(index, h)[k]) < Wide(leaves, k) =>
           found[k + 1] = Append(found[k], Level(leaves)[k][Sibling(Way(index, h)[k]) + 1])
  BY <1>3
<1> QED
  BY <1>2, <1>8, <1>9, <1>10, <1>11

(* What is found is kept.                                                   *)
LEMMA FoundStays ==
  ASSUME NEW leaves, NEW index, LeafOf(leaves, index), NEW h, h = Height(leaves),
         NEW found, found = Collected(leaves, index)
  PROVE  \A k \in 0 .. h : /\ Len(found[k]) <= Len(found[h])
                           /\ \A i \in 1 .. Len(found[k]) : found[h][i] = found[k][i]
<1> DEFINE Kept(j, k) == /\ Len(found[j]) <= Len(found[k])
                         /\ \A i \in 1 .. Len(found[j]) : found[k][i] = found[j][i]
           N          == {k \in Nat : k <= h => \A j \in 0 .. k : Kept(j, k)}
<1>1. h \in Nat
  BY TreeIs
<1>2. \A k \in 0 .. h : IsSeq(found[k]) /\ Len(found[k]) \in Nat
  BY FoundIs
<1>3. 0 \in N
  <2>1. \A j \in 0 .. 0 : j = 0
    OBVIOUS
  <2>2. 0 \in 0 .. h
    BY <1>1
  <2> QED
    BY <1>2, <2>1, <2>2
<1>4. ASSUME NEW k \in Nat, k \in N PROVE k + 1 \in N
  <2> SUFFICES ASSUME k + 1 <= h, NEW j \in 0 .. k + 1 PROVE Kept(j, k + 1)
    OBVIOUS
  <2>1. k \in 0 .. h - 1 /\ k \in 0 .. h /\ k + 1 \in 0 .. h /\ j \in 0 .. h
    BY <1>1
  <2>2. found[k + 1] = found[k] \/ \E x : found[k + 1] = Append(found[k], x)
    <3>1. Sibling(Way(index, h)[k]) \in Nat /\ Wide(leaves, k) \in Nat
      BY <2>1, OneUp
    <3>2. \/ Sibling(Way(index, h)[k]) >= Wide(leaves, k)
          \/ Sibling(Way(index, h)[k]) < Wide(leaves, k)
      BY <3>1
    <3>3. Sibling(Way(index, h)[k]) >= Wide(leaves, k) => found[k + 1] = found[k]
      BY <2>1, FoundIs
    <3>4. Sibling(Way(index, h)[k]) < Wide(leaves, k) => \E x : found[k + 1] = Append(found[k], x)
      <4>1. Sibling(Way(index, h)[k]) < Wide(leaves, k) =>
              found[k + 1] = Append(found[k], Level(leaves)[k][Sibling(Way(index, h)[k]) + 1])
        BY <2>1, FoundIs
      <4> QED
        BY <4>1
    <3> QED
      BY <3>2, <3>3, <3>4
  <2>3. Len(found[k]) <= Len(found[k + 1]) /\ \A i \in 1 .. Len(found[k]) : found[k + 1][i] = found[k][i]
    BY <1>2, <2>1, <2>2, SeqAppend
  <2>4. CASE j = k + 1
    BY <1>2, <2>1, <2>4
  <2>5. CASE j \in 0 .. k
    <3>1. Kept(j, k)
      BY <1>1, <1>4, <2>1, <2>5
    <3>2. Len(found[j]) \in Nat /\ Len(found[k]) \in Nat /\ Len(found[k + 1]) \in Nat
      BY <1>2, <2>1
    <3> QED
      BY <2>3, <3>1, <3>2
  <2> QED
    BY <2>4, <2>5
<1>5. h \in N
  <2> HIDE DEF N
  <2> QED
    BY <1>1, <1>3, <1>4, EveryNumber
<1> QED
  BY <1>1, <1>5

-----------------------------------------------------------------------------
(* How deep a hash is: the leaf on its right is so many hashes below it      *)

(* A hash that is not of two hashes, and leaves that all are so.            *)
Leafy(x) == IsHash(x) /\ ~ \E a, b : IsHash(a) /\ IsHash(b) /\ x = HashMultiple(a, b)

Leafs(leaves) == \A i \in 1 .. Len(leaves) : Leafy(leaves[i])

RightDepth(x, n) ==
  \E chain :
    /\ Leafy(chain[0]) /\ chain[n] = x
    /\ \A i \in 1 .. n : \E a : IsHash(a) /\ chain[i] = HashMultiple(a, chain[i - 1])

LEMMA DepthLeaf ==
  ASSUME NEW x
  PROVE  Leafy(x) <=> RightDepth(x, 0)
<1>1. ASSUME Leafy(x) PROVE RightDepth(x, 0)
  <2> DEFINE chain == [i \in 0 .. 0 |-> x]
  <2>1. /\ Leafy(chain[0]) /\ chain[0] = x
        /\ \A i \in 1 .. 0 : \E a : IsHash(a) /\ chain[i] = HashMultiple(a, chain[i - 1])
    BY <1>1
  <2> HIDE DEF chain
  <2> QED
    BY <2>1 DEF RightDepth
<1> QED
  BY <1>1 DEF RightDepth

LEMMA DepthUp ==
  ASSUME NEW n \in Nat, NEW a, IsHash(a), NEW b, RightDepth(b, n)
  PROVE  RightDepth(HashMultiple(a, b), n + 1)
<1>1. PICK chain :
        /\ Leafy(chain[0]) /\ chain[n] = b
        /\ \A i \in 1 .. n : \E x : IsHash(x) /\ chain[i] = HashMultiple(x, chain[i - 1])
  BY DEF RightDepth
<1> DEFINE more == [i \in 0 .. n + 1 |-> IF i <= n THEN chain[i] ELSE HashMultiple(a, b)]
<1>2. /\ more[n + 1] = HashMultiple(a, b)
      /\ \A i \in 0 .. n : more[i] = chain[i]
  OBVIOUS
<1> HIDE DEF more
<1>3. \A i \in 1 .. n + 1 : \E x : IsHash(x) /\ more[i] = HashMultiple(x, more[i - 1])
  <2> SUFFICES ASSUME NEW i \in 1 .. n + 1
               PROVE  \E x : IsHash(x) /\ more[i] = HashMultiple(x, more[i - 1])
    OBVIOUS
  <2>1. CASE i = n + 1
    <3>1. more[i - 1] = b
      BY <1>1, <1>2, <2>1
    <3> QED
      BY <1>2, <2>1, <3>1
  <2>2. CASE i \in 1 .. n
    <3>1. more[i] = chain[i] /\ more[i - 1] = chain[i - 1]
      BY <1>2, <2>2
    <3> QED
      BY <1>1, <2>2, <3>1
  <2> QED
    BY <2>1, <2>2
<1>4. Leafy(more[0])
  BY <1>1, <1>2
<1> QED
  BY <1>2, <1>3, <1>4 DEF RightDepth

LEMMA DepthHash ==
  ASSUME NEW n \in Nat, NEW x, RightDepth(x, n)
  PROVE  IsHash(x)
<1>1. PICK chain :
        /\ Leafy(chain[0]) /\ chain[n] = x
        /\ \A i \in 1 .. n : \E a : IsHash(a) /\ chain[i] = HashMultiple(a, chain[i - 1])
  BY DEF RightDepth
<1>2. CASE n = 0
  BY <1>1, <1>2 DEF Leafy
<1>3. CASE n # 0
  <2>1. n \in 1 .. n
    BY <1>3
  <2> QED
    BY <1>1, <2>1, PairIsHash
<1> QED
  BY <1>2, <1>3

LEMMA DepthDown ==
  ASSUME NEW n \in Nat, NEW x, RightDepth(x, n + 1)
  PROVE  \E a, b : IsHash(a) /\ IsHash(b) /\ x = HashMultiple(a, b) /\ RightDepth(b, n)
<1>1. PICK chain :
        /\ Leafy(chain[0]) /\ chain[n + 1] = x
        /\ \A i \in 1 .. n + 1 : \E a : IsHash(a) /\ chain[i] = HashMultiple(a, chain[i - 1])
  BY DEF RightDepth
<1>2. n + 1 \in 1 .. n + 1 /\ (n + 1) - 1 = n
  OBVIOUS
<1>3. PICK a : IsHash(a) /\ x = HashMultiple(a, chain[n])
  BY <1>1, <1>2
<1>4. \A i \in 1 .. n : i \in 1 .. n + 1
  OBVIOUS
<1>5. RightDepth(chain[n], n)
  BY <1>1, <1>4 DEF RightDepth
<1>6. IsHash(chain[n])
  BY <1>5, DepthHash
<1> QED
  BY <1>3, <1>5, <1>6

(* A hash has one depth.                                                    *)
LEMMA DepthOne ==
  ASSUME NEW x, NEW m \in Nat, NEW n \in Nat, RightDepth(x, m), RightDepth(x, n)
  PROVE  m = n
<1> DEFINE N == {j \in Nat : \A y : \A k \in Nat : RightDepth(y, j) /\ RightDepth(y, k) => j = k}
<1>1. ASSUME NEW y, NEW k \in Nat, RightDepth(y, 0), RightDepth(y, k) PROVE k = 0
  <2> SUFFICES ASSUME k # 0 PROVE FALSE
    OBVIOUS
  <2>1. k - 1 \in Nat /\ (k - 1) + 1 = k
    OBVIOUS
  <2>2. \E a, b : IsHash(a) /\ IsHash(b) /\ y = HashMultiple(a, b)
    BY <1>1, <2>1, DepthDown
  <2>3. Leafy(y)
    BY <1>1, DepthLeaf
  <2> QED
    BY <2>2, <2>3 DEF Leafy
<1>2. 0 \in N
  BY <1>1
<1>3. ASSUME NEW j \in Nat, j \in N PROVE j + 1 \in N
  <2> SUFFICES ASSUME NEW y, NEW k \in Nat, RightDepth(y, j + 1), RightDepth(y, k) PROVE j + 1 = k
    OBVIOUS
  <2>1. k # 0
    BY <1>1
  <2>2. PICK i \in Nat : k = i + 1
    <3>1. k - 1 \in Nat /\ k = (k - 1) + 1
      BY <2>1
    <3> QED
      BY <3>1
  <2>3. PICK a, b : IsHash(a) /\ IsHash(b) /\ y = HashMultiple(a, b) /\ RightDepth(b, j)
    BY DepthDown
  <2>4. PICK c, d : IsHash(c) /\ IsHash(d) /\ y = HashMultiple(c, d) /\ RightDepth(d, i)
    BY <2>2, DepthDown
  <2>5. b = d
    BY <2>3, <2>4, HashTells
  <2>6. j = i
    BY <1>3, <2>3, <2>4, <2>5
  <2> QED
    BY <2>2, <2>6
<1>4. m \in N
  <2> HIDE DEF N
  <2> QED
    BY <1>2, <1>3, EveryNumber
<1> QED
  BY <1>4

LEMMA LevelHashes ==
  ASSUME NEW leaves, NEW index, LeafOf(leaves, index)
  PROVE  \A k \in 0 .. Height(leaves) :
           \A i \in 1 .. Wide(leaves, k) : IsHash(Level(leaves)[k][i])
<1>1. /\ Len(leaves) \in Nat /\ Len(leaves) # 0 /\ Height(leaves) \in Nat
      /\ Height(leaves) <= Len(leaves)
  BY TreeIs
<1>2. \A k \in 0 .. Height(leaves) : k \in 0 .. Len(leaves)
  BY <1>1
<1>3. IsSeq(leaves) /\ \A i \in 1 .. Len(leaves) : IsHash(leaves[i])
  BY DEF LeafOf
<1> QED
  BY <1>1, <1>2, <1>3, NodesAreHashes DEF Wide

(* All nodes of a level are as deep as the level is high, but for the last, *)
(* which may be less.                                                       *)
LEMMA LevelDepth ==
  ASSUME NEW leaves, NEW index, LeafOf(leaves, index), Leafs(leaves)
  PROVE  \A k \in 0 .. Height(leaves) : \A i \in 1 .. Wide(leaves, k) :
           /\ i < Wide(leaves, k) => RightDepth(Level(leaves)[k][i], k)
           /\ \E j \in 0 .. k : RightDepth(Level(leaves)[k][i], j)
<1> DEFINE h        == Height(leaves)
           lev      == Level(leaves)
           w(k)     == Wide(leaves, k)
           Deep(k)  == \A i \in 1 .. w(k) : /\ i < w(k) => RightDepth(lev[k][i], k)
                                            /\ \E j \in 0 .. k : RightDepth(lev[k][i], j)
           N        == {k \in Nat : k <= h => Deep(k)}
<1>1. /\ h \in Nat /\ h <= Len(leaves) /\ Len(leaves) \in Nat /\ Len(leaves) # 0
      /\ IsSeq(leaves) /\ \A i \in 1 .. Len(leaves) : Leafy(leaves[i])
      /\ w(0) = Len(leaves)
  BY TreeIs DEF LeafOf, Leafs
<1>2. \A k \in 0 .. h : w(k) \in Nat /\ w(k) >= 1
  BY TreeIs
<1>3. \A k \in 0 .. h - 1 : w(k) > 1 /\ w(k + 1) = (w(k) + 1) \div 2
  BY TreeIs
<1>4. lev[0] = leaves /\ \A k \in 1 .. Len(leaves) : lev[k] = NextLevel(lev[k - 1])
  BY <1>1, LevelIs
<1>5. \A k \in 0 .. h : IsSeq(lev[k]) /\ Len(lev[k]) = w(k)
  <2>1. \A k \in 0 .. h : k \in 0 .. Len(leaves)
    BY <1>1
  <2> QED
    BY <1>1, <2>1, LevelsHalve DEF Wide
<1>10. \A k \in 0 .. h : \A i \in 1 .. w(k) : IsHash(lev[k][i])
  BY LevelHashes
<1> HIDE DEF h, lev, w
<1>6. 0 \in N
  <2>1. \A i \in 1 .. w(0) : RightDepth(lev[0][i], 0)
    BY <1>1, <1>4, DepthLeaf
  <2>2. 0 \in 0 .. 0
    OBVIOUS
  <2> QED
    BY <2>1, <2>2
<1>7. ASSUME NEW k \in Nat, k \in N PROVE k + 1 \in N
  <2> SUFFICES ASSUME k + 1 <= h, NEW i \in 1 .. w(k + 1)
               PROVE  /\ i < w(k + 1) => RightDepth(lev[k + 1][i], k + 1)
                      /\ \E j \in 0 .. k + 1 : RightDepth(lev[k + 1][i], j)
    OBVIOUS
  <2>1. k \in 0 .. h - 1 /\ k \in 0 .. h /\ k + 1 \in 1 .. Len(leaves) /\ (k + 1) - 1 = k
        /\ k + 1 \in 0 .. h
    BY <1>1
  <2>2. Deep(k)
    BY <1>1, <1>7, <2>1
  <2>3. PICK m \in Nat : m = w(k)
    BY <1>2, <2>1
  <2>4. PICK v \in Nat : v = w(k + 1)
    BY <1>2, <2>1
  <2>5. v = (m + 1) \div 2 /\ i \in 1 .. v
    BY <1>3, <2>1, <2>3, <2>4
  <2>6. m + 1 = 2 * v \/ m + 1 = 2 * v + 1
    <3>1. m + 1 \in Nat
      OBVIOUS
    <3> QED
      BY <2>5, <3>1, Halves
  <2>7. lev[k + 1][i] = IF 2 * i <= m THEN HashMultiple(lev[k][2 * i - 1], lev[k][2 * i])
                                      ELSE lev[k][2 * i - 1]
    <3>1. lev[k + 1] = NextLevel(lev[k])
      BY <1>4, <2>1
    <3>2. IsSeq(lev[k]) /\ Len(lev[k]) = m
      BY <1>5, <2>1, <2>3
    <3>3. i \in 1 .. (Len(lev[k]) + 1) \div 2
      BY <2>5, <3>2
    <3> QED
      BY <3>1, <3>2, <3>3, NextLevelIs
  <2>8. CASE 2 * i <= m
    <3>1. 2 * i \in 1 .. m /\ (i < v => 2 * i < m)
      BY <2>5, <2>6, <2>8
    <3>2. i < v => RightDepth(lev[k][2 * i], k)
      BY <2>2, <2>3, <3>1
    <3>3. PICK j \in 0 .. k : RightDepth(lev[k][2 * i], j)
      BY <2>2, <2>3, <3>1
    <3>4. lev[k + 1][i] = HashMultiple(lev[k][2 * i - 1], lev[k][2 * i])
      BY <2>7, <2>8
    <3>8. IsHash(lev[k][2 * i - 1])
      <4>1. 2 * i - 1 \in 1 .. m
        BY <2>5, <3>1
      <4> QED
        BY <1>10, <2>1, <2>3, <4>1
    <3>5. i < v => RightDepth(lev[k + 1][i], k + 1)
      BY <3>2, <3>4, <3>8, DepthUp
    <3>6. RightDepth(lev[k + 1][i], j + 1)
      BY <3>3, <3>4, <3>8, DepthUp
    <3>7. j + 1 \in 0 .. k + 1
      OBVIOUS
    <3> QED
      BY <2>4, <3>5, <3>6, <3>7
  <2>9. CASE 2 * i > m
    <3>1. i = v /\ 2 * i - 1 \in 1 .. m
      BY <2>5, <2>6, <2>9
    <3>2. PICK j \in 0 .. k : RightDepth(lev[k][2 * i - 1], j)
      BY <2>2, <2>3, <3>1
    <3>3. lev[k + 1][i] = lev[k][2 * i - 1]
      BY <2>5, <2>7, <2>9
    <3>4. j \in 0 .. k + 1
      OBVIOUS
    <3> QED
      BY <2>4, <3>1, <3>2, <3>3, <3>4
  <2> QED
    BY <2>5, <2>8, <2>9
<1>8. \A k \in Nat : k \in N
  <2> HIDE DEF N
  <2> QED
    BY <1>6, <1>7, EveryNumber
<1>9. \A k \in 0 .. h : Deep(k)
  BY <1>1, <1>8
<1> QED
  BY <1>9 DEF h, lev, w

-----------------------------------------------------------------------------
(* Which proofs verify                                                      *)

(* A proof that GetProof makes, without its root.                           *)
ProofOf(proof, leaves, index) ==
  /\ proof.index = index /\ proof.leaf = leaves[index + 1]
  /\ proof.siblings = Collected(leaves, index)[Height(leaves)]

(* What a proof comes to is a hash, if the leaf it starts from is one.       *)
LEMMA ClimbHashes ==
  ASSUME NEW proof, Len(proof.siblings) \in Nat
  PROVE  /\ \A k \in 1 .. Len(proof.siblings) : IsHash(Climb(proof)[k])
         /\ IsHash(proof.leaf) =>
              \A k \in 0 .. Len(proof.siblings) : IsHash(Climb(proof)[k])
<1>1. \A k \in 1 .. Len(proof.siblings) : IsHash(Climb(proof)[k])
  BY ClimbIs, PairIsHash
<1>2. Climb(proof)[0] = proof.leaf
  BY ClimbIs
<1>3. \A k \in 0 .. Len(proof.siblings) : k = 0 \/ k \in 1 .. Len(proof.siblings)
  OBVIOUS
<1> QED
  BY <1>1, <1>2, <1>3

(* Where there is a neighbour, it is the next sibling of the proof; on      *)
(* which side it is put says the index as it was that many siblings above   *)
(* the leaf, not that many levels.                                          *)
LEMMA ClimbUp ==
  ASSUME NEW leaves, NEW index, LeafOf(leaves, index), NEW proof, ProofOf(proof, leaves, index),
         NEW k \in 0 .. Height(leaves) - 1, NEW c, c = Len(Collected(leaves, index)[k]),
         NEW at, at = Sibling(Way(index, Height(leaves))[k]), at < Wide(leaves, k)
  PROVE  /\ c \in Nat /\ Len(Collected(leaves, index)[k + 1]) = c + 1
         /\ Climb(proof)[c + 1] =
              IF Way(index, Height(leaves))[c] % 2 = 0
                THEN HashMultiple(Climb(proof)[c], Level(leaves)[k][at + 1])
                ELSE HashMultiple(Level(leaves)[k][at + 1], Climb(proof)[c])
<1> DEFINE h     == Height(leaves)
           found == Collected(leaves, index)
           m     == Len(found[h])
<1>1. h \in Nat
  BY TreeIs
<1>2. k \in 0 .. h /\ k + 1 \in 0 .. h /\ h \in 0 .. h
  BY <1>1
<1>3. IsSeq(found[k]) /\ c \in Nat /\ m \in Nat /\ m <= h
  BY <1>2, FoundIs
<1>4. found[k + 1] = Append(found[k], Level(leaves)[k][at + 1])
  BY FoundIs
<1>5. Len(found[k + 1]) = c + 1 /\ found[k + 1][c + 1] = Level(leaves)[k][at + 1]
  BY <1>3, <1>4, SeqAppend
<1>6. c + 1 \in 1 .. c + 1 /\ (c + 1) - 1 = c
  BY <1>3
<1>7. c + 1 <= m /\ found[h][c + 1] = Level(leaves)[k][at + 1]
  <2>1. PICK g, f : g = h /\ f = found
    OBVIOUS
  <2>2. \A j \in 0 .. g : /\ Len(f[j]) <= Len(f[g])
                           /\ \A i \in 1 .. Len(f[j]) : f[g][i] = f[j][i]
    BY <2>1, FoundStays
  <2>3. k + 1 \in 0 .. g
    BY <1>2, <2>1
  <2>4. Len(found[k + 1]) <= m /\ \A i \in 1 .. Len(found[k + 1]) : found[h][i] = found[k + 1][i]
    BY ONLY <2>1, <2>2, <2>3
  <2> QED
    BY <1>5, <1>6, <2>4
<1>8. Len(proof.siblings) = m /\ proof.siblings[c + 1] = Level(leaves)[k][at + 1] /\ proof.index = index
  BY <1>7 DEF ProofOf
<1> HIDE DEF m, found, h
<1>9. c + 1 \in 1 .. m
  BY <1>3, <1>7
<1>10. Climb(proof)[c + 1] =
         IF Way(index, m)[c] % 2 = 0
           THEN HashMultiple(Climb(proof)[c], Level(leaves)[k][at + 1])
           ELSE HashMultiple(Level(leaves)[k][at + 1], Climb(proof)[c])
  BY <1>3, <1>6, <1>8, <1>9, ClimbIs
<1>11. Way(index, m)[c] = Way(index, h)[c]
  <2>1. c <= m /\ c <= h
    BY <1>1, <1>3, <1>7
  <2> QED
    BY <1>1, <1>3, <2>1, WaySame
<1> QED
  BY <1>3, <1>5, <1>10, <1>11 DEF h, found

(* On the way up either every level so far had a neighbour, and the proof   *)
(* has come to the node of its leaf, or the node is the last of its level   *)
(* for good, and the proof will put the next sibling on its right where the *)
(* tree has it on the left, or has done so; then it can come to the root    *)
(* only where a leaf is itself the hash of two hashes.                      *)
LEMMA ClimbTells ==
  ASSUME NEW leaves, NEW index, LeafOf(leaves, index), NEW proof, ProofOf(proof, leaves, index)
  PROVE  /\ Len(proof.siblings) = Height(leaves) =>
              Climb(proof)[Len(proof.siblings)] = Level(leaves)[Height(leaves)][1]
         /\ Leafs(leaves) /\ Climb(proof)[Len(proof.siblings)] = Level(leaves)[Height(leaves)][1]
              => Len(proof.siblings) = Height(leaves)
<1> DEFINE h       == Height(leaves)
           lev     == Level(leaves)
           way     == Way(index, h)
           found   == Collected(leaves, index)
           climb   == Climb(proof)
           w(k)    == Wide(leaves, k)
           c(k)    == Len(found[k])
           node(k) == Node(leaves, index, k)
           On(k)   == c(k) = k /\ climb[c(k)] = node(k)
           Low(k)  == \E j \in 0 .. k - 1 : RightDepth(node(k), j)
           Off(k)  == /\ Low(k)
                      /\ \/ w(k) >= 2 /\ climb[c(k)] = node(k) /\ way[c(k)] % 2 = 0
                         \/ climb[c(k)] # node(k)
           Left(k) == way[k] = w(k) - 1 /\ c(k) < k /\ (Leafs(leaves) => Off(k))
           N       == {k \in Nat : k <= h => On(k) \/ Left(k)}
<1>1. h \in Nat /\ \A k \in 0 .. h : w(k) \in Nat /\ w(k) >= 1
  BY TreeIs
<1>2. w(h) = 1
  BY TreeIs
<1>3. way[0] = index /\ \A k \in 0 .. h : way[k] \in Nat /\ way[k] < w(k)
  BY WayWithin
<1>4. /\ found[0] = <<>>
      /\ \A k \in 0 .. h : c(k) \in Nat /\ c(k) <= k
      /\ \A k \in 0 .. h - 1 : Sibling(way[k]) >= w(k) => found[k + 1] = found[k]
  BY FoundIs
<1>5. climb[0] = node(0) /\ Len(proof.siblings) = c(h)
  <2>0. h \in 0 .. h
    BY <1>1
  <2>1. IsSeq(found[h]) /\ proof.siblings = found[h] /\ proof.leaf = leaves[index + 1]
    BY <2>0, FoundIs DEF ProofOf
  <2>2. Len(proof.siblings) \in Nat
    BY <2>1, SeqIs
  <2>3. climb[0] = proof.leaf
    BY <2>2, ClimbIs
  <2>4. lev[0] = leaves
    BY TreeIs, LevelIs
  <2> QED
    BY <1>3, <2>1, <2>3, <2>4 DEF Node
<1>6. Leafs(leaves) =>
        \A k \in 0 .. h : \A i \in 1 .. w(k) : /\ i < w(k) => RightDepth(lev[k][i], k)
                                              /\ \E j \in 0 .. k : RightDepth(lev[k][i], j)
  BY LevelDepth
<1>17. \A k \in 0 .. h : \A i \in 1 .. w(k) : IsHash(lev[k][i])
  BY LevelHashes
<1>18. \A k \in 0 .. h : IsHash(climb[c(k)])
  <2>1. h \in 0 .. h
    BY <1>1
  <2>2. Len(proof.siblings) = c(h) /\ c(h) \in Nat
    BY <1>4, <1>5, <2>1
  <2>3. IsHash(proof.leaf)
    <3>1. proof.leaf = leaves[index + 1] /\ index + 1 \in 1 .. Len(leaves)
      BY TreeIs DEF ProofOf, LeafOf
    <3> QED
      BY <3>1 DEF LeafOf
  <2>4. \A i \in 0 .. c(h) : IsHash(climb[i])
    BY <2>2, <2>3, ClimbHashes
  <2>5. \A k \in 0 .. h : c(k) \in 0 .. c(h)
    <3>1. PICK g, f : g = h /\ f = found
      OBVIOUS
    <3>2. \A j \in 0 .. g : Len(f[j]) <= Len(f[g])
      BY <3>1, FoundStays
    <3> QED
      BY <1>4, <2>2, <3>1, <3>2
  <2> QED
    BY <2>4, <2>5
<1>7. \A k \in 0 .. h : node(k) = lev[k][way[k] + 1]
  BY DEF Node
<1>8. ASSUME NEW k \in 0 .. h - 1
      PROVE  /\ Sibling(way[k]) \in Nat /\ w(k) \in Nat /\ way[k] \in Nat
             /\ way[k] = w(k) - 1 => way[k + 1] = w(k + 1) - 1
             /\ Sibling(way[k]) >= w(k) =>
                  way[k] % 2 = 0 /\ way[k] = w(k) - 1 /\ w(k + 1) >= 2 /\ node(k + 1) = node(k)
             /\ Sibling(way[k]) < w(k) /\ way[k] % 2 = 0 =>
                  node(k + 1) = HashMultiple(node(k), lev[k][Sibling(way[k]) + 1])
             /\ Sibling(way[k]) < w(k) /\ way[k] % 2 # 0 =>
                  node(k + 1) = HashMultiple(lev[k][Sibling(way[k]) + 1], node(k))
             /\ way[k] = w(k) - 1 /\ Sibling(way[k]) < w(k) =>
                  way[k] % 2 # 0 /\ Sibling(way[k]) + 1 < w(k)
  BY OneUp
<1>9. ASSUME NEW k \in 0 .. h - 1, Sibling(way[k]) < w(k)
      PROVE  /\ c(k) \in Nat /\ c(k + 1) = c(k) + 1
             /\ climb[c(k) + 1] = IF way[c(k)] % 2 = 0
                                    THEN HashMultiple(climb[c(k)], lev[k][Sibling(way[k]) + 1])
                                    ELSE HashMultiple(lev[k][Sibling(way[k]) + 1], climb[c(k)])
  <2>1. PICK a, d : a = Sibling(way[k]) /\ d = c(k)
    OBVIOUS
  <2>2. a < Wide(leaves, k)
    BY <1>9, <2>1
  <2>3. /\ d \in Nat /\ c(k + 1) = d + 1
        /\ climb[d + 1] = IF way[d] % 2 = 0 THEN HashMultiple(climb[d], lev[k][a + 1])
                                            ELSE HashMultiple(lev[k][a + 1], climb[d])
    BY <2>1, <2>2, ClimbUp
  <2> QED
    BY <2>1, <2>3
<1> HIDE DEF h, lev, way, found, climb, w, node
<1>10. 0 \in N
  <2>1. c(0) = 0
    BY <1>4
  <2> QED
    BY <1>5, <2>1
<1>11. ASSUME NEW k \in Nat, k \in N PROVE k + 1 \in N
  <2> SUFFICES ASSUME k + 1 <= h PROVE On(k + 1) \/ Left(k + 1)
    OBVIOUS
  <2>1. k \in 0 .. h - 1 /\ k \in 0 .. h /\ k + 1 \in 0 .. h /\ (k + 1) - 1 = k
    BY <1>1
  <2>2. On(k) \/ Left(k)
    BY <1>1, <1>11, <2>1
  <2>3. c(k) \in Nat /\ c(k) <= k
    BY <1>4, <2>1
  <2> DEFINE sib == lev[k][Sibling(way[k]) + 1]
  <2>4. CASE Sibling(way[k]) >= w(k)
    <3>1. /\ found[k + 1] = found[k] /\ node(k + 1) = node(k) /\ way[k] % 2 = 0
          /\ w(k + 1) >= 2 /\ way[k + 1] = w(k + 1) - 1
      BY <1>4, <1>8, <2>1, <2>4
    <3>2. c(k + 1) = c(k) /\ c(k + 1) < k + 1
      BY <2>3, <3>1
    <3>3. ASSUME Leafs(leaves) PROVE Off(k + 1)
      <4>1. way[k] + 1 \in 1 .. w(k)
        BY <1>1, <1>3, <2>1
      <4>2. \E j \in 0 .. k : RightDepth(node(k), j)
        BY <1>6, <1>7, <2>1, <3>3, <4>1
      <4>3. Low(k + 1)
        BY <2>1, <3>1, <4>2
      <4>4. climb[c(k + 1)] = node(k + 1) => way[c(k + 1)] % 2 = 0
        <5>1. CASE On(k)
          BY <3>1, <3>2, <5>1
        <5>2. CASE Left(k)
          BY <3>1, <3>2, <3>3, <5>2
        <5> QED
          BY <2>2, <5>1, <5>2
      <4> QED
        BY <3>1, <4>3, <4>4
    <3> HIDE DEF Off
    <3> QED
      BY <3>1, <3>2, <3>3
  <2>5. CASE Sibling(way[k]) < w(k)
    <3>1. /\ c(k + 1) = c(k) + 1
          /\ climb[c(k + 1)] = IF way[c(k)] % 2 = 0 THEN HashMultiple(climb[c(k)], sib)
                                                   ELSE HashMultiple(sib, climb[c(k)])
      BY <1>9, <2>1, <2>5
    <3>2. CASE On(k)
      BY <1>8, <2>1, <2>5, <3>1, <3>2
    <3>3. CASE Left(k)
      <4>1. /\ way[k] % 2 # 0 /\ Sibling(way[k]) + 1 < w(k) /\ way[k + 1] = w(k + 1) - 1
            /\ node(k + 1) = HashMultiple(sib, node(k)) /\ Sibling(way[k]) \in Nat /\ w(k) \in Nat
        BY <1>8, <2>1, <2>5, <3>3
      <4>2. c(k + 1) < k + 1
        BY <2>3, <3>1, <3>3
      <4>3. IsHash(climb[c(k)]) /\ IsHash(sib) /\ IsHash(node(k))
        <5>1. Sibling(way[k]) + 1 \in 1 .. w(k)
          BY <4>1
        <5>2. way[k] + 1 \in 1 .. w(k)
          BY <1>1, <1>3, <2>1
        <5> QED
          BY <1>7, <1>17, <1>18, <2>1, <5>1, <5>2
      <4>4. ASSUME Leafs(leaves) PROVE Off(k + 1)
        <5>1. Off(k)
          BY <3>3, <4>4
        <5>2. RightDepth(sib, k)
          <6>1. Sibling(way[k]) + 1 \in 1 .. w(k)
            BY <4>1
          <6> QED
            BY <1>6, <2>1, <4>1, <4>4, <6>1
        <5>3. PICK j \in 0 .. k - 1 : RightDepth(node(k), j)
          BY <5>1
        <5>4. sib # node(k)
          <6>1. j \in Nat /\ j # k
            OBVIOUS
          <6> QED
            BY <5>2, <5>3, <6>1, DepthOne
        <5> HIDE DEF sib
        <5>5. Low(k + 1)
          <6>1. j + 1 \in 0 .. (k + 1) - 1 /\ j \in Nat
            OBVIOUS
          <6>2. RightDepth(node(k + 1), j + 1)
            BY <4>1, <4>3, <5>3, <6>1, DepthUp
          <6> QED
            BY <6>1, <6>2
        <5>6. climb[c(k + 1)] # node(k + 1)
          <6>1. CASE way[c(k)] % 2 = 0
            <7>1. climb[c(k + 1)] = HashMultiple(climb[c(k)], sib)
              BY <3>1, <6>1
            <7> QED
              BY <4>1, <4>3, <5>4, <7>1, HashTells
          <6>2. CASE way[c(k)] % 2 # 0
            <7>1. climb[c(k + 1)] = HashMultiple(sib, climb[c(k)])
              BY <3>1, <6>2
            <7>2. climb[c(k)] # node(k)
              BY <5>1, <6>2
            <7> QED
              BY <4>1, <4>3, <7>1, <7>2, HashTells
          <6> QED
            BY <6>1, <6>2
        <5> QED
          BY <5>5, <5>6
      <4> HIDE DEF Off
      <4> QED
        BY <4>1, <4>2, <4>4
    <3> QED
      BY <2>2, <3>2, <3>3
  <2> QED
    BY <1>8, <2>1, <2>4, <2>5
<1>12. On(h) \/ Left(h)
  <2>1. h \in N
    <3> HIDE DEF N
    <3> QED
      BY <1>1, <1>10, <1>11, EveryNumber
  <2> QED
    BY <1>1, <2>1
<1>13. Leafs(leaves) => c(h) = h \/ climb[c(h)] # node(h)
  BY <1>2, <1>12
<1>14. c(h) = h => climb[c(h)] = node(h)
  BY <1>1, <1>12
<1>15. node(h) = lev[h][1]
  <2>1. way[h] = 0
    BY <1>1, <1>2, <1>3
  <2>2. h \in 0 .. h
    BY <1>1
  <2> QED
    BY <1>7, <2>1, <2>2
<1>16. /\ c(h) = h => climb[c(h)] = lev[h][1]
       /\ Leafs(leaves) /\ climb[c(h)] = lev[h][1] => c(h) = h
  BY <1>13, <1>14, <1>15
<1> QED
  BY <1>5, <1>16 DEF h, lev, climb

(* The sequences of a sequence, one behind the other.                       *)
LEMMA FlattenIs ==
  ASSUME NEW seqs, Len(seqs) \in Nat, Len(seqs) # 0
  PROVE  \E made : /\ FlattenSeq(seqs) = made[Len(seqs)] /\ made[1] = seqs[1]
                   /\ \A k \in 2 .. Len(seqs) : made[k] = made[k - 1] \o seqs[k]
<1> DEFINE From(g, n) == [k \in 1 .. n |-> IF k = 1 THEN seqs[1] ELSE g[k - 1] \o seqs[k]]
           N          == {n \in Nat : \E g : g = From(g, n)}
<1>1. 0 \in N
  <2> DEFINE g == [k \in 1 .. 0 |-> seqs[1]]
  <2>1. g = From(g, 0)
    OBVIOUS
  <2> QED
    BY <2>1
<1>2. ASSUME NEW n \in Nat, n \in N PROVE n + 1 \in N
  <2>1. PICK g : g = From(g, n)
    BY <1>2
  <2> DEFINE h == [k \in 1 .. n + 1 |->
                     IF k <= n THEN g[k] ELSE IF k = 1 THEN seqs[1] ELSE g[k - 1] \o seqs[k]]
  <2>2. \A k \in 1 .. n : g[k] = IF k = 1 THEN seqs[1] ELSE g[k - 1] \o seqs[k]
    BY <2>1
  <2>3. \A k \in 1 .. n + 1 : h[k] = IF k = 1 THEN seqs[1] ELSE h[k - 1] \o seqs[k]
    <3> SUFFICES ASSUME NEW k \in 1 .. n + 1
                 PROVE  h[k] = IF k = 1 THEN seqs[1] ELSE h[k - 1] \o seqs[k]
      OBVIOUS
    <3>1. CASE k = n + 1
      <4>1. /\ h[k] = IF k = 1 THEN seqs[1] ELSE g[k - 1] \o seqs[k]
            /\ k # 1 => h[k - 1] = g[k - 1]
        BY <3>1
      <4> HIDE DEF h
      <4> QED
        BY <4>1
    <3>2. CASE k \in 1 .. n
      <4>1. h[k] = g[k] /\ (k # 1 => h[k - 1] = g[k - 1])
        BY <3>2
      <4> HIDE DEF h
      <4> QED
        BY <2>2, <3>2, <4>1
    <3> QED
      BY <3>1, <3>2
  <2>4. h = From(h, n + 1)
    BY <2>3
  <2>5. n + 1 \in Nat /\ \E f : f = From(f, n + 1)
    <3> HIDE DEF h, From
    <3> QED
      BY <2>4
  <2> HIDE DEF h, From
  <2> QED
    BY <2>5
<1>3. Len(seqs) \in N
  <2> HIDE DEF N
  <2> QED
    BY <1>1, <1>2, EveryNumber
<1> DEFINE made == CHOOSE g : g = From(g, Len(seqs))
<1>4. made = From(made, Len(seqs))
  <2> HIDE DEF From
  <2> QED
    BY <1>3
<1>5. FlattenSeq(seqs) = made[Len(seqs)]
  BY DEF FlattenSeq
<1> HIDE DEF made
<1>6. made[1] = seqs[1]
  BY <1>4
<1>7. ASSUME NEW k \in 2 .. Len(seqs)
      PROVE  made[k] = made[k - 1] \o seqs[k]
  <2>1. k \in 1 .. Len(seqs) /\ k # 1
    OBVIOUS
  <2> QED
    BY ONLY <1>4, <2>1
<1> QED
  BY <1>5, <1>6, <1>7

LEMMA SeqJoin ==
  ASSUME NEW s, NEW t, IsSeq(s), IsSeq(t), Len(t) # 0
  PROVE  IsSeq(s \o t) /\ Len(s \o t) # 0 /\ Last(s \o t) = Last(t)
<1>1. PICK S, T : s \in Seq(S) /\ t \in Seq(T)
  BY DEF IsSeq
<1>2. s \in Seq(S \union T) /\ t \in Seq(S \union T)
  BY <1>1
<1>3. s \o t \in Seq(S \union T) /\ Len(s \o t) = Len(s) + Len(t) /\ Len(s) \in Nat /\ Len(t) \in Nat
  BY <1>2
<1>4. (s \o t)[Len(s) + Len(t)] = t[Len(t)]
  BY <1>2, <1>3
<1> QED
  BY <1>3, <1>4 DEF IsSeq, Last

LEMMA FlattenEnds ==
  ASSUME NEW seqs, Len(seqs) \in Nat, Len(seqs) # 0,
         \A k \in 1 .. Len(seqs) : IsSeq(seqs[k]) /\ Len(seqs[k]) # 0
  PROVE  Last(FlattenSeq(seqs)) = Last(seqs[Len(seqs)])
<1>1. PICK made : /\ FlattenSeq(seqs) = made[Len(seqs)] /\ made[1] = seqs[1]
                  /\ \A k \in 2 .. Len(seqs) : made[k] = made[k - 1] \o seqs[k]
  BY FlattenIs
<1> DEFINE Ends(k) == IsSeq(made[k]) /\ Last(made[k]) = Last(seqs[k])
           N       == {k \in Nat : k + 1 <= Len(seqs) => Ends(k + 1)}
<1>2. 0 \in N
  BY <1>1
<1>3. ASSUME NEW k \in Nat, k \in N PROVE k + 1 \in N
  <2> SUFFICES ASSUME (k + 1) + 1 <= Len(seqs) PROVE Ends((k + 1) + 1)
    OBVIOUS
  <2>1. PICK m : m = (k + 1) + 1
    OBVIOUS
  <2>2. m \in 2 .. Len(seqs) /\ m \in 1 .. Len(seqs) /\ m - 1 = k + 1 /\ k + 1 <= Len(seqs)
    BY <2>1
  <2>3. IsSeq(made[k + 1])
    BY <1>3, <2>2
  <2>4. made[m] = made[k + 1] \o seqs[m]
    BY <1>1, <2>2
  <2>5. IsSeq(seqs[m]) /\ Len(seqs[m]) # 0
    BY <2>2
  <2>6. Ends(m)
    BY <2>3, <2>4, <2>5, SeqJoin
  <2> QED
    BY <2>1, <2>6
<1>4. PICK n \in Nat : n + 1 = Len(seqs)
  <2>1. Len(seqs) - 1 \in Nat /\ (Len(seqs) - 1) + 1 = Len(seqs)
    OBVIOUS
  <2> QED
    BY <2>1
<1>5. n \in N
  <2> HIDE DEF N
  <2> QED
    BY <1>2, <1>3, EveryNumber
<1> QED
  BY <1>1, <1>4, <1>5

(* The root is the node that is left.                                       *)
LEMMA TreeOf ==
  ASSUME NEW S, NEW items \in Seq(S), items # <<>>, NEW tree, tree = NewMerkleTree(items)
  PROVE  /\ IsSeq(tree.leaves) /\ Len(tree.leaves) = Len(items) /\ Len(items) \in Nat \ {0}
         /\ \A i \in 1 .. Len(items) : tree.leaves[i] = Hash(items[i])
         /\ tree.root = Level(tree.leaves)[Height(tree.leaves)][1]
<1> DEFINE leaves == [i \in DOMAIN items |-> Hash(items[i])]
           n      == Len(items)
<1>1. n \in Nat /\ n # 0 /\ DOMAIN items = 1 .. n
  OBVIOUS
<1>2. leaves \in [1 .. n -> {Hash(items[i]) : i \in 1 .. n}]
  BY <1>1
<1>3. IsSeq(leaves) /\ Len(leaves) = n
  BY <1>1, <1>2, SeqMade
<1>4. \A i \in 1 .. n : leaves[i] = Hash(items[i])
  BY <1>1
<1>5. tree.leaves = leaves /\ tree.root = Last(Nodes(leaves))
  BY DEF NewMerkleTree
<1> HIDE DEF leaves
<1> DEFINE h    == Height(leaves)
           seqs == [k \in 1 .. h + 1 |-> Level(leaves)[k - 1]]
<1>6. h \in Nat /\ h <= n /\ Len(Level(leaves)[h]) = 1
  BY <1>1, <1>3, HeightIs
<1>7. \A k \in 1 .. h + 1 : IsSeq(seqs[k]) /\ Len(seqs[k]) # 0
  <2> SUFFICES ASSUME NEW k \in 1 .. h + 1
               PROVE  IsSeq(Level(leaves)[k - 1]) /\ Len(Level(leaves)[k - 1]) # 0
    OBVIOUS
  <2>1. k - 1 \in 0 .. n
    BY <1>1, <1>6
  <2>2. IsSeq(Level(leaves)[k - 1]) /\ Len(Level(leaves)[k - 1]) >= 1
    BY <1>1, <1>3, <2>1, LevelsHalve
  <2> QED
    BY <2>2
<1>8. Len(seqs) = h + 1
  <2>1. seqs \in [1 .. h + 1 -> {Level(leaves)[k - 1] : k \in 1 .. h + 1}]
    OBVIOUS
  <2>2. h + 1 \in Nat
    BY <1>6
  <2> HIDE DEF seqs, h
  <2> QED
    BY <2>1, <2>2, SeqMade
<1>9. seqs[h + 1] = Level(leaves)[h]
  BY <1>6
<1>10. Nodes(leaves) = FlattenSeq(seqs)
  BY DEF Nodes
<1> HIDE DEF seqs, h
<1>11. Last(FlattenSeq(seqs)) = Last(Level(leaves)[h])
  BY <1>6, <1>7, <1>8, <1>9, FlattenEnds
<1>12. Last(Level(leaves)[h]) = Level(leaves)[h][1]
  BY <1>6 DEF Last
<1> QED
  BY <1>1, <1>3, <1>4, <1>5, <1>10, <1>11, <1>12 DEF h

(* An item of the bytes of two hashes, whose leaf is a node as well.        *)
TwoHashes(item) == \E a, b : IsHash(a) /\ IsHash(b) /\ item = a \o b

(* A proof that GetProof makes of a tree, of any number of leaves, verifies *)
(* if its leaf had a neighbour on every level.  A leaf that goes up alone   *)
(* somewhere, as the last of three does, has no proof that verifies, unless *)
(* some item is two hashes.                                                 *)
THEOREM MerkleProofsOfPairs ==
  ASSUME NEW S, NEW items \in Seq(S), items # <<>>, NEW index \in 0 .. Len(items) - 1,
         NEW tree, tree = NewMerkleTree(items), NEW proof, proof = GetProof(tree, index)
  PROVE  /\ Len(proof.siblings) = Height(tree.leaves) => VerifyMerkleProof(proof)
         /\ VerifyMerkleProof(proof) => \/ Len(proof.siblings) = Height(tree.leaves)
                                        \/ \E i \in 1 .. Len(items) : TwoHashes(items[i])
<1>1. PICK leaves : leaves = tree.leaves
  OBVIOUS
<1>2. /\ IsSeq(leaves) /\ Len(leaves) = Len(items) /\ Len(items) \in Nat \ {0}
      /\ \A i \in 1 .. Len(items) : leaves[i] = Hash(items[i])
      /\ tree.root = Level(leaves)[Height(leaves)][1]
  BY <1>1, TreeOf
<1>3. LeafOf(leaves, index)
  <2>1. \A i \in 1 .. Len(leaves) : IsHash(leaves[i])
    BY <1>2 DEF IsHash
  <2> QED
    BY <1>2, <2>1 DEF LeafOf
<1>4. ProofOf(proof, leaves, index) /\ proof.root = tree.root
  BY <1>1 DEF ProofOf, GetProof
<1>5. ASSUME ~ \E i \in 1 .. Len(items) : TwoHashes(items[i])
      PROVE  Leafs(leaves)
  <2> SUFFICES ASSUME NEW i \in 1 .. Len(leaves) PROVE Leafy(leaves[i])
    BY DEF Leafs
  <2>1. leaves[i] = Hash(items[i]) /\ ~ TwoHashes(items[i])
    BY <1>2, <1>5
  <2>2. ASSUME NEW a, NEW b, IsHash(a), IsHash(b), leaves[i] = HashMultiple(a, b)
        PROVE  FALSE
    <3>1. items[i] = a \o b
      BY <2>1, <2>2, HashOne DEF HashMultiple
    <3> QED
      BY <2>1, <2>2, <3>1 DEF TwoHashes
  <2> QED
    BY <2>1, <2>2 DEF Leafy, IsHash
<1>6. /\ Len(proof.siblings) = Height(leaves) => VerifyMerkleProof(proof)
      /\ Leafs(leaves) /\ VerifyMerkleProof(proof) => Len(proof.siblings) = Height(leaves)
  BY <1>2, <1>3, <1>4, ClimbTells DEF VerifyMerkleProof
<1> QED
  BY <1>1, <1>5, <1>6

(* What a proof hashes first.                                               *)
Lowest(proof) == IF proof.index % 2 = 0 THEN proof.leaf \o proof.siblings[1]
                                        ELSE proof.siblings[1] \o proof.leaf

(* What a root binds: two proofs of one index with as many siblings, of     *)
(* whatever bytes, that verify against one root have the same siblings but  *)
(* for the first, and the same bytes in the leaf and the first sibling      *)
(* together.  Which of these are the leaf's the root does not bind, for no   *)
(* length is hashed nor checked: only of leaves that are as long, as the    *)
(* leaf hashes of GetProof are, there is no other.                          *)
THEOREM MerkleProofsBind ==
  ASSUME NEW proof, NEW other, IsSeq(proof.siblings), IsSeq(other.siblings),
         Len(proof.siblings) = Len(other.siblings),
         IsSeq(proof.leaf), \A k \in 1 .. Len(proof.siblings) : IsSeq(proof.siblings[k]),
         IsSeq(other.leaf), \A k \in 1 .. Len(other.siblings) : IsSeq(other.siblings[k]),
         proof.index = other.index, proof.root = other.root,
         VerifyMerkleProof(proof), VerifyMerkleProof(other)
  PROVE  /\ \A k \in 2 .. Len(proof.siblings) : proof.siblings[k] = other.siblings[k]
         /\ Len(proof.siblings) # 0 => Lowest(proof) = Lowest(other)
         /\ Len(proof.siblings) = 0 \/ Len(proof.leaf) = Len(other.leaf) =>
              /\ proof.leaf = other.leaf
              /\ \A k \in 1 .. Len(proof.siblings) : proof.siblings[k] = other.siblings[k]
<1> DEFINE n       == Len(proof.siblings)
           a       == Climb(proof)
           b       == Climb(other)
           Same(j) == /\ a[n - j] = b[n - j]
                      /\ \A k \in n - j + 1 .. n : proof.siblings[k] = other.siblings[k]
           N       == {j \in Nat : j + 1 <= n => Same(j)}
<1>1. n \in Nat
  BY SeqIs
<1>2. /\ a[0] = proof.leaf
      /\ \A k \in 1 .. n : a[k] = IF Way(proof.index, n)[k - 1] % 2 = 0
                                    THEN HashMultiple(a[k - 1], proof.siblings[k])
                                    ELSE HashMultiple(proof.siblings[k], a[k - 1])
  BY <1>1, ClimbIs
<1>3. /\ b[0] = other.leaf
      /\ \A k \in 1 .. n : b[k] = IF Way(proof.index, n)[k - 1] % 2 = 0
                                    THEN HashMultiple(b[k - 1], other.siblings[k])
                                    ELSE HashMultiple(other.siblings[k], b[k - 1])
  <2>1. Len(other.siblings) = n /\ Len(other.siblings) \in Nat
    BY <1>1
  <2> HIDE DEF n
  <2> QED
    BY <2>1, ClimbIs
<1>4. a[n] = b[n]
  BY DEF VerifyMerkleProof
<1>5. \A k \in 1 .. n : IsHash(a[k]) /\ IsHash(b[k])
  BY <1>1, ClimbHashes
<1>6. \A k \in 1 .. n : IsSeq(proof.siblings[k]) /\ IsSeq(other.siblings[k])
  OBVIOUS
<1> HIDE DEF a, b, n
<1>7. 0 \in N
  <2>1. n - 0 = n /\ n - 0 + 1 .. n = {}
    BY <1>1
  <2> QED
    BY <1>4, <2>1
<1>8. ASSUME NEW j \in Nat, j \in N PROVE j + 1 \in N
  <2> SUFFICES ASSUME (j + 1) + 1 <= n PROVE Same(j + 1)
    OBVIOUS
  <2>1. PICK k : k = n - j
    OBVIOUS
  <2>2. /\ k \in 1 .. n /\ k - 1 \in 1 .. n /\ n - (j + 1) = k - 1
        /\ n - (j + 1) + 1 = k /\ n - j + 1 = k + 1 /\ j + 1 <= n
    BY <1>1, <2>1
  <2>3. a[k] = b[k] /\ \A i \in k + 1 .. n : proof.siblings[i] = other.siblings[i]
    BY <1>1, <1>8, <2>1, <2>2
  <2>4. a[k - 1] = b[k - 1] /\ proof.siblings[k] = other.siblings[k]
    <3>1. PICK x, y, u, v : /\ x = a[k - 1] /\ y = b[k - 1]
                            /\ u = proof.siblings[k] /\ v = other.siblings[k]
      OBVIOUS
    <3>2. IsSeq(x) /\ IsSeq(y) /\ IsSeq(u) /\ IsSeq(v)
      BY <1>5, <1>6, <2>2, <3>1, HashIs
    <3>5. Len(x) = Len(y)
      BY <1>5, <2>2, <3>1, HashIs
    <3>3. CASE Way(proof.index, n)[k - 1] % 2 = 0
      <4>1. HashMultiple(x, u) = HashMultiple(y, v)
        BY <1>2, <1>3, <2>2, <2>3, <3>1, <3>3
      <4>2. x \o u = y \o v
        BY <4>1, HashOne DEF HashMultiple
      <4>3. x = y /\ u = v
        BY ONLY <3>2, <3>5, <4>2, Joined, Zenon
      <4> QED
        BY <3>1, <4>3
    <3>4. CASE Way(proof.index, n)[k - 1] % 2 # 0
      <4>1. HashMultiple(u, x) = HashMultiple(v, y)
        BY <1>2, <1>3, <2>2, <2>3, <3>1, <3>4
      <4>2. u \o x = v \o y
        BY <4>1, HashOne DEF HashMultiple
      <4>3. x = y /\ u = v
        BY ONLY <3>2, <3>5, <4>2, Joined, Zenon
      <4> QED
        BY <3>1, <4>3
    <3> QED
      BY <3>3, <3>4
  <2>5. \A i \in k .. n : i = k \/ i \in k + 1 .. n
    BY <1>1, <2>2
  <2> QED
    BY <2>2, <2>3, <2>4, <2>5
<1>9. CASE n = 0
  <2>1. 2 .. n = {} /\ 1 .. n = {}
    BY <1>9
  <2> QED
    BY <1>2, <1>3, <1>4, <1>9, <2>1 DEF n
<1>10. CASE n # 0
  <2>1. n - 1 \in Nat /\ (n - 1) + 1 <= n /\ n - (n - 1) = 1 /\ n - (n - 1) + 1 = 2
    BY <1>1, <1>10
  <2>2. n - 1 \in N
    <3> HIDE DEF N
    <3> QED
      BY <1>7, <1>8, <2>1, EveryNumber
  <2>3. Same(n - 1)
    BY <2>1, <2>2
  <2>4. a[1] = b[1] /\ \A k \in 2 .. n : proof.siblings[k] = other.siblings[k]
    BY <2>1, <2>3
  <2>5. 1 \in 1 .. n /\ 1 - 1 = 0 /\ \A k \in 1 .. n : k = 1 \/ k \in 2 .. n
    BY <1>1, <1>10
  <2>6. Way(proof.index, n)[0] = proof.index
    BY <1>1, WayIs
  <2>7. PICK u, v : u = proof.siblings[1] /\ v = other.siblings[1]
    OBVIOUS
  <2>8. IsSeq(u) /\ IsSeq(v)
    BY <1>6, <2>5, <2>7
  <2>9. /\ proof.index % 2 = 0 => proof.leaf \o u = other.leaf \o v
        /\ proof.index % 2 # 0 => u \o proof.leaf = v \o other.leaf
    <3>1. a[1] = IF proof.index % 2 = 0 THEN HashMultiple(proof.leaf, u)
                                        ELSE HashMultiple(u, proof.leaf)
      BY <1>2, <2>5, <2>6, <2>7
    <3>2. b[1] = IF proof.index % 2 = 0 THEN HashMultiple(other.leaf, v)
                                        ELSE HashMultiple(v, other.leaf)
      BY <1>3, <2>5, <2>6, <2>7
    <3>3. CASE proof.index % 2 = 0
      <4>1. Hash(proof.leaf \o u) = Hash(other.leaf \o v)
        BY <2>4, <3>1, <3>2, <3>3 DEF HashMultiple
      <4> QED
        BY <3>3, <4>1, HashOne
    <3>4. CASE proof.index % 2 # 0
      <4>1. Hash(u \o proof.leaf) = Hash(v \o other.leaf)
        BY <2>4, <3>1, <3>2, <3>4 DEF HashMultiple
      <4> QED
        BY <3>4, <4>1, HashOne
    <3> QED
      BY <3>3, <3>4
  <2>10. Lowest(proof) = Lowest(other)
    BY <2>7, <2>9 DEF Lowest
  <2>11. ASSUME Len(proof.leaf) = Len(other.leaf) PROVE proof.leaf = other.leaf /\ u = v
    <3>1. PICK x, y : x = proof.leaf /\ y = other.leaf
      OBVIOUS
    <3>2. IsSeq(x) /\ IsSeq(y) /\ Len(x) = Len(y)
      BY <2>11, <3>1
    <3>3. x \o u = y \o v \/ u \o x = v \o y
      BY <2>9, <3>1
    <3>4. x = y /\ u = v
      BY <2>8, <3>2, <3>3, Joined
    <3> QED
      BY <3>1, <3>4
  <2> QED
    BY <1>10, <2>4, <2>5, <2>7, <2>10, <2>11 DEF n
<1> QED
  BY <1>9, <1>10

(* Trees of as many leaves are as wide on every level, and as high.         *)
LEMMA SameShape ==
  ASSUME NEW a, NEW b, IsSeq(a), IsSeq(b), Len(a) = Len(b), Len(a) # 0
  PROVE  /\ \A k \in 0 .. Len(a) : Len(Level(a)[k]) = Len(Level(b)[k])
         /\ Height(a) = Height(b)
<1> DEFINE N == {k \in Nat : k <= Len(a) => Len(Level(a)[k]) = Len(Level(b)[k])}
<1>1. Len(a) \in Nat
  BY SeqIs
<1>2. 0 \in N
  BY <1>1, LevelIs
<1>3. ASSUME NEW k \in Nat, k \in N PROVE k + 1 \in N
  <2> SUFFICES ASSUME k + 1 <= Len(a)
               PROVE  Len(Level(a)[k + 1]) = Len(Level(b)[k + 1])
    OBVIOUS
  <2>1. k + 1 \in 1 .. Len(a) /\ (k + 1) - 1 = k /\ Len(Level(a)[k]) = Len(Level(b)[k])
    BY <1>1, <1>3
  <2>2. Len(Level(a)[k + 1]) = (Len(Level(a)[k]) + 1) \div 2
    BY <2>1, LevelsHalve
  <2>3. Len(Level(b)[k + 1]) = (Len(Level(b)[k]) + 1) \div 2
    BY <2>1, LevelsHalve
  <2> QED
    BY <2>1, <2>2, <2>3
<1>4. Nat \subseteq N
  <2> HIDE DEF N
  <2> QED
    BY <1>2, <1>3, EveryNumber
<1>5. \A k \in 0 .. Len(a) : Len(Level(a)[k]) = Len(Level(b)[k])
  BY <1>1, <1>4
<1>6. PICK g : g = Height(a)
  OBVIOUS
<1>7. PICK h : h = Height(b)
  OBVIOUS
<1>8. /\ g \in 0 .. Len(a) /\ Len(Level(a)[g]) = 1
      /\ \A j \in 0 .. g - 1 : Len(Level(a)[j]) > 1
  BY <1>6, HeightIs
<1>9. /\ h \in 0 .. Len(a) /\ Len(Level(b)[h]) = 1
      /\ \A j \in 0 .. h - 1 : Len(Level(b)[j]) > 1
  BY <1>7, HeightIs
<1>10. ~ (g < h)
  <2> SUFFICES ASSUME g < h PROVE FALSE
    OBVIOUS
  <2>1. g \in 0 .. h - 1 /\ g \in 0 .. Len(a)
    BY <1>1, <1>8, <1>9
  <2>2. Len(Level(a)[g]) = Len(Level(b)[g])
    BY <1>5, <2>1
  <2>3. Len(Level(a)[g]) = 1 /\ Len(Level(b)[g]) > 1
    BY <1>8, <1>9, <2>1
  <2> QED
    BY ONLY <2>2, <2>3
<1>11. ~ (h < g)
  <2> SUFFICES ASSUME h < g PROVE FALSE
    OBVIOUS
  <2>1. h \in 0 .. g - 1 /\ h \in 0 .. Len(a)
    BY <1>1, <1>8, <1>9
  <2>2. Len(Level(a)[h]) = Len(Level(b)[h])
    BY <1>5, <2>1
  <2>3. Len(Level(b)[h]) = 1 /\ Len(Level(a)[h]) > 1
    BY <1>8, <1>9, <2>1
  <2> QED
    BY ONLY <2>2, <2>3
<1> QED
  BY <1>1, <1>5, <1>6, <1>7, <1>8, <1>9, <1>10, <1>11

(* A level tells the one below it.                                          *)
LEMMA LevelTells ==
  ASSUME NEW s, NEW t, IsSeq(s), IsSeq(t), Len(s) = Len(t),
         \A i \in 1 .. Len(s) : IsHash(s[i]) /\ IsHash(t[i]),
         \A i \in 1 .. (Len(s) + 1) \div 2 : NextLevel(s)[i] = NextLevel(t)[i]
  PROVE  \A i \in 1 .. Len(s) : s[i] = t[i]
<1> SUFFICES ASSUME NEW i \in 1 .. Len(s) PROVE s[i] = t[i]
  OBVIOUS
<1>1. PICK n : n = Len(s)
  OBVIOUS
<1>2. PICK p \in 1 .. (n + 1) \div 2 : i = 2 * p - 1 \/ i = 2 * p
  <2>1. n \in Nat /\ i \in 1 .. n
    BY <1>1, SeqIs
  <2>2. (i + 1) \div 2 \in 1 .. (n + 1) \div 2
    BY ONLY <2>1
  <2>3. i = 2 * ((i + 1) \div 2) - 1 \/ i = 2 * ((i + 1) \div 2)
    BY ONLY <2>1
  <2> QED
    BY <2>2, <2>3
<1>3. NextLevel(s)[p] = IF 2 * p <= n THEN HashMultiple(s[2 * p - 1], s[2 * p]) ELSE s[2 * p - 1]
  BY <1>1, NextLevelIs
<1>4. NextLevel(t)[p] = IF 2 * p <= n THEN HashMultiple(t[2 * p - 1], t[2 * p]) ELSE t[2 * p - 1]
  BY <1>1, NextLevelIs
<1>5. NextLevel(s)[p] = NextLevel(t)[p]
  BY <1>1
<1>6. CASE 2 * p <= n
  <2>0. n \in Nat
    BY <1>1, SeqIs
  <2>1. HashMultiple(s[2 * p - 1], s[2 * p]) = HashMultiple(t[2 * p - 1], t[2 * p])
    BY <1>3, <1>4, <1>5, <1>6
  <2>2. 2 * p - 1 \in 1 .. n /\ 2 * p \in 1 .. n
    BY <1>2, <1>6, <2>0
  <2>3. PICK a, b, c, d : a = s[2 * p - 1] /\ b = s[2 * p] /\ c = t[2 * p - 1] /\ d = t[2 * p]
    OBVIOUS
  <2>4. IsHash(a) /\ IsHash(b) /\ IsHash(c) /\ IsHash(d)
    BY <1>1, <2>2, <2>3
  <2>5. a = c /\ b = d
    BY <2>1, <2>3, <2>4, HashTells
  <2> QED
    BY <1>2, <2>3, <2>5
<1>7. CASE ~ (2 * p <= n)
  <2>1. n \in Nat /\ i <= n
    BY <1>1, SeqIs
  <2>2. i = 2 * p - 1
    BY <1>2, <1>7, <2>1
  <2> QED
    BY <1>3, <1>4, <1>5, <1>7, <2>2
<1> QED
  BY <1>6, <1>7

(* A root tells what it was taken of, among trees of as many leaves.        *)
THEOREM MerkleRootsTellLeaves ==
  ASSUME NEW S, NEW items \in Seq(S), NEW others \in Seq(S), items # <<>>,
         Len(items) = Len(others), NewMerkleTree(items).root = NewMerkleTree(others).root
  PROVE  items = others
<1>1. PICK tree : tree = NewMerkleTree(items)
  OBVIOUS
<1>2. PICK twin : twin = NewMerkleTree(others)
  OBVIOUS
<1>3. PICK a : a = tree.leaves
  OBVIOUS
<1>4. PICK b : b = twin.leaves
  OBVIOUS
<1>5. /\ IsSeq(a) /\ Len(a) = Len(items) /\ Len(items) \in Nat \ {0}
      /\ \A i \in 1 .. Len(items) : a[i] = Hash(items[i])
      /\ tree.root = Level(a)[Height(a)][1]
  BY <1>1, <1>3, TreeOf
<1>6. others # <<>>
  BY <1>5
<1>7. /\ IsSeq(b) /\ Len(b) = Len(items)
      /\ \A i \in 1 .. Len(items) : b[i] = Hash(others[i])
      /\ twin.root = Level(b)[Height(b)][1]
  BY <1>2, <1>4, <1>6, TreeOf
<1>8. PICK h : h = Height(a)
  OBVIOUS
<1>9. PICK la, lb : la = Level(a) /\ lb = Level(b)
  OBVIOUS
<1>10. Height(b) = h /\ \A k \in 0 .. Len(items) : Len(la[k]) = Len(lb[k])
  <2>1. IsSeq(a) /\ IsSeq(b) /\ Len(a) = Len(b) /\ Len(a) # 0
    BY <1>5, <1>7
  <2>2. /\ \A k \in 0 .. Len(a) : Len(Level(a)[k]) = Len(Level(b)[k])
        /\ Height(a) = Height(b)
    BY <2>1, SameShape
  <2> QED
    BY <1>5, <1>8, <1>9, <2>2
<1>11. /\ h \in 0 .. Len(items) /\ Len(la[h]) = 1
  BY <1>5, <1>8, <1>9, HeightIs
<1>12. la[h][1] = lb[h][1]
  BY <1>1, <1>2, <1>5, <1>7, <1>8, <1>9, <1>10
<1>13. /\ la[0] = a /\ \A k \in 1 .. Len(items) : la[k] = NextLevel(la[k - 1])
       /\ lb[0] = b /\ \A k \in 1 .. Len(items) : lb[k] = NextLevel(lb[k - 1])
  <2>1. la[0] = a /\ \A k \in 1 .. Len(a) : la[k] = NextLevel(la[k - 1])
    BY <1>5, <1>9, LevelIs
  <2>2. lb[0] = b /\ \A k \in 1 .. Len(b) : lb[k] = NextLevel(lb[k - 1])
    BY <1>5, <1>7, <1>9, LevelIs
  <2> QED
    BY <1>5, <1>7, <2>1, <2>2
<1>14. \A k \in 0 .. Len(items) : IsSeq(la[k]) /\ IsSeq(lb[k])
  BY <1>5, <1>7, <1>9, LevelsHalve
<1>15. \A k \in 1 .. Len(items) : Len(la[k]) = (Len(la[k - 1]) + 1) \div 2
  BY <1>5, <1>9, LevelsHalve
<1>20. \A k \in 0 .. Len(items) : \A i \in 1 .. Len(la[k]) : IsHash(la[k][i]) /\ IsHash(lb[k][i])
  <2>1. \A i \in 1 .. Len(items) : IsHash(a[i]) /\ IsHash(b[i])
    BY <1>5, <1>7 DEF IsHash
  <2>2. \A k \in 0 .. Len(a) : \A i \in 1 .. Len(la[k]) : IsHash(la[k][i])
    BY <1>5, <1>9, <2>1, NodesAreHashes
  <2>3. \A k \in 0 .. Len(b) : \A i \in 1 .. Len(lb[k]) : IsHash(lb[k][i])
    BY <1>5, <1>7, <1>9, <2>1, NodesAreHashes
  <2> QED
    BY <1>5, <1>7, <1>10, <2>2, <2>3
<1> DEFINE Same(k) == \A i \in 1 .. Len(la[k]) : la[k][i] = lb[k][i]
           N       == {j \in Nat : j <= h => Same(h - j)}
<1>16. 0 \in N
  BY <1>11, <1>12
<1>17. ASSUME NEW j \in Nat, j \in N PROVE j + 1 \in N
  <2> SUFFICES ASSUME j + 1 <= h PROVE Same(h - (j + 1))
    OBVIOUS
  <2>1. PICK k : k = h - j
    OBVIOUS
  <2>2. /\ k \in 1 .. Len(items) /\ k - 1 \in 0 .. Len(items) /\ k \in 0 .. Len(items)
        /\ h - (j + 1) = k - 1
    BY <1>5, <1>11, <2>1
  <2>3. Same(k)
    BY <1>11, <1>17, <2>1
  <2>4. PICK s, t : s = la[k - 1] /\ t = lb[k - 1]
    OBVIOUS
  <2>5. la[k] = NextLevel(s) /\ lb[k] = NextLevel(t)
    BY <1>13, <2>2, <2>4
  <2>6. IsSeq(s) /\ IsSeq(t) /\ Len(s) = Len(t) /\ Len(la[k]) = (Len(s) + 1) \div 2
    BY <1>10, <1>14, <1>15, <2>2, <2>4
  <2>7. \A i \in 1 .. (Len(s) + 1) \div 2 : NextLevel(s)[i] = NextLevel(t)[i]
    BY <2>3, <2>5, <2>6
  <2>9. \A i \in 1 .. Len(s) : IsHash(s[i]) /\ IsHash(t[i])
    BY <1>20, <2>2, <2>4
  <2>8. \A i \in 1 .. Len(s) : s[i] = t[i]
    BY <2>6, <2>7, <2>9, LevelTells
  <2> QED
    BY <2>2, <2>4, <2>8
<1>18. Same(0)
  <2>1. h \in N
    <3> HIDE DEF N
    <3> QED
      BY <1>11, <1>16, <1>17, EveryNumber
  <2>2. h - h = 0 /\ h <= h
    BY <1>11
  <2> QED
    BY <2>1, <2>2
<1>19. ASSUME NEW i \in 1 .. Len(items) PROVE items[i] = others[i]
  <2>1. Hash(items[i]) = Hash(others[i])
    BY <1>5, <1>7, <1>13, <1>18
  <2> QED
    BY <2>1, HashOne
<1> QED
  BY <1>5, <1>19
===============================================================================
