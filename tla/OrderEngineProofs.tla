------------------------- MODULE OrderEngineProofs -------------------------
(***************************************************************************)
(* Theorems about OrderEngine, for every set of users, orders and markets, *)
(* every bound on the tree's size and whatever paths and roots a request   *)
(* may hold, and that it implements OrderBook.                             *)
(***************************************************************************)
EXTENDS OrderEngine, SequenceTheorems, TLAPS

(* Some path leads from a hash to a root.                                  *)
Leads(hash, root) ==
    \E siblings, indices :
        Len(siblings) \in Nat /\ VerifyCommitmentMerkleProof(hash, siblings, indices, root)

(* What OnlyMembersAccepted rests on: the leaves are the hashes of         *)
(* commitments, and what any path leads to a root the tree once had is in  *)
(* the tree, which began with that one.                                    *)
RootsSound == \A root \in roots, c \in Candidates : Leads(CommitmentHash(c), root) => InTree(c)

EngineInv ==
    /\ EngineTypeOK
    /\ leaves \in Seq({CommitmentHash(c) : c \in commitments})
    /\ \A path \in Paths : Len(path.siblings) \in Nat
    /\ RootsSound
    /\ OnlyMembersAccepted

------------------------------------------------------------------------------
(* The recursions of the model: the levels of the tree, the way up from a  *)
(* leaf, and the hash the program computes on it.                          *)
Lv == INSTANCE Recursion WITH Base <- LAMBDA p : p, Step <- LAMBDA p, level, k : Parents(level)
Up == INSTANCE Recursion WITH Base <- LAMBDA p : p, Step <- LAMBDA p, i, k : (i + 1) \div 2

HashOver(p, current, k) ==
    IF p.indices[k] = 0 THEN HashPair(current, p.siblings[k]) ELSE HashPair(p.siblings[k], current)
Hash == INSTANCE Recursion WITH Base <- LAMBDA p : p.hash, Step <- HashOver

(* The hashes verify_commitment_merkle_proof goes through.                 *)
HashesOf(hash, siblings, indices) ==
    CHOOSE current : current = [k \in 0..Len(siblings) |->
        IF k = 0 THEN hash
        ELSE IF indices[k] = 0 THEN HashPair(current[k - 1], siblings[k])
        ELSE HashPair(siblings[k], current[k - 1])]

(* A level is a list of nodes.                                             *)
IsLevel(level) == Len(level) \in Nat /\ DOMAIN level = 1..Len(level)
Nodes(level) == {level[i] : i \in 1..Len(level)}
IsCommitmentHash(h) == \E order, nullifier, balance :
                          h = ComputeCommitmentHash(order, nullifier, balance)

(* Every level above the leaves holds the parents of the one below it.     *)
LEMMA LevelsUnfold ==
    Levels[0] = leaves /\ \A k \in Nat : Levels[k + 1] = Parents(Levels[k])
<1>1. \E f : f = [n \in Nat |-> Lv!Entry(leaves, f, n)]
  BY Lv!FunctionExists
<1>2. \E f : f = [k \in Nat |-> IF k = 0 THEN leaves ELSE Parents(f[k - 1])]
  BY <1>1 DEF Lv!Entry
<1>3. Levels = [k \in Nat |-> IF k = 0 THEN leaves ELSE Parents(Levels[k - 1])]
  BY <1>2 DEF Levels
<1>4. ASSUME NEW k \in Nat PROVE Levels[k + 1] = Parents(Levels[k])
  <2>1. k + 1 \in Nat /\ k + 1 # 0 /\ k + 1 - 1 = k
    OBVIOUS
  <2>2. QED
    BY <1>3, <2>1
<1>5. QED
  BY <1>3, <1>4

(* On the way up the number of a node is halved.                           *)
LEMMA PathUnfolds ==
    ASSUME NEW index
    PROVE  Path(index)[0] = index /\ \A k \in Nat : Path(index)[k + 1] = (Path(index)[k] + 1) \div 2
<1>1. \E f : f = [n \in Nat |-> Up!Entry(index, f, n)]
  <2>1. Nat \in SUBSET Nat /\ \A n \in Nat : n # 0 => n - 1 \in Nat
    OBVIOUS
  <2>2. QED
    BY <2>1, Up!FunctionExists
<1>2. \E f : f = [k \in Nat |-> IF k = 0 THEN index ELSE (f[k - 1] + 1) \div 2]
  BY <1>1 DEF Up!Entry
<1> DEFINE path == Path(index)
<1>3. path = [k \in Nat |-> IF k = 0 THEN index ELSE (path[k - 1] + 1) \div 2]
  BY <1>2 DEF Path
<1>4. ASSUME NEW k \in Nat PROVE path[k + 1] = (path[k] + 1) \div 2
  <2> HIDE DEF path
  <2>1. k + 1 \in Nat /\ k + 1 # 0 /\ k + 1 - 1 = k
    OBVIOUS
  <2>2. path[k + 1] = (path[k + 1 - 1] + 1) \div 2
    BY <1>3, <2>1
  <2>3. QED
    BY <2>1, <2>2
<1>5. QED
  BY <1>3, <1>4

(* What the program hashes, level by level.                                *)
LEMMA HashesUnfold ==
    ASSUME NEW hash, NEW siblings, NEW indices, Len(siblings) \in Nat
    PROVE  LET current == HashesOf(hash, siblings, indices)
           IN  /\ current[0] = hash
               /\ \A k \in 1..Len(siblings) :
                     current[k] = IF indices[k] = 0 THEN HashPair(current[k - 1], siblings[k])
                                  ELSE HashPair(siblings[k], current[k - 1])
<1> DEFINE p == [hash |-> hash, siblings |-> siblings, indices |-> indices]
           D == 0..Len(siblings)
           current == HashesOf(hash, siblings, indices)
<1>1. D \in SUBSET Nat /\ \A n \in D : n # 0 => n - 1 \in D
  OBVIOUS
<1> HIDE DEF D
<1>2. \E f : f = [n \in D |-> Hash!Entry(p, f, n)]
  BY <1>1, Hash!FunctionExists
<1>3. p.hash = hash /\ p.siblings = siblings /\ p.indices = indices
  OBVIOUS
<1> HIDE DEF p
<1>4. \E f : f = [k \in D |-> IF k = 0 THEN hash
                              ELSE IF indices[k] = 0 THEN HashPair(f[k - 1], siblings[k])
                              ELSE HashPair(siblings[k], f[k - 1])]
  <2>1. PICK f : f = [n \in D |-> Hash!Entry(p, f, n)]
    BY <1>2
  <2>2. f = [k \in D |-> IF k = 0 THEN hash
                         ELSE IF indices[k] = 0 THEN HashPair(f[k - 1], siblings[k])
                         ELSE HashPair(siblings[k], f[k - 1])]
    BY <1>3, <2>1 DEF Hash!Entry, HashOver
  <2>3. QED
    BY <2>2
<1>5. current = [k \in D |-> IF k = 0 THEN hash
                             ELSE IF indices[k] = 0 THEN HashPair(current[k - 1], siblings[k])
                             ELSE HashPair(siblings[k], current[k - 1])]
  BY <1>4 DEF HashesOf, D
<1> HIDE DEF current
<1>6. current[0] = hash
  <2>1. 0 \in D
    BY DEF D
  <2>2. QED
    BY <1>5, <2>1
<1>7. ASSUME NEW k \in 1..Len(siblings)
      PROVE  current[k] = IF indices[k] = 0 THEN HashPair(current[k - 1], siblings[k])
                          ELSE HashPair(siblings[k], current[k - 1])
  <2>1. k \in D /\ k # 0
    BY DEF D
  <2>2. QED
    BY <1>5, <2>1
<1>8. QED
  BY <1>6, <1>7 DEF current

(* The verdict of the program, by its last hash.                           *)
LEMMA VerifyByHashes ==
    ASSUME NEW hash, NEW siblings, NEW indices, NEW root
    PROVE  VerifyCommitmentMerkleProof(hash, siblings, indices, root) <=>
               /\ Len(siblings) = Len(indices)
               /\ HashesOf(hash, siblings, indices)[Len(siblings)] = root
BY DEF VerifyCommitmentMerkleProof, HashesOf

(* A function on the numbers up to n is a list of n elements.              *)
LEMMA FunctionIsList ==
    ASSUME NEW n \in Nat, NEW S, NEW f \in [1..n -> S]
    PROVE  Len(f) = n /\ DOMAIN f = 1..n
<1>1. f \in Seq(S)
  BY SeqDef
<1>2. Len(f) \in Nat /\ DOMAIN f = 1..Len(f)
  BY <1>1, LenProperties
<1>3. DOMAIN f = 1..n
  OBVIOUS
<1>4. QED
  BY <1>2, <1>3

(* A node has its parent on the next level, hashed from it and its sibling *)
(* in their order; a node of the next level is hashed from two of these.   *)
LEMMA ParentsOfLevel ==
    ASSUME NEW level, IsLevel(level)
    PROVE  /\ IsLevel(Parents(level))
           /\ Len(Parents(level)) = (Len(level) + 1) \div 2
           /\ \A j \in 1..Len(Parents(level)) :
                 Parents(level)[j] =
                     HashPair(level[2 * j - 1],
                              IF 2 * j <= Len(level) THEN level[2 * j] ELSE level[2 * j - 1])
<1> DEFINE n == (Len(level) + 1) \div 2
           S == {Parents(level)[i] : i \in 1..n}
<1>1. n \in Nat
  BY DEF IsLevel
<1>2. Parents(level) \in [1..n -> S]
  BY DEF Parents
<1> HIDE DEF n, S
<1>3. Len(Parents(level)) = n /\ DOMAIN Parents(level) = 1..n
  BY <1>1, <1>2, FunctionIsList
<1>4. QED
  BY <1>1, <1>3 DEF IsLevel, Parents, n

(* Every level is a list, of half the nodes of the one below it.           *)
LEMMA LevelsAreLists ==
    ASSUME IsLevel(leaves)
    PROVE  \A k \in Nat : /\ IsLevel(Levels[k])
                          /\ Len(Levels[k + 1]) = (Len(Levels[k]) + 1) \div 2
<1> DEFINE S == {k \in Nat : IsLevel(Levels[k])}
<1>1. 0 \in S
  BY LevelsUnfold
<1>2. ASSUME NEW n \in Nat, n \in S PROVE n + 1 \in S
  BY <1>2, LevelsUnfold, ParentsOfLevel
<1> HIDE DEF S
<1>3. Nat \subseteq S
  BY <1>1, <1>2, Lv!Induction
<1>4. \A k \in Nat : IsLevel(Levels[k])
  BY <1>3 DEF S
<1>5. QED
  BY <1>4, LevelsUnfold, ParentsOfLevel

(* A tree with leaves has a root: the levels shrink to one node, on the    *)
(* level where the code's loop ends.                                       *)
LEMMA HeightExists ==
    ASSUME IsLevel(leaves), Len(leaves) # 0
    PROVE  Height \in 0..Len(leaves) /\ Len(Levels[Height]) = 1
<1> DEFINE S == {k \in Nat : /\ Len(Levels[k]) >= 1
                             /\ Len(Levels[k]) = 1 \/ Len(Levels[k]) <= Len(leaves) - k}
           Ones == {k \in Nat : Len(Levels[k]) = 1}
<1>1. \A k \in Nat : Len(Levels[k]) \in Nat /\ Len(Levels[k + 1]) = (Len(Levels[k]) + 1) \div 2
  BY LevelsAreLists DEF IsLevel
<1>2. 0 \in S
  <2>1. Len(Levels[0]) = Len(leaves) /\ Len(leaves) \in Nat
    BY LevelsUnfold DEF IsLevel
  <2>2. QED
    BY <2>1
<1>3. ASSUME NEW n \in Nat, n \in S PROVE n + 1 \in S
  <2>1. Len(leaves) \in Nat /\ Len(Levels[n]) \in Nat
    BY <1>1 DEF IsLevel
  <2>2. Len(Levels[n + 1]) = (Len(Levels[n]) + 1) \div 2
    BY <1>1
  <2>3. Len(Levels[n]) >= 1 /\ (Len(Levels[n]) = 1 \/ Len(Levels[n]) <= Len(leaves) - n)
    BY <1>3
  <2>4. /\ Len(Levels[n + 1]) >= 1
        /\ Len(Levels[n + 1]) = 1 \/ Len(Levels[n + 1]) <= Len(leaves) - (n + 1)
    <3> DEFINE a == Len(leaves)
               l == Len(Levels[n])
               half == Len(Levels[n + 1])
    <3>1. a \in Nat /\ l \in Nat /\ half = (l + 1) \div 2 /\ l >= 1 /\ (l = 1 \/ l <= a - n)
      BY <2>1, <2>2, <2>3
    <3> HIDE DEF a, l, half
    <3>2. half >= 1 /\ (half = 1 \/ half <= a - (n + 1))
      BY <3>1
    <3>3. QED
      BY <3>2 DEF a, half
  <2>5. QED
    BY <2>4
<1> HIDE DEF S
<1>4. Nat \subseteq S
  BY <1>2, <1>3, Lv!Induction
<1>5. Len(leaves) \in Nat /\ Len(Levels[Len(leaves)]) = 1
  BY <1>1, <1>4 DEF S, IsLevel
<1>6. Len(leaves) \in Ones /\ Ones \in SUBSET Nat
  BY <1>5
<1> HIDE DEF Ones
<1>7. PICK m \in Ones : \A k \in Ones : m <= k
  BY <1>6, Lv!LeastElement
<1>8. m \in 0..Len(leaves) /\ Len(Levels[m]) = 1
  BY <1>5, <1>6, <1>7 DEF Ones
<1>9. \A j \in 0..(m - 1) : Len(Levels[j]) > 1
  <2> SUFFICES ASSUME NEW j \in 0..(m - 1) PROVE Len(Levels[j]) > 1
    OBVIOUS
  <2>1. j \in Nat /\ j < m
    BY <1>8
  <2>2. j \notin Ones
    BY <1>6, <1>7, <2>1
  <2>3. Len(Levels[j]) # 1 /\ Len(Levels[j]) >= 1 /\ Len(Levels[j]) \in Nat
    BY <1>1, <1>4, <2>1, <2>2 DEF S, Ones
  <2>4. \A l \in Nat : l # 1 /\ l >= 1 => l > 1
    OBVIOUS
  <2>5. QED
    BY <2>3, <2>4
<1>10. \E k \in 0..Len(leaves) :
          Len(Levels[k]) = 1 /\ \A j \in 0..(k - 1) : Len(Levels[j]) > 1
  BY <1>8, <1>9
<1>11. QED
  BY <1>10 DEF Height

(* On every level the way up is at a node of that level.                   *)
LEMMA PathInTree ==
    ASSUME IsLevel(leaves), NEW index \in 1..Len(leaves)
    PROVE  \A k \in Nat : Path(index)[k] \in 1..Len(Levels[k])
<1> DEFINE path == Path(index)
           S == {k \in Nat : path[k] \in 1..Len(Levels[k])}
<1>1. path[0] = index /\ \A k \in Nat : path[k + 1] = (path[k] + 1) \div 2
  BY PathUnfolds
<1> HIDE DEF path
<1>2. 0 \in S
  BY <1>1, LevelsUnfold
<1>3. ASSUME NEW n \in Nat, n \in S PROVE n + 1 \in S
  <2>1. path[n] \in 1..Len(Levels[n]) /\ Len(Levels[n]) \in Nat
    BY <1>3, LevelsAreLists DEF IsLevel
  <2>2. Len(Levels[n + 1]) = (Len(Levels[n]) + 1) \div 2
    BY LevelsAreLists
  <2>3. path[n + 1] = (path[n] + 1) \div 2
    BY <1>1
  <2> DEFINE i == path[n]
             l == Len(Levels[n])
             half == Len(Levels[n + 1])
  <2>4. i \in 1..l /\ l \in Nat /\ half = (l + 1) \div 2 /\ path[n + 1] = (i + 1) \div 2
    BY <2>1, <2>2, <2>3
  <2> HIDE DEF i, l, half
  <2>5. (i + 1) \div 2 \in 1..half
    BY <2>4
  <2>6. path[n + 1] \in 1..Len(Levels[n + 1])
    BY <2>4, <2>5 DEF half
  <2>7. QED
    BY <2>6
<1> HIDE DEF S
<1>4. Nat \subseteq S
  BY <1>2, <1>3, Lv!Induction
<1>5. QED
  BY <1>4 DEF S, path

(* A hash in the list of leaves is found there.                            *)
LEMMA LeafIndexExists ==
    ASSUME IsLevel(leaves), NEW hash, \E i \in DOMAIN leaves : leaves[i] = hash
    PROVE  LeafIndex(hash) \in 1..Len(leaves) /\ leaves[LeafIndex(hash)] = hash
<1> DEFINE S == {i \in 1..Len(leaves) : leaves[i] = hash}
<1>1. S # {} /\ S \in SUBSET Nat
  BY DEF IsLevel
<1>2. PICK m \in S : \A k \in S : m <= k
  BY <1>1, Lv!LeastElement
<1>3. \A j \in 1..(m - 1) : leaves[j] # hash
  <2> SUFFICES ASSUME NEW j \in 1..(m - 1) PROVE leaves[j] # hash
    OBVIOUS
  <2>1. j \in 1..Len(leaves) /\ ~ (m <= j)
    BY <1>2 DEF IsLevel
  <2>2. QED
    BY <1>2, <2>1
<1>4. \E i \in DOMAIN leaves : leaves[i] = hash /\ \A j \in 1..(i - 1) : leaves[j] # hash
  BY <1>2, <1>3 DEF IsLevel
<1>5. QED
  BY <1>4 DEF LeafIndex, IsLevel

(* The root of a tree with leaves is the node of its last level.           *)
LEMMA RootOfLeaves ==
    ASSUME Len(leaves) # 0
    PROVE  Root = Levels[Height][1]
<1>1. leaves # <<>>
  OBVIOUS
<1>2. QED
  BY <1>1 DEF Root

(* generate_proof is complete: with the siblings it takes, the hashes of   *)
(* the program are the nodes on the way up, and the last one is the root.  *)
LEMMA ProofAccepted ==
    ASSUME IsLevel(leaves), NEW hash, \E i \in DOMAIN leaves : leaves[i] = hash
    PROVE  VerifyCommitmentMerkleProof(hash, ProofFor(hash).siblings, ProofFor(hash).indices, Root)
<1> DEFINE index == LeafIndex(hash)
           path == Path(index)
           siblings == ProofFor(hash).siblings
           indices == ProofFor(hash).indices
           current == HashesOf(hash, siblings, indices)
<1>1. Len(leaves) \in Nat /\ Len(leaves) # 0
  BY DEF IsLevel
<1>2. Height \in Nat /\ Len(Levels[Height]) = 1
  BY <1>1, HeightExists
<1>3. index \in 1..Len(leaves) /\ leaves[index] = hash
  BY LeafIndexExists
<1>4. /\ siblings = [k \in 1..Height |-> SiblingHash(Levels[k - 1], path[k - 1])]
      /\ indices = [k \in 1..Height |-> (path[k - 1] - 1) % 2]
  BY DEF ProofFor
<1>5. \A k \in Nat : path[k] \in 1..Len(Levels[k]) /\ path[k + 1] = (path[k] + 1) \div 2
  BY <1>3, PathInTree, PathUnfolds
<1>6. path[0] = index
  BY PathUnfolds
<1> HIDE DEF siblings, indices, path, index
<1>7. Len(siblings) = Height /\ Len(indices) = Height
  <2>1. siblings \in [1..Height -> {siblings[k] : k \in 1..Height}]
    BY <1>4
  <2>2. indices \in [1..Height -> {indices[k] : k \in 1..Height}]
    BY <1>4
  <2>3. QED
    BY <1>2, <2>1, <2>2, FunctionIsList
<1>8. /\ current[0] = hash
      /\ \A k \in 1..Height :
            current[k] = IF indices[k] = 0 THEN HashPair(current[k - 1], siblings[k])
                         ELSE HashPair(siblings[k], current[k - 1])
  BY <1>2, <1>7, HashesUnfold
<1> HIDE DEF current
<1> DEFINE S == {k \in Nat : k <= Height => current[k] = Levels[k][path[k]]}
<1>9. 0 \in S
  BY <1>3, <1>6, <1>8, LevelsUnfold
<1>10. ASSUME NEW n \in Nat, n \in S PROVE n + 1 \in S
  <2> SUFFICES ASSUME n + 1 <= Height PROVE current[n + 1] = Levels[n + 1][path[n + 1]]
    OBVIOUS
  <2> DEFINE level == Levels[n]
             i == path[n]
             j == path[n + 1]
  <2>1. n + 1 \in 1..Height /\ n + 1 - 1 = n
    BY <1>2
  <2>2. current[n] = level[i]
    BY <1>2, <1>10
  <2>3. IsLevel(level) /\ Len(level) \in Nat
    BY LevelsAreLists DEF IsLevel
  <2>4. i \in 1..Len(level) /\ j = (i + 1) \div 2
    BY <1>5
  <2>5. j \in 1..Len(Parents(level)) /\ Levels[n + 1] = Parents(level)
    <3>1. n + 1 \in Nat /\ Levels[n + 1] = Parents(level)
      BY LevelsUnfold
    <3>2. j \in 1..Len(Levels[n + 1])
      BY <1>5, <3>1
    <3>3. QED
      BY <3>1, <3>2
  <2>6. siblings[n + 1] = SiblingHash(level, i) /\ indices[n + 1] = (i - 1) % 2
    BY <1>4, <2>1
  <2>7. current[n + 1] = IF indices[n + 1] = 0 THEN HashPair(current[n], siblings[n + 1])
                         ELSE HashPair(siblings[n + 1], current[n])
    BY <1>8, <2>1
  <2>8. Parents(level)[j] = HashPair(level[2 * j - 1],
                                     IF 2 * j <= Len(level) THEN level[2 * j] ELSE level[2 * j - 1])
    BY <2>3, <2>5, ParentsOfLevel
  <2> HIDE DEF level, i, j
  <2>9. CASE i % 2 = 1
    <3>1. 2 * j - 1 = i /\ (i - 1) % 2 = 0 /\ Sibling(i) = 2 * j
      BY <2>3, <2>4, <2>9 DEF Sibling
    <3>2. current[n + 1] = HashPair(level[i], SiblingHash(level, i))
      BY <2>2, <2>6, <2>7, <3>1
    <3>3. SiblingHash(level, i) = IF 2 * j <= Len(level) THEN level[2 * j] ELSE level[i]
      BY <3>1 DEF SiblingHash
    <3>4. QED
      BY <2>5, <2>8, <3>1, <3>2, <3>3 DEF j
  <2>10. CASE i % 2 # 1
    <3>1. 2 * j = i /\ (i - 1) % 2 = 1 /\ Sibling(i) = 2 * j - 1 /\ 2 * j <= Len(level)
      BY <2>3, <2>4, <2>10 DEF Sibling
    <3>2. Sibling(i) <= Len(level)
      BY <2>3, <2>4, <3>1
    <3>3. SiblingHash(level, i) = level[2 * j - 1]
      BY <3>1, <3>2 DEF SiblingHash
    <3>4. current[n + 1] = HashPair(level[2 * j - 1], level[i])
      BY <2>2, <2>6, <2>7, <3>1, <3>3
    <3>5. QED
      BY <2>5, <2>8, <3>1, <3>4 DEF j
  <2>11. QED
    BY <2>9, <2>10
<1> HIDE DEF S
<1>11. Nat \subseteq S
  BY <1>9, <1>10, Lv!Induction
<1>12. current[Height] = Levels[Height][path[Height]]
  BY <1>2, <1>11 DEF S
<1>13. path[Height] = 1
  <2>1. path[Height] \in 1..1
    BY <1>2, <1>5
  <2>2. QED
    BY <2>1
<1>14. current[Height] = Root
  BY <1>1, <1>12, <1>13, RootOfLeaves
<1>15. QED
  BY <1>7, <1>14, VerifyByHashes DEF siblings, indices, current

(* The hashes that are told apart: a node of the tree has one pair of      *)
(* children, and is no commitment and not the root of the empty tree.      *)
LEMMA HashesDiffer ==
    /\ \A a, b, c, d : HashPair(a, b) = HashPair(c, d) => a = c /\ b = d
    /\ \A a, b, h : IsCommitmentHash(h) => HashPair(a, b) # h
    /\ \A a, b : HashPair(a, b) # ZeroRoot
    /\ \A h : IsCommitmentHash(h) => h # ZeroRoot
<1>1. ASSUME NEW a, NEW b, NEW h, IsCommitmentHash(h) PROVE HashPair(a, b) # h
  <2>1. PICK order, nullifier, balance : h = ComputeCommitmentHash(order, nullifier, balance)
    BY <1>1 DEF IsCommitmentHash
  <2>2. h[1] = "COMMITMENT_HASH" /\ HashPair(a, b)[1] = "MERKLE_NODE"
    BY <2>1 DEF ComputeCommitmentHash, HashPair
  <2>3. QED
    BY <2>2
<1>2. ASSUME NEW a, NEW b, NEW c, NEW d, HashPair(a, b) = HashPair(c, d) PROVE a = c /\ b = d
  <2>1. HashPair(a, b)[2] = a /\ HashPair(a, b)[3] = b /\ HashPair(c, d)[2] = c /\ HashPair(c, d)[3] = d
    BY DEF HashPair
  <2>2. QED
    BY <1>2, <2>1
<1>3. ASSUME NEW a, NEW b PROVE HashPair(a, b) # ZeroRoot
  <2>1. HashPair(a, b)[1] = "MERKLE_NODE" /\ ZeroRoot[1] = "ZERO"
    BY DEF HashPair, ZeroRoot
  <2>2. QED
    BY <2>1
<1>4. ASSUME NEW h, IsCommitmentHash(h) PROVE h # ZeroRoot
  <2>1. PICK order, nullifier, balance : h = ComputeCommitmentHash(order, nullifier, balance)
    BY <1>4 DEF IsCommitmentHash
  <2>2. h[1] = "COMMITMENT_HASH" /\ ZeroRoot[1] = "ZERO"
    BY <2>1 DEF ComputeCommitmentHash, ZeroRoot
  <2>3. QED
    BY <2>2
<1>5. QED
  BY <1>1, <1>2, <1>3, <1>4

(* A node above the leaves is hashed from nodes of the level below it.     *)
LEMMA NodeOfParents ==
    ASSUME NEW level, IsLevel(level), NEW node \in Nodes(Parents(level))
    PROVE  \E left, right \in Nodes(level) : node = HashPair(left, right)
<1> DEFINE n == Len(level)
           half == Len(Parents(level))
<1>1. PICK j \in 1..half : node = Parents(level)[j]
  BY DEF Nodes
<1>2. n \in Nat /\ half = (n + 1) \div 2
  BY ParentsOfLevel DEF IsLevel
<1>3. node = HashPair(level[2 * j - 1], IF 2 * j <= n THEN level[2 * j] ELSE level[2 * j - 1])
  BY <1>1, ParentsOfLevel
<1> HIDE DEF half
<1>4. 2 * j - 1 \in 1..n /\ (2 * j <= n => 2 * j \in 1..n)
  <2> HIDE DEF n
  <2>1. QED
    BY <1>2
<1>5. level[2 * j - 1] \in Nodes(level) /\ (2 * j <= n => level[2 * j] \in Nodes(level))
  BY <1>4 DEF Nodes
<1>6. QED
  BY <1>3, <1>5

(* verify_commitment_merkle_proof is sound: whatever siblings and indices  *)
(* it is given, in whatever number, a commitment it accepts against the    *)
(* root of a tree of commitments is a leaf of this tree.                   *)
LEMMA OnlyLeavesAccepted ==
    ASSUME IsLevel(leaves), Len(leaves) # 0, \A h \in Nodes(leaves) : IsCommitmentHash(h),
           NEW hash, IsCommitmentHash(hash),
           NEW siblings, Len(siblings) \in Nat, NEW indices,
           VerifyCommitmentMerkleProof(hash, siblings, indices, Root)
    PROVE  \E i \in DOMAIN leaves : leaves[i] = hash
<1> DEFINE current == HashesOf(hash, siblings, indices)
           n == Len(siblings)
           S == {d \in Nat : d <= n /\ d <= Height => current[n - d] \in Nodes(Levels[Height - d])}
<1>1. Height \in Nat /\ Len(Levels[Height]) = 1
  BY HeightExists DEF IsLevel
<1>2. /\ current[0] = hash
      /\ \A k \in 1..n :
            current[k] = IF indices[k] = 0 THEN HashPair(current[k - 1], siblings[k])
                         ELSE HashPair(siblings[k], current[k - 1])
  BY HashesUnfold
<1>3. current[n] = Levels[Height][1]
  BY VerifyByHashes, RootOfLeaves
<1>4. n \in Nat
  OBVIOUS
<1> HIDE DEF current, n
<1>5. 0 \in S
  <2>1. current[n] \in Nodes(Levels[Height])
    BY <1>1, <1>3 DEF Nodes
  <2>2. n - 0 = n /\ Height - 0 = Height
    BY <1>1, <1>4
  <2>3. QED
    BY <2>1, <2>2
<1>6. ASSUME NEW d \in Nat, d \in S PROVE d + 1 \in S
  <2> SUFFICES ASSUME d + 1 <= n, d + 1 <= Height
               PROVE  current[n - (d + 1)] \in Nodes(Levels[Height - (d + 1)])
    OBVIOUS
  <2> DEFINE level == Levels[Height - (d + 1)]
  <2>1. n - d \in 1..n /\ n - d - 1 = n - (d + 1) /\ Height - (d + 1) \in Nat
        /\ Height - (d + 1) + 1 = Height - d
    BY <1>1, <1>4
  <2>2. Levels[Height - d] = Parents(level) /\ IsLevel(level)
    BY <2>1, LevelsUnfold, LevelsAreLists
  <2>3. current[n - d] \in Nodes(Parents(level))
    BY <1>1, <1>4, <1>6, <2>2
  <2>4. PICK left, right \in Nodes(level) : current[n - d] = HashPair(left, right)
    BY <2>2, <2>3, NodeOfParents
  <2>5. \/ current[n - d] = HashPair(current[n - (d + 1)], siblings[n - d])
        \/ current[n - d] = HashPair(siblings[n - d], current[n - (d + 1)])
    BY <1>2, <2>1
  <2>6. QED
    BY <2>4, <2>5, HashesDiffer
<1> HIDE DEF S
<1>7. Nat \subseteq S
  BY <1>5, <1>6, Lv!Induction
<1>8. CASE n = Height
  <2>1. current[0] \in Nodes(Levels[0])
    <3>1. n - n = 0 /\ Height - n = 0 /\ n <= n /\ n <= Height
      BY <1>4, <1>8
    <3>2. QED
      BY <1>4, <1>7, <3>1 DEF S
  <2>2. hash \in Nodes(leaves)
    BY <1>2, <2>1, LevelsUnfold
  <2>3. QED
    BY <2>2 DEF Nodes, IsLevel
<1>9. CASE n < Height
  <2> DEFINE level == Levels[Height - n - 1]
  <2>1. n - n = 0 /\ n <= n /\ n <= Height /\ Height - n - 1 \in Nat
        /\ Height - n - 1 + 1 = Height - n
    BY <1>1, <1>4, <1>9
  <2>2. current[0] \in Nodes(Levels[Height - n])
    BY <1>4, <1>7, <2>1 DEF S
  <2>3. Levels[Height - n] = Parents(level) /\ IsLevel(level)
    BY <2>1, LevelsUnfold, LevelsAreLists
  <2>4. \E left, right : hash = HashPair(left, right)
    BY <1>2, <2>2, <2>3, NodeOfParents
  <2>5. QED
    BY <2>4, HashesDiffer
<1>10. CASE n > Height
  <2>1. Height - Height = 0 /\ Height <= n /\ Height <= Height /\ n - Height \in 1..n
    BY <1>1, <1>4, <1>10
  <2>2. current[n - Height] \in Nodes(Levels[0])
    BY <1>1, <1>7, <2>1 DEF S
  <2>3. IsCommitmentHash(current[n - Height])
    BY <2>2, LevelsUnfold
  <2>4. \E left, right : current[n - Height] = HashPair(left, right)
    BY <1>2, <2>1
  <2>5. QED
    BY <2>3, <2>4, HashesDiffer
<1>11. QED
  BY <1>1, <1>4, <1>8, <1>9, <1>10

(* Commitments with one hash are one commitment.                           *)
LEMMA CommitmentHashInjective ==
    ASSUME NEW c, NEW d, CommitmentHash(c) = CommitmentHash(d)
    PROVE  c.order_data = d.order_data /\ c.nullifier = d.nullifier /\ c.balance = d.balance
<1>1. /\ CommitmentHash(c)[2][2] = c.order_data /\ CommitmentHash(d)[2][2] = d.order_data
      /\ CommitmentHash(c)[3] = c.nullifier /\ CommitmentHash(d)[3] = d.nullifier
      /\ CommitmentHash(c)[4] = c.balance /\ CommitmentHash(d)[4] = d.balance
  BY DEF CommitmentHash, ComputeCommitmentHash, HashOrder
<1>2. QED
  BY <1>1

(* The leaves are a list of commitments' hashes.                           *)
LEMMA LeavesAreCommitments ==
    ASSUME leaves \in Seq({CommitmentHash(c) : c \in commitments})
    PROVE  IsLevel(leaves) /\ \A h \in Nodes(leaves) : IsCommitmentHash(h)
<1>1. IsLevel(leaves)
  BY LenProperties DEF IsLevel
<1>2. ASSUME NEW h \in Nodes(leaves) PROVE IsCommitmentHash(h)
  <2>1. \E c \in commitments : h = CommitmentHash(c)
    BY <1>1, ElementOfSeq DEF Nodes
  <2>2. QED
    BY <2>1 DEF IsCommitmentHash, CommitmentHash
<1>3. QED
  BY <1>1, <1>2

(* A tree and a set of commitments that only grow lose no member and       *)
(* invalidate no result and no root.                                       *)
LEMMA GrowthKeeps ==
    ASSUME \A i \in DOMAIN leaves : i \in DOMAIN leaves' /\ leaves'[i] = leaves[i],
           commitments \subseteq commitments'
    PROVE  /\ \A c : InTree(c) => InTree(c)'
           /\ OnlyMembersAccepted /\ UNCHANGED outputs => OnlyMembersAccepted'
           /\ RootsSound /\ UNCHANGED roots => RootsSound'
<1>1. \A c : InTree(c) => InTree(c)'
  BY DEF InTree
<1>2. OnlyMembersAccepted /\ UNCHANGED outputs => OnlyMembersAccepted'
  BY <1>1 DEF OnlyMembersAccepted, Known
<1>3. RootsSound /\ UNCHANGED roots => RootsSound'
  BY <1>1 DEF RootsSound
<1>4. QED
  BY <1>1, <1>2, <1>3

(* A proof that generate_proof makes has one index, 0 or 1, per sibling.   *)
LEMMA ProofShape ==
    ASSUME IsLevel(leaves), NEW hash, \E i \in DOMAIN leaves : leaves[i] = hash
    PROVE  LET proof == ProofFor(hash)
           IN  /\ Len(proof.siblings) \in Nat /\ Len(proof.indices) = Len(proof.siblings)
               /\ \A k \in DOMAIN proof.indices : proof.indices[k] \in {0, 1}
<1> DEFINE path == Path(LeafIndex(hash))
           siblings == ProofFor(hash).siblings
           indices == ProofFor(hash).indices
<1>1. Len(leaves) # 0
  BY DEF IsLevel
<1>2. Height \in Nat
  BY <1>1, HeightExists DEF IsLevel
<1>3. /\ siblings = [k \in 1..Height |-> SiblingHash(Levels[k - 1], path[k - 1])]
      /\ indices = [k \in 1..Height |-> (path[k - 1] - 1) % 2]
  BY DEF ProofFor
<1>4. \A k \in Nat : path[k] \in 1..Len(Levels[k]) /\ Len(Levels[k]) \in Nat
  BY LeafIndexExists, PathInTree, LevelsAreLists DEF IsLevel
<1> HIDE DEF path
<1>5. \A k \in 1..Height : indices[k] \in {0, 1}
  <2> SUFFICES ASSUME NEW k \in 1..Height PROVE (path[k - 1] - 1) % 2 \in {0, 1}
    BY <1>3
  <2>1. path[k - 1] \in Nat
    BY <1>2, <1>4
  <2>2. QED
    BY <2>1
<1> HIDE DEF siblings, indices
<1>6. siblings \in [1..Height -> {siblings[k] : k \in 1..Height}]
  BY <1>3
<1>7. indices \in [1..Height -> {indices[k] : k \in 1..Height}]
  BY <1>3
<1>8. Len(siblings) = Height /\ Len(indices) = Height /\ DOMAIN indices = 1..Height
  BY <1>2, <1>6, <1>7, FunctionIsList
<1>9. QED
  BY <1>2, <1>3, <1>5, <1>8 DEF siblings, indices

(* The root of the tree of no leaves accepts nothing.                      *)
LEMMA ZeroRootAcceptsNothing ==
    ASSUME NEW hash, IsCommitmentHash(hash), NEW siblings, Len(siblings) \in Nat, NEW indices
    PROVE  ~ VerifyCommitmentMerkleProof(hash, siblings, indices, ZeroRoot)
<1> DEFINE current == HashesOf(hash, siblings, indices)
           n == Len(siblings)
<1>1. /\ current[0] = hash
      /\ \A k \in 1..n :
            current[k] = IF indices[k] = 0 THEN HashPair(current[k - 1], siblings[k])
                         ELSE HashPair(siblings[k], current[k - 1])
  BY HashesUnfold
<1>2. n \in Nat
  OBVIOUS
<1> HIDE DEF current, n
<1>3. current[n] # ZeroRoot
  <2>1. CASE n = 0
    BY <1>1, <2>1, HashesDiffer
  <2>2. CASE n # 0
    <3>1. n \in 1..n
      BY <1>2, <2>2
    <3>2. QED
      BY <1>1, <3>1, HashesDiffer
  <2>3. QED
    BY <2>1, <2>2
<1>4. QED
  BY <1>3, VerifyByHashes DEF current, n

(* What any path leads to today's root is in the tree.                     *)
LEMMA TodaysRootSound ==
    ASSUME leaves \in Seq({CommitmentHash(c) : c \in commitments}),
           NEW c, Leads(CommitmentHash(c), Root)
    PROVE  InTree(c)
<1> DEFINE h == CommitmentHash(c)
<1>1. IsCommitmentHash(h)
  BY DEF IsCommitmentHash, CommitmentHash
<1>2. IsLevel(leaves) /\ \A l \in Nodes(leaves) : IsCommitmentHash(l)
  BY LeavesAreCommitments
<1>3. PICK siblings, indices :
          Len(siblings) \in Nat /\ VerifyCommitmentMerkleProof(h, siblings, indices, Root)
  BY DEF Leads
<1> HIDE DEF h
<1>4. leaves # <<>>
  <2>1. ASSUME leaves = <<>> PROVE FALSE
    <3>1. VerifyCommitmentMerkleProof(h, siblings, indices, ZeroRoot)
      BY <1>3, <2>1 DEF Root
    <3>2. QED
      BY <1>1, <1>3, <3>1, ZeroRootAcceptsNothing
  <2>2. QED
    BY <2>1
<1>5. Len(leaves) # 0
  BY <1>4, EmptySeq
<1>6. \E i \in DOMAIN leaves : leaves[i] = h
  BY <1>1, <1>2, <1>3, <1>5, OnlyLeavesAccepted
<1>7. QED
  BY <1>6 DEF InTree, h

(* What the program accepts under a root of the tree, today's or an        *)
(* earlier one, is in the tree.                                            *)
LEMMA AcceptedIsInTree ==
    ASSUME EngineInv, NEW c \in Candidates, NEW path \in Paths, NEW market,
           NEW root \in KnownRoots, FinalValidity(Stdin(c, path, root, market))
    PROVE  InTree(c) /\ c.balance >= c.order_data.amount_in
<1>1. /\ c.balance >= c.order_data.amount_in
      /\ VerifyCommitmentMerkleProof(CommitmentHash(c), path.siblings, path.indices, root)
  BY DEF FinalValidity, Stdin, VerifyNullifierOrder
<1>2. Leads(CommitmentHash(c), root)
  <2>1. Len(path.siblings) \in Nat
    BY DEF EngineInv
  <2>2. QED
    BY <1>1, <2>1 DEF Leads
<1>3. CASE root \in roots
  BY <1>1, <1>2, <1>3 DEF EngineInv, RootsSound
<1>4. CASE root = Root
  <2>1. leaves \in Seq({CommitmentHash(d) : d \in commitments})
    BY DEF EngineInv
  <2>2. QED
    BY <1>1, <1>2, <1>4, <2>1, TodaysRootSound
<1>5. QED
  BY <1>3, <1>4 DEF KnownRoots

------------------------------------------------------------------------------
(* A user's order is committed to with its own balance; nothing else       *)
(* changes.                                                                *)
LEMMA CreateOrderKeeps ==
    ASSUME EngineInv, NEW user \in Users, NEW order \in Orders, CreateOrder(user, order)
    PROVE  EngineInv'
<1>1. /\ commitments' = commitments \cup {CreateOrderCommitment(order, user)}
      /\ UNCHANGED <<leaves, roots, held, outputs, usedNullifiers, executed>>
  BY DEF CreateOrder
<1>2. EngineTypeOK'
  BY <1>1 DEF EngineInv, EngineTypeOK
<1>3. (leaves \in Seq({CommitmentHash(c) : c \in commitments}))'
  <2>1. {CommitmentHash(c) : c \in commitments} \subseteq {CommitmentHash(c) : c \in commitments'}
    BY <1>1
  <2>2. QED
    BY <1>1, <2>1, SeqMonotonic DEF EngineInv
<1>4. RootsSound' /\ OnlyMembersAccepted'
  BY <1>1, GrowthKeeps DEF EngineInv
<1>5. Paths' = Paths
  BY <1>1 DEF Paths
<1>6. QED
  BY <1>2, <1>3, <1>4, <1>5 DEF EngineInv

(* A leaf more: every leaf before it stays where it is, and today's root   *)
(* becomes an earlier one.                                                 *)
LEMMA AddCommitmentKeeps ==
    ASSUME EngineInv, NEW c \in commitments, AddCommitment(c)
    PROVE  EngineInv'
<1> DEFINE Hashes == {CommitmentHash(d) : d \in commitments}
           h == CommitmentHash(c)
<1>1. /\ Len(leaves) < MaxLeaves /\ leaves' = Append(leaves, h)
      /\ roots' = roots \cup {Root}
      /\ UNCHANGED <<commitments, held, outputs, usedNullifiers, executed>>
  BY DEF AddCommitment
<1>2. leaves \in Seq(Hashes) /\ h \in Hashes
  BY DEF EngineInv
<1>3. /\ leaves' \in Seq(Hashes)
      /\ Len(leaves') = Len(leaves) + 1
      /\ DOMAIN leaves' = DOMAIN leaves \cup {Len(leaves) + 1}
      /\ \A i \in DOMAIN leaves : leaves'[i] = leaves[i]
      /\ leaves'[Len(leaves) + 1] = h
      /\ Len(leaves) \in Nat
  <2> HIDE DEF Hashes, h
  <2>1. QED
    BY <1>1, <1>2, AppendProperties, LenProperties
<1> HIDE DEF h
<1>4. EngineTypeOK'
  <2>1. (Len(leaves) <= MaxLeaves)'
    BY <1>1, <1>3, EngineAssumption
  <2>2. (\A i \in DOMAIN leaves : \E d \in commitments : leaves[i] = CommitmentHash(d))'
    BY <1>1, <1>3 DEF EngineInv, EngineTypeOK, h
  <2>3. QED
    BY <1>1, <2>1, <2>2 DEF EngineInv, EngineTypeOK
<1>5. \A d : InTree(d) => InTree(d)'
  BY <1>1, <1>3, GrowthKeeps
<1>6. RootsSound'
  <2>1. ASSUME NEW root \in roots', NEW d \in Candidates, Leads(CommitmentHash(d), root)
        PROVE  InTree(d)
    <3>1. CASE root \in roots
      BY <2>1, <3>1 DEF EngineInv, RootsSound
    <3>2. CASE root = Root
      BY <1>2, <2>1, <3>2, TodaysRootSound
    <3>3. QED
      BY <1>1, <3>1, <3>2
  <2>2. QED
    BY <1>5, <2>1 DEF RootsSound
<1>7. OnlyMembersAccepted'
  BY <1>1, <1>3, GrowthKeeps DEF EngineInv
<1>8. Paths' = Paths
  BY <1>1 DEF Paths
<1>9. QED
  BY <1>1, <1>3, <1>4, <1>6, <1>7, <1>8 DEF EngineInv

(* A generated path is of one sibling per level, and nothing else changes. *)
LEMMA GenerateProofKeeps ==
    ASSUME EngineInv, NEW hash, GenerateProof(hash)
    PROVE  EngineInv'
<1>1. /\ \E i \in DOMAIN leaves : leaves[i] = hash
      /\ held' = ProofFor(hash)
      /\ UNCHANGED <<commitments, leaves, roots, outputs, usedNullifiers, executed>>
  BY DEF GenerateProof
<1>2. IsLevel(leaves)
  BY LeavesAreCommitments DEF EngineInv
<1>3. /\ Len(held'.siblings) \in Nat /\ Len(held'.indices) = Len(held'.siblings)
      /\ \A k \in DOMAIN held'.indices : held'.indices[k] \in {0, 1}
  BY <1>1, <1>2, ProofShape
<1>4. EngineTypeOK'
  BY <1>1, <1>3 DEF EngineInv, EngineTypeOK
<1>5. (\A path \in Paths : Len(path.siblings) \in Nat)'
  BY <1>3, EngineAssumption DEF Paths
<1>6. RootsSound' /\ OnlyMembersAccepted'
  BY <1>1, GrowthKeeps DEF EngineInv
<1>7. QED
  BY <1>1, <1>4, <1>5, <1>6 DEF EngineInv

(* A valid result under a root of the tree: its order is in the tree, as   *)
(* its user committed to it.                                               *)
LEMMA ProveKeeps ==
    ASSUME EngineInv, NEW c \in Candidates, NEW path \in Paths, NEW root, NEW market,
           Prove(c, path, root, market)
    PROVE  EngineInv'
<1> DEFINE values == PublicValues([commitment |-> c])
           output == [values |-> values, known |-> root \in KnownRoots]
<1>1. FinalValidity(Stdin(c, path, root, market))
  BY DEF Prove
<1>2. outputs' = outputs \cup {output}
  BY DEF Prove, PublicValues, Stdin
<1>3. UNCHANGED <<commitments, leaves, roots, held, usedNullifiers, executed>>
  BY DEF Prove
<1>4. EngineTypeOK'
  <2> HIDE DEF output
  <2>1. (executed \subseteq outputs)'
    BY <1>2, <1>3 DEF EngineInv, EngineTypeOK
  <2>2. QED
    BY <1>3, <2>1 DEF EngineInv, EngineTypeOK
<1>5. RootsSound' /\ Paths' = Paths
  BY <1>3 DEF EngineInv, RootsSound, InTree, Paths
<1>6. ASSUME root \in KnownRoots
      PROVE  \E d \in commitments : /\ InTree(d) /\ d.balance >= d.order_data.amount_in
                                    /\ values = PublicValues([commitment |-> d])
  <2>1. InTree(c) /\ c.balance >= c.order_data.amount_in
    BY <1>1, <1>6, AcceptedIsInTree
  <2>2. PICK i \in DOMAIN leaves : leaves[i] = CommitmentHash(c)
    BY <2>1 DEF InTree
  <2>3. PICK d \in commitments : leaves[i] = CommitmentHash(d)
    BY DEF EngineInv, EngineTypeOK
  <2>4. d.order_data = c.order_data /\ d.nullifier = c.nullifier /\ d.balance = c.balance
    BY <2>2, <2>3, CommitmentHashInjective
  <2>5. InTree(d)
    BY <2>3 DEF InTree
  <2>6. values = PublicValues([commitment |-> d])
    BY <2>4 DEF PublicValues
  <2> HIDE DEF values
  <2>7. d.balance >= d.order_data.amount_in
    BY <2>1, <2>4
  <2>8. QED
    BY <2>5, <2>6, <2>7
<1>7. output.values = values /\ (output.known <=> root \in KnownRoots)
  OBVIOUS
<1>8. OnlyMembersAccepted'
  <2> HIDE DEF output, values
  <2>1. \A d : InTree(d)' <=> InTree(d)
    BY <1>3 DEF InTree
  <2>2. ASSUME NEW o \in outputs', o.known
        PROVE  \E d \in commitments : /\ InTree(d) /\ d.balance >= d.order_data.amount_in
                                      /\ o.values = PublicValues([commitment |-> d])
    BY <1>2, <1>6, <1>7, <2>2 DEF EngineInv, OnlyMembersAccepted, Known
  <2>3. QED
    BY <1>3, <2>1, <2>2 DEF OnlyMembersAccepted, Known
<1>9. QED
  BY <1>3, <1>4, <1>5, <1>8 DEF EngineInv

(* An execution leaves the tree alone and uses the nullifier of its        *)
(* output.                                                                 *)
LEMMA ExecuteKeeps ==
    ASSUME EngineInv, NEW output \in outputs, Execute(output)
    PROVE  EngineInv'
<1>1. /\ usedNullifiers' = usedNullifiers \cup {output.values.nullifier_hash}
      /\ executed' = executed \cup {output}
      /\ UNCHANGED <<commitments, leaves, roots, held, outputs>>
  BY DEF Execute
<1>2. EngineTypeOK'
  BY <1>1 DEF EngineInv, EngineTypeOK
<1>3. RootsSound' /\ OnlyMembersAccepted' /\ Paths' = Paths
  BY <1>1, GrowthKeeps DEF EngineInv, Paths
<1>4. QED
  BY <1>1, <1>2, <1>3 DEF EngineInv

(* Every step of the engine keeps the invariant.                           *)
LEMMA EngineNextInv == EngineInv /\ [EngineNext]_engineVars => EngineInv'
<1> SUFFICES ASSUME EngineInv, [EngineNext]_engineVars PROVE EngineInv'
  OBVIOUS
<1>1. ASSUME NEW user \in Users, NEW order \in Orders, CreateOrder(user, order) PROVE EngineInv'
  BY <1>1, CreateOrderKeeps
<1>2. ASSUME NEW c \in commitments, AddCommitment(c) \/ GenerateProof(CommitmentHash(c))
      PROVE  EngineInv'
  BY <1>2, AddCommitmentKeeps, GenerateProofKeeps
<1>3. ASSUME NEW c \in Candidates, NEW path \in Paths, NEW root, NEW market,
             Prove(c, path, root, market)
      PROVE  EngineInv'
  BY <1>3, ProveKeeps
<1>4. ASSUME NEW output \in outputs, Execute(output) PROVE EngineInv'
  BY <1>4, ExecuteKeeps
<1>5. CASE UNCHANGED engineVars
  BY <1>5 DEF engineVars, EngineInv, EngineTypeOK, RootsSound, OnlyMembersAccepted, Known, InTree,
              Paths
<1>6. QED
  BY <1>1, <1>2, <1>3, <1>4, <1>5 DEF EngineNext

------------------------------------------------------------------------------
(* Nothing but commitments in the tree, nothing under its roots but what   *)
(* is in it, at all times.                                                 *)
LEMMA EngineInvariant == EngineSpec => []EngineInv
<1>1. EngineInit => EngineInv
  <2> SUFFICES ASSUME EngineInit PROVE EngineInv
    OBVIOUS
  <2>1. EngineTypeOK
    BY EngineAssumption DEF EngineInit, EngineTypeOK
  <2>2. leaves \in Seq({CommitmentHash(c) : c \in commitments})
    BY DEF EngineInit
  <2>3. RootsSound /\ OnlyMembersAccepted
    BY DEF EngineInit, RootsSound, OnlyMembersAccepted, Known
  <2>4. \A path \in Paths : Len(path.siblings) \in Nat
    BY EngineAssumption DEF EngineInit, Paths
  <2>5. QED
    BY <2>1, <2>2, <2>3, <2>4 DEF EngineInv
<1>2. QED
  BY <1>1, EngineNextInv, PTL DEF EngineSpec

(* The leaves are hashes of commitments users made with their own          *)
(* balances, a generated path is of one shape, and the store holds the     *)
(* nullifiers of what was executed: for every set of orders.               *)
THEOREM EngineTypeCorrect == EngineSpec => []EngineTypeOK
<1>1. EngineInv => EngineTypeOK
  BY DEF EngineInv
<1>2. QED
  BY <1>1, EngineInvariant, PTL

(* Soundness of the membership check: under a root the tree has or had no  *)
(* order is proved that is not in the tree as its user committed to it,    *)
(* whatever the other inputs, the path among them, for trees of any        *)
(* height.  Other roots may be asked about, and are not said anything of.  *)
THEOREM EngineAcceptsOnlyMembers == EngineSpec => []OnlyMembersAccepted
<1>1. EngineInv => OnlyMembersAccepted
  BY DEF EngineInv
<1>2. QED
  BY <1>1, EngineInvariant, PTL

(* Completeness of the membership check: generate_proof makes, for every   *)
(* leaf of every tree, a proof the program accepts, and the order of the   *)
(* leaf is then valid exactly on its own conditions.                       *)
THEOREM EngineAcceptsMembers == EngineSpec => []MembersExecutable
<1>1. EngineInv => MembersExecutable
  <2> SUFFICES ASSUME EngineInv, NEW c \in commitments, NEW market \in Markets, InTree(c)
               PROVE  LET stdin == Stdin(c, ProofFor(CommitmentHash(c)), Root, market)
                      IN  FinalValidity(stdin) <=>
                              /\ c.balance >= c.order_data.amount_in
                              /\ market.current_price >= c.order_data.target_price
                              /\ market.block_timestamp <= c.order_data.deadline
    BY DEF MembersExecutable
  <2> DEFINE proof == ProofFor(CommitmentHash(c))
             stdin == Stdin(c, proof, Root, market)
  <2>1. IsLevel(leaves)
    BY LeavesAreCommitments DEF EngineInv
  <2>2. VerifyCommitmentMerkleProof(CommitmentHash(c), proof.siblings, proof.indices, Root)
    BY <2>1, ProofAccepted DEF InTree
  <2> HIDE DEF proof
  <2>3. /\ stdin.commitment = c /\ stdin.market = market /\ stdin.tree_root = Root
        /\ stdin.siblings = proof.siblings /\ stdin.indices = proof.indices
        /\ stdin.nullifier_hash = ComputeNullifierHash(c.nullifier)
    BY DEF Stdin
  <2> HIDE DEF stdin
  <2>4. FinalValidity(stdin) <=> VerifyNullifierOrder(c, market, CommitmentHash(c),
                                                      ComputeNullifierHash(c.nullifier))
    BY <2>2, <2>3 DEF FinalValidity
  <2>5. FinalValidity(stdin) <=>
            c.balance >= c.order_data.amount_in /\ ValidateOrder(c.order_data, market)
    BY <2>4 DEF VerifyNullifierOrder, VerifyNullifierKnowledge
  <2>6. QED
    BY <2>5 DEF ValidateOrder, stdin, proof
<1>2. QED
  BY <1>1, EngineInvariant, PTL

(* A lookup in the store tells whether an order was executed, whatever     *)
(* else its user and others executed, as long as all that is executed was  *)
(* proved under roots of the tree.                                         *)
THEOREM EngineDetectsReplays == EngineSpec => []ReplaysDetected
<1>1. EngineInv => ReplaysDetected
  <2> SUFFICES ASSUME EngineInv, executed = Known(executed), NEW c \in commitments
               PROVE  ComputeNullifierHash(c.nullifier) \in usedNullifiers <=>
                          \E output \in executed : output.values = PublicValues([commitment |-> c])
    BY DEF ReplaysDetected
  <2>1. ASSUME NEW output \in executed, output.values = PublicValues([commitment |-> c])
        PROVE  ComputeNullifierHash(c.nullifier) \in usedNullifiers
    <3>1. output.values.nullifier_hash = ComputeNullifierHash(c.nullifier)
      BY <2>1 DEF PublicValues
    <3>2. QED
      BY <3>1 DEF EngineInv, EngineTypeOK
  <2>2. ASSUME ComputeNullifierHash(c.nullifier) \in usedNullifiers
        PROVE  \E output \in executed : output.values = PublicValues([commitment |-> c])
    <3>1. PICK output \in executed :
              output.values.nullifier_hash = ComputeNullifierHash(c.nullifier)
      BY <2>2 DEF EngineInv, EngineTypeOK
    <3>2. output \in Known(outputs)
      BY DEF EngineInv, EngineTypeOK, Known
    <3>3. PICK d \in commitments : output.values = PublicValues([commitment |-> d])
      BY <3>2 DEF EngineInv, OnlyMembersAccepted
    <3>4. ComputeNullifierHash(d.nullifier) = ComputeNullifierHash(c.nullifier)
      BY <3>1, <3>3 DEF PublicValues
    <3>5. d.nullifier = c.nullifier
      <4>1. \A x : ComputeNullifierHash(x)[2] = x
        BY DEF ComputeNullifierHash
      <4>2. QED
        BY <3>4, <4>1
    <3>6. PICK o \in Orders, u \in Users : c = CreateOrderCommitment(o, u)
      BY DEF EngineInv, EngineTypeOK
    <3>7. PICK p \in Orders, v \in Users : d = CreateOrderCommitment(p, v)
      BY DEF EngineInv, EngineTypeOK
    <3>8. OrderNullifier(v, p) = OrderNullifier(u, o)
      BY <3>5, <3>6, <3>7 DEF CreateOrderCommitment
    <3>9. \A x, y : OrderNullifier(x, y)[2] = x /\ OrderNullifier(x, y)[3][2] = y
      BY DEF OrderNullifier, GenerateOrderNullifier, HashOrder
    <3>10. u = v /\ o = p
      BY <3>8, <3>9
    <3>11. QED
      BY <3>3, <3>6, <3>7, <3>10
  <2>3. QED
    BY <2>1, <2>2
<1>2. QED
  BY <1>1, EngineInvariant, PTL

------------------------------------------------------------------------------
(* A commitment is its user's order: no two are of one order.              *)
OwnInv ==
    \A c \in commitments :
        /\ c.order_data \in Orders
        /\ c = CreateOrderCommitment(c.order_data, c.order_data.wallet_address)

BookInv == EngineInv /\ OwnInv

(* Users commit to orders of their own only.                               *)
LEMMA OwnNext == OwnInv /\ [EngineNext]_engineVars => OwnInv'
<1> SUFFICES ASSUME OwnInv, [EngineNext]_engineVars PROVE OwnInv'
  OBVIOUS
<1>1. ASSUME NEW user \in Users, NEW order \in Orders, CreateOrder(user, order) PROVE OwnInv'
  <2>1. CreateOrderCommitment(order, user).order_data = order
    BY DEF CreateOrderCommitment
  <2>2. /\ order.wallet_address = user
        /\ commitments' = commitments \cup {CreateOrderCommitment(order, user)}
    BY <1>1 DEF CreateOrder
  <2>3. QED
    BY <2>1, <2>2 DEF OwnInv
<1>2. CASE UNCHANGED commitments
  BY <1>2 DEF OwnInv
<1>3. QED
  BY <1>1, <1>2 DEF EngineNext, AddCommitment, GenerateProof, Prove, Execute, engineVars

(* What the steps of the refinement start from.                            *)
LEMMA BookInvariant == EngineSpec => []BookInv
<1>1. EngineInit => OwnInv
  BY DEF EngineInit, OwnInv
<1>2. QED
  BY <1>1, OwnNext, EngineInvariant, PTL DEF EngineSpec, BookInv

(* An order's nullifier hash is no other order's.                          *)
LEMMA NullifierHashInjective ==
    ASSUME NEW o, NEW p,
           ComputeNullifierHash(OrderNullifier(o.wallet_address, o))
               = ComputeNullifierHash(OrderNullifier(p.wallet_address, p))
    PROVE  o = p
<1>1. \A x : ComputeNullifierHash(x)[2] = x
  BY DEF ComputeNullifierHash
<1>2. \A x, y : OrderNullifier(x, y)[3][2] = y
  BY DEF OrderNullifier, GenerateOrderNullifier, HashOrder
<1>3. QED
  BY <1>1, <1>2

(* The output of a commitment is about its order, and says how much of it  *)
(* its user can cover.                                                     *)
LEMMA OutputOfCommitment ==
    ASSUME OwnInv, NEW c \in commitments
    PROVE  /\ c.order_data \in Orders
           /\ \A output : output.values = PublicValues([commitment |-> c])
                            => OrderOf(output) = c.order_data
           /\ c.balance = BalanceOf[c.order_data.wallet_address]
<1> DEFINE o == c.order_data
           HashOf(p) == ComputeNullifierHash(OrderNullifier(p.wallet_address, p))
<1>1. o \in Orders /\ c = CreateOrderCommitment(o, o.wallet_address)
  BY DEF OwnInv
<1>2. c.nullifier = OrderNullifier(o.wallet_address, o) /\ c.balance = BalanceOf[o.wallet_address]
  BY <1>1 DEF CreateOrderCommitment
<1>3. PublicValues([commitment |-> c]).nullifier_hash = HashOf(o)
  BY <1>2 DEF PublicValues
<1>4. \A p \in Orders : HashOf(o) = HashOf(p) => p = o
  BY NullifierHashInjective
<1> HIDE DEF HashOf
<1>5. ASSUME NEW output, output.values = PublicValues([commitment |-> c])
      PROVE  OrderOf(output) = CHOOSE p \in Orders : HashOf(o) = HashOf(p)
  BY <1>3, <1>5 DEF OrderOf, HashOf
<1>6. QED
  BY <1>1, <1>2, <1>4, <1>5

(* Behind every result under a root of the tree is a commitment in it.     *)
LEMMA BehindOutput ==
    ASSUME BookInv, NEW output \in Known(outputs)
    PROVE  \E c \in commitments : InTree(c) /\ OrderOf(output) = c.order_data
<1>1. PICK c \in commitments : InTree(c) /\ output.values = PublicValues([commitment |-> c])
  BY DEF BookInv, EngineInv, OnlyMembersAccepted
<1>2. QED
  BY <1>1, OutputOfCommitment DEF BookInv

(* A commitment whose hash is in the tree is one that was made, up to      *)
(* its fields.                                                             *)
LEMMA BehindLeaf ==
    ASSUME BookInv, NEW c, InTree(c)
    PROVE  \E d \in commitments :
               /\ InTree(d)
               /\ d.order_data = c.order_data /\ d.nullifier = c.nullifier /\ d.balance = c.balance
<1>1. PICK i \in DOMAIN leaves : leaves[i] = CommitmentHash(c)
  BY DEF InTree
<1>2. PICK d \in commitments : leaves[i] = CommitmentHash(d)
  BY DEF BookInv, EngineInv, EngineTypeOK
<1>3. InTree(d)
  BY <1>2 DEF InTree
<1>4. QED
  BY <1>1, <1>2, <1>3, CommitmentHashInjective

------------------------------------------------------------------------------
(* What the order book sees of the engine.                                 *)
Created == {c.order_data : c \in commitments}
Listed == {c.order_data : c \in {d \in commitments : InTree(d)}}
Approved == {OrderOf(output) : output \in Known(outputs)}
Filled == {OrderOf(output) : output \in Known(executed)}

(* An order that is created again is not listed by that: its commitment is *)
(* the one it had.                                                         *)
LEMMA CreateImplements ==
    ASSUME BookInv, NEW user \in Users, NEW order \in Orders, CreateOrder(user, order)
    PROVE  Book!Create(order)
<1> DEFINE new == CreateOrderCommitment(order, user)
<1>1. /\ commitments' = commitments \cup {new} /\ new.order_data = order
      /\ UNCHANGED <<leaves, outputs, executed>>
  BY DEF CreateOrder, CreateOrderCommitment
<1> HIDE DEF new
<1>2. Created' = Created \cup {order}
  BY <1>1 DEF Created
<1>3. \A c : InTree(c)' <=> InTree(c)
  BY <1>1 DEF InTree
<1>4. Listed' = Listed
  <2>1. InTree(new) => order \in Listed
    BY <1>1, BehindLeaf DEF Listed
  <2>2. Listed' = Listed \cup (IF InTree(new) THEN {order} ELSE {})
    BY <1>1, <1>3 DEF Listed
  <2>3. QED
    BY <2>1, <2>2
<1>5. UNCHANGED <<Approved, Filled>>
  BY <1>1 DEF Approved, Filled
<1>6. QED
  BY <1>2, <1>4, <1>5 DEF Book!Create, Created, Listed, Approved, Filled

(* A leaf lists the order its hash commits to, and no other.               *)
LEMMA AddImplements ==
    ASSUME BookInv, NEW c \in commitments, AddCommitment(c)
    PROVE  Book!List(c.order_data)
<1> DEFINE h == CommitmentHash(c)
<1>1. leaves' = Append(leaves, h) /\ UNCHANGED <<commitments, outputs, executed>>
  BY DEF AddCommitment
<1>2. /\ leaves \in Seq({CommitmentHash(d) : d \in commitments})
      /\ h \in {CommitmentHash(d) : d \in commitments}
  BY DEF BookInv, EngineInv
<1> HIDE DEF h
<1>3. /\ DOMAIN leaves' = DOMAIN leaves \cup {Len(leaves) + 1}
      /\ \A i \in DOMAIN leaves : leaves'[i] = leaves[i]
      /\ leaves'[Len(leaves) + 1] = h
  <2> DEFINE Hashes == {CommitmentHash(d) : d \in commitments}
  <2>1. leaves \in Seq(Hashes) /\ h \in Hashes
    BY <1>2
  <2> HIDE DEF Hashes
  <2>2. QED
    BY <1>1, <2>1, AppendProperties, LenProperties
<1>4. \A d : InTree(d)' <=> InTree(d) \/ CommitmentHash(d) = h
  BY <1>3 DEF InTree
<1>5. \A d : CommitmentHash(d) = h => d.order_data = c.order_data
  BY CommitmentHashInjective DEF h
<1>6. CommitmentHash(c) = h
  BY DEF h
<1>7. Listed' = Listed \cup {c.order_data}
  BY <1>1, <1>4, <1>5, <1>6 DEF Listed
<1>8. c.order_data \in Created
  BY DEF Created
<1>9. UNCHANGED <<Created, Approved, Filled>>
  BY <1>1 DEF Created, Approved, Filled
<1>10. QED
  BY <1>7, <1>8, <1>9 DEF Book!List, Created, Listed, Approved, Filled

(* A valid result under a root of the tree approves the order of the       *)
(* commitment that is behind the inputs; any other is not seen.            *)
LEMMA ProveImplements ==
    ASSUME BookInv, NEW c \in Candidates, NEW market \in Markets, NEW path \in Paths, NEW root,
           Prove(c, path, root, market)
    PROVE  \/ c.order_data \in Orders /\ Book!Approve(c.order_data, market)
           \/ UNCHANGED <<Created, Listed, Approved, Filled>>
<1> DEFINE o == c.order_data
           output == [values |-> PublicValues([commitment |-> c]), known |-> root \in KnownRoots]
<1>1. FinalValidity(Stdin(c, path, root, market)) /\ UNCHANGED <<commitments, leaves, executed>>
  BY DEF Prove
<1>2. outputs' = outputs \cup {output}
  BY DEF Prove, PublicValues, Stdin
<1>3. /\ output.values = PublicValues([commitment |-> c])
      /\ output.known <=> root \in KnownRoots
  OBVIOUS
<1> HIDE DEF output
<1>4. Known(outputs)' = Known(outputs) \cup (IF root \in KnownRoots THEN {output} ELSE {})
  BY <1>2, <1>3 DEF Known
<1>5. UNCHANGED <<Created, Listed, Filled>>
  BY <1>1 DEF Created, Listed, Filled, Known, InTree
<1>6. CASE root \notin KnownRoots
  BY <1>4, <1>5, <1>6 DEF Approved
<1>7. CASE root \in KnownRoots
  <2>1. ValidateOrder(o, market)
    BY <1>1 DEF FinalValidity, Stdin, VerifyNullifierOrder
  <2>2. InTree(c) /\ c.balance >= o.amount_in
    BY <1>1, <1>7, AcceptedIsInTree DEF BookInv
  <2>3. PICK d \in commitments :
            InTree(d) /\ d.order_data = o /\ d.nullifier = c.nullifier /\ d.balance = c.balance
    BY <2>2, BehindLeaf
  <2>4. output.values = PublicValues([commitment |-> d])
    BY <1>3, <2>3 DEF PublicValues
  <2>5. o \in Orders /\ OrderOf(output) = o /\ c.balance = BalanceOf[o.wallet_address]
    BY <2>3, <2>4, OutputOfCommitment DEF BookInv
  <2>6. o \in Listed
    BY <2>3 DEF Listed
  <2>7. Approved' = Approved \cup {o}
    BY <1>4, <1>7, <2>5 DEF Approved
  <2>8. Book!Covered(o) /\ Book!Suits(o, market)
    <3>1. /\ o.amount_in \in Nat /\ o.deadline \in Nat /\ o.target_price \in Nat
          /\ market.current_price \in Nat /\ market.block_timestamp \in Nat
          /\ BalanceOf[o.wallet_address] \in Nat
      BY <2>5, EngineAssumption DEF OrderData, MarketConditions
    <3>2. QED
      BY <2>1, <2>2, <2>5, <3>1 DEF ValidateOrder, Book!Covered, Book!Suits
  <2>9. QED
    BY <1>5, <2>5, <2>6, <2>7, <2>8 DEF Book!Approve, Created, Listed, Approved, Filled
<1>8. QED
  BY <1>6, <1>7

(* An execution of a result under a root of the tree fills its order; any  *)
(* other is not seen.                                                      *)
LEMMA ExecuteImplements ==
    ASSUME BookInv, NEW output \in outputs, Execute(output)
    PROVE  \/ OrderOf(output) \in Orders /\ Book!Fill(OrderOf(output))
           \/ UNCHANGED <<Created, Listed, Approved, Filled>>
<1> DEFINE o == OrderOf(output)
<1>1. executed' = executed \cup {output} /\ UNCHANGED <<commitments, leaves, outputs>>
  BY DEF Execute
<1>2. Known(executed)' = Known(executed) \cup (IF output.known THEN {output} ELSE {})
  BY <1>1 DEF Known
<1>3. UNCHANGED <<Created, Listed, Approved>>
  BY <1>1 DEF Created, Listed, Approved, Known, InTree
<1>4. CASE ~ output.known
  BY <1>2, <1>3, <1>4 DEF Filled
<1>5. CASE output.known
  <2>1. output \in Known(outputs)
    BY <1>5 DEF Known
  <2>2. PICK c \in commitments : o = c.order_data
    BY <2>1, BehindOutput
  <2>3. o \in Orders
    BY <2>2 DEF BookInv, OwnInv
  <2>4. o \in Approved
    BY <2>1 DEF Approved
  <2>5. Filled' = Filled \cup {o}
    BY <1>2, <1>5 DEF Filled
  <2> HIDE DEF o
  <2>6. Book!Fill(o)
    BY <1>3, <2>4, <2>5 DEF Book!Fill, Created, Listed, Approved, Filled
  <2>7. QED
    BY <2>3, <2>6 DEF o
<1>6. QED
  BY <1>4, <1>5

(* Every step of the engine is one of the book, or is not seen.            *)
LEMMA BookNextImplements ==
    BookInv /\ [EngineNext]_engineVars => [Book!BookNext]_(Book!bookVars)
<1> SUFFICES ASSUME BookInv, [EngineNext]_engineVars PROVE [Book!BookNext]_(Book!bookVars)
  OBVIOUS
<1>1. ASSUME NEW user \in Users, NEW order \in Orders, CreateOrder(user, order)
      PROVE  Book!BookNext
  BY <1>1, CreateImplements DEF Book!BookNext
<1>2. ASSUME NEW c \in commitments, AddCommitment(c) PROVE Book!BookNext
  <2>1. c.order_data \in Orders
    BY DEF BookInv, OwnInv
  <2>2. QED
    BY <1>2, <2>1, AddImplements DEF Book!BookNext
<1>3. UNCHANGED <<Created, Listed, Approved, Filled>> => UNCHANGED Book!bookVars
  BY DEF Book!bookVars, Created, Listed, Approved, Filled
<1>4. ASSUME NEW c \in Candidates, NEW market \in Markets, NEW path \in Paths, NEW root,
             Prove(c, path, root, market)
      PROVE  [Book!BookNext]_(Book!bookVars)
  BY <1>3, <1>4, ProveImplements DEF Book!BookNext
<1>5. ASSUME NEW output \in outputs, Execute(output) PROVE [Book!BookNext]_(Book!bookVars)
  BY <1>3, <1>5, ExecuteImplements DEF Book!BookNext
<1>6. ASSUME UNCHANGED <<commitments, leaves, outputs, executed>> PROVE UNCHANGED Book!bookVars
  BY <1>3, <1>6 DEF Created, Listed, Approved, Filled, Known, InTree
<1>7. QED
  BY <1>1, <1>2, <1>4, <1>5, <1>6 DEF EngineNext, GenerateProof, engineVars

(* Commitments, trees that grow and paths of earlier trees amount, for the *)
(* results under roots of the tree, to an order book in which nothing is   *)
(* executed that was not approved.                                         *)
THEOREM EngineImplementsBook == EngineSpec => ImplementsBook
<1>1. EngineInit => Book!BookInit
  BY DEF EngineInit, Book!BookInit, Known
<1>2. QED
  BY <1>1, BookNextImplements, BookInvariant, PTL DEF EngineSpec, ImplementsBook, Book!BookSpec
=============================================================================
