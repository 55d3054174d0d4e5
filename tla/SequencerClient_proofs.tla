----------------------- MODULE SequencerClient_proofs -----------------------
(***************************************************************************)
(* Proofs about the fold over a membership proof and about the client of   *)
(* the sequencer, for trees of every height, every index and every path,   *)
(* however the chain moves while a call is on its way; and about the text  *)
(* of an account id, for ids of every length.                              *)
(***************************************************************************)
EXTENDS SequencerClient, FiniteSetTheorems, WellFoundedInduction, SequenceTheorems, TLAPS

-----------------------------------------------------------------------------
(* Numbers.                                                                *)

\* Numbers that are not all in a set have a least one that is not.
LEMMA LeastNumber ==
    ASSUME NEW T \in SUBSET Nat, T # {}
    PROVE  \E m \in T : \A k \in T : ~(k < m)
<1>1. IsWellFoundedOn(OpToRel(<, Nat), Nat)
  BY NatLessThanWellFounded
<1>2. PICK m \in T : \A k \in T : ~(<<k, m>> \in OpToRel(<, Nat))
  BY <1>1, WFMin
<1>3. \A k \in T : ~(k < m)
  BY <1>2 DEF OpToRel
<1>4. QED BY <1>3

\* Induction, over the numbers up to a bound, for a property given as a set.
LEMMA UpTo ==
    ASSUME NEW N \in Nat, NEW T, 0 \in T,
           \A n \in 0 .. N : n \in T /\ n + 1 \in 0 .. N => n + 1 \in T
    PROVE  0 .. N \subseteq T
<1> DEFINE Left == {n \in Nat : n \in 0 .. N /\ n \notin T}
<1> SUFFICES ASSUME Left # {} PROVE FALSE
  OBVIOUS
<1>1. PICK m \in Left : \A k \in Left : ~(k < m)
  BY LeastNumber
<1>2. m # 0 /\ m \in Nat /\ m \in 0 .. N
  BY <1>1
<1>3. m - 1 \in 0 .. N /\ m - 1 \in Nat /\ m - 1 < m /\ (m - 1) + 1 = m
  BY <1>2
<1>4. m - 1 \in T
  BY <1>1, <1>3
<1>5. m \in T
  BY <1>2, <1>3, <1>4
<1>6. QED BY <1>1, <1>5

\* A number by what a division by p leaves of it.
LEMMA DivMod ==
    ASSUME NEW p \in Nat, p > 0, NEW q \in Nat, NEW r \in Nat, r < p
    PROVE  /\ (q * p + r) \div p = q
           /\ (q * p + r) % p = r
  OBVIOUS

LEMMA Parity ==
    ASSUME NEW i \in Nat
    PROVE  /\ i \div 2 \in Nat
           /\ i % 2 = 0 => i = 2 * (i \div 2)
           /\ i % 2 # 0 => i = 2 * (i \div 2) + 1
  OBVIOUS

\* The powers of two are what their definition says: a function with these values
\* exists, one power at a time.
LEMMA TwoToDef ==
    \A n \in 0 .. IndexBits : TwoTo[n] = IF n = 0 THEN 1 ELSE 2 * TwoTo[n - 1]
<1> DEFINE Powers(m, f) == f = [n \in 0 .. m |-> IF n = 0 THEN 1 ELSE 2 * f[n - 1]]
           T == {m \in Nat : \E f : Powers(m, f)}
<1>1. IndexBits \in Nat
  BY FoldAssumption
<1>2. 0 \in T
  <2>1. Powers(0, [n \in 0 .. 0 |-> 1])
    OBVIOUS
  <2>2. QED BY <2>1
<1>3. ASSUME NEW m \in Nat, m \in T PROVE m + 1 \in T
  <2>1. PICK f : Powers(m, f)
    BY <1>3
  <2> DEFINE g == [n \in 0 .. m + 1 |-> IF n = m + 1 THEN 2 * f[m] ELSE f[n]]
  <2>2. ASSUME NEW n \in 0 .. m + 1
        PROVE  g[n] = IF n = 0 THEN 1 ELSE 2 * g[n - 1]
    <3>1. CASE n = m + 1
      BY <3>1
    <3>2. CASE n \in 0 .. m
      <4>1. f[n] = IF n = 0 THEN 1 ELSE 2 * f[n - 1]
        BY <2>1, <3>2
      <4>2. n # 0 => g[n - 1] = f[n - 1]
        BY <3>2
      <4>3. QED BY <3>2, <4>1, <4>2
    <3>3. QED BY <3>1, <3>2
  <2>3. Powers(m + 1, g)
    BY <2>2
  <2>4. \E h : Powers(m + 1, h)
    <3> HIDE DEF Powers, g
    <3>1. QED BY <2>3
  <2> HIDE DEF Powers
  <2>5. QED BY <2>4
<1>4. IndexBits \in T
  <2> HIDE DEF T
  <2>1. QED BY <1>1, <1>2, <1>3, UpTo
<1>5. \E f : Powers(IndexBits, f)
  BY <1>4
<1>6. Powers(IndexBits, TwoTo)
  BY <1>5 DEF TwoTo
<1>7. QED BY <1>6

LEMMA TwoToType ==
    /\ \A n \in 0 .. IndexBits : TwoTo[n] \in Nat /\ TwoTo[n] > 0
    /\ TwoTo[0] = 1
    /\ \A n \in 1 .. IndexBits : TwoTo[n] = 2 * TwoTo[n - 1]
    /\ Depth \in 0 .. IndexBits /\ Depth \in Nat /\ Depth > 0
<1> DEFINE T == {n \in Nat : n \in 0 .. IndexBits =>
                                TwoTo[n] \in Nat /\ TwoTo[n] > 0}
<1>1. /\ IndexBits \in Nat /\ Depth \in 0 .. IndexBits /\ Depth \in Nat
      /\ Depth > 0
  BY FoldAssumption
<1>2. TwoTo[0] = 1 /\ \A n \in 1 .. IndexBits : TwoTo[n] = 2 * TwoTo[n - 1]
  BY <1>1, TwoToDef
<1>3. 0 \in T
  BY <1>2
<1>4. ASSUME NEW n \in 0 .. IndexBits, n \in T, n + 1 \in 0 .. IndexBits
      PROVE  n + 1 \in T
  <2>1. TwoTo[n + 1] = 2 * TwoTo[n]
    BY <1>2, <1>4
  <2>2. TwoTo[n] \in Nat /\ TwoTo[n] > 0
    BY <1>4
  <2>3. QED BY <2>1, <2>2
<1>5. 0 .. IndexBits \subseteq T
  <2> HIDE DEF T
  <2>1. QED BY <1>1, <1>3, <1>4, UpTo
<1>6. QED BY <1>1, <1>2, <1>5

-----------------------------------------------------------------------------
(* Trees.                                                                  *)

Width(l) == TwoTo[Depth - l]

\* The levels of a tree are what their definition says, one level at a time.
LEMMA LevelsDef ==
    ASSUME NEW leaves
    PROVE  /\ Levels(leaves)[0] = leaves
           /\ \A l \in 1 .. Depth : \A i \in 0 .. Width(l) - 1 :
                 Levels(leaves)[l][i] =
                    HashTwo(Levels(leaves)[l - 1][2 * i],
                            Levels(leaves)[l - 1][2 * i + 1])
<1> DEFINE Up(below, h) == [i \in 0 .. TwoTo[Depth - h] - 1 |->
                              HashTwo(below[2 * i], below[2 * i + 1])]
           Tower(m, f) ==
              f = [l \in 0 .. m |-> IF l = 0 THEN leaves ELSE Up(f[l - 1], l)]
           T == {m \in Nat : \E f : Tower(m, f)}
<1> HIDE DEF Up
<1>1. Depth \in Nat
  BY TwoToType
<1>2. 0 \in T
  <2>1. Tower(0, [l \in 0 .. 0 |-> leaves])
    OBVIOUS
  <2>2. QED BY <2>1
<1>3. ASSUME NEW m \in Nat, m \in T PROVE m + 1 \in T
  <2>1. PICK f : Tower(m, f)
    BY <1>3
  <2> DEFINE g == [l \in 0 .. m + 1 |-> IF l = m + 1 THEN Up(f[m], m + 1) ELSE f[l]]
  <2>2. ASSUME NEW l \in 0 .. m + 1
        PROVE  g[l] = IF l = 0 THEN leaves ELSE Up(g[l - 1], l)
    <3>1. CASE l = m + 1
      BY <3>1
    <3>2. CASE l \in 0 .. m
      <4>1. f[l] = IF l = 0 THEN leaves ELSE Up(f[l - 1], l)
        BY <2>1, <3>2
      <4>2. l # 0 => g[l - 1] = f[l - 1]
        BY <3>2
      <4>3. QED BY <3>2, <4>1, <4>2
    <3>3. QED BY <3>1, <3>2
  <2>3. Tower(m + 1, g)
    BY <2>2
  <2>4. \E h : Tower(m + 1, h)
    <3> HIDE DEF Tower, g
    <3>1. QED BY <2>3
  <2> HIDE DEF Tower
  <2>5. QED BY <2>4
<1>4. Depth \in T
  <2> HIDE DEF T
  <2>1. QED BY <1>1, <1>2, <1>3, UpTo
<1>5. \E f : Tower(Depth, f)
  BY <1>4
<1>6. Tower(Depth, Levels(leaves))
  BY <1>5 DEF Levels, Up
<1>7. Levels(leaves)[0] = leaves
  BY <1>1, <1>6
<1>8. ASSUME NEW l \in 1 .. Depth, NEW i \in 0 .. Width(l) - 1
      PROVE  Levels(leaves)[l][i] = HashTwo(Levels(leaves)[l - 1][2 * i],
                                            Levels(leaves)[l - 1][2 * i + 1])
  <2>1. Levels(leaves)[l] = Up(Levels(leaves)[l - 1], l)
    BY <1>1, <1>6
  <2>2. QED BY <2>1 DEF Up, Width
<1>9. QED BY <1>7, <1>8

LEMMA Widths ==
    /\ Width(Depth) = 1 /\ Width(0) = Capacity
    /\ \A l \in 0 .. Depth : Width(l) \in Nat /\ Width(l) > 0
    /\ \A l \in 1 .. Depth : Width(l - 1) = 2 * Width(l)
<1>1. \A l \in 0 .. Depth : Depth - l \in 0 .. IndexBits
  BY TwoToType, FoldAssumption
<1>2. ASSUME NEW l \in 1 .. Depth PROVE Width(l - 1) = 2 * Width(l)
  <2>1. /\ Depth - (l - 1) \in 1 .. IndexBits
        /\ (Depth - (l - 1)) - 1 = Depth - l
    BY TwoToType, FoldAssumption
  <2>2. QED BY <2>1, TwoToType DEF Width
<1>3. /\ Depth - Depth = 0 /\ Depth - 0 = Depth
  BY TwoToType
<1>4. QED BY <1>1, <1>2, <1>3, TwoToType DEF Width, Capacity

\* The two nodes below one, and the one above a node.
LEMMA Children ==
    ASSUME NEW l \in 1 .. Depth, NEW i \in 0 .. Width(l) - 1
    PROVE  2 * i \in 0 .. Width(l - 1) - 1 /\ 2 * i + 1 \in 0 .. Width(l - 1) - 1
<1>1. Width(l - 1) = 2 * Width(l) /\ Width(l) \in Nat /\ l \in 0 .. Depth
  BY Widths, TwoToType
<1>2. QED BY <1>1

LEMMA Parents ==
    ASSUME NEW l \in 1 .. Depth, NEW i \in 0 .. Width(l - 1) - 1
    PROVE  i \div 2 \in 0 .. Width(l) - 1 /\ i \in Nat
<1>1. Width(l - 1) = 2 * Width(l) /\ Width(l) \in Nat /\ l \in 0 .. Depth
  BY Widths, TwoToType
<1>2. QED BY <1>1

\* What the leaves of a tree are: never an inner node.
Leaf == {EmptyLeaf} \cup {HashLeaf(c) : c \in Nat}
Rows == [Positions -> Leaf]

LEMMA Hashes ==
    /\ \A a, b, c, d : HashTwo(a, b) = HashTwo(c, d) => a = c /\ b = d
    /\ \A leaf \in Leaf : \A a, b : leaf # HashTwo(a, b)
    /\ \A c, d : HashLeaf(c) = HashLeaf(d) => c = d
    /\ \A c : HashLeaf(c) # EmptyLeaf
<1>1. \A a, b, c, d : HashTwo(a, b) = HashTwo(c, d) => a = c /\ b = d
  BY DEF HashTwo
<1>2. \A c, a, b : HashLeaf(c) # HashTwo(a, b)
  BY DEF HashLeaf, HashTwo
<1>3. \A a, b : EmptyLeaf # HashTwo(a, b)
  BY DEF EmptyLeaf, HashTwo
<1>4. \A c, d : HashLeaf(c) = HashLeaf(d) => c = d
  BY DEF HashLeaf
<1>5. \A c : HashLeaf(c) # EmptyLeaf
  BY DEF HashLeaf, EmptyLeaf
<1>6. \A leaf \in Leaf : \A a, b : leaf # HashTwo(a, b)
  BY <1>2, <1>3 DEF Leaf
<1>7. QED BY <1>1, <1>4, <1>5, <1>6

LEMMA TreeRows ==
    ASSUME NEW n \in 0 .. Capacity
    PROVE  /\ Tree(n) \in Rows
           /\ \A i \in Positions :
                 Tree(n)[i] = IF i < n THEN HashLeaf(i + 1) ELSE EmptyLeaf
<1>1. Capacity \in Nat
  BY TwoToType DEF Capacity
<1>2. \A i \in Positions : i \in Nat /\ i + 1 \in Nat
  BY <1>1 DEF Positions
<1>3. QED BY <1>2 DEF Tree, Rows, Leaf

\* Trees that differ have different roots.
LEMMA RootsDiffer ==
    ASSUME NEW r \in Rows, NEW s \in Rows, RootOf(r) = RootOf(s)
    PROVE  r = s
<1> DEFINE Same(l) == \A i \in 0 .. Width(l) - 1 : Levels(r)[l][i] = Levels(s)[l][i]
           T == {k \in Nat : k \in 0 .. Depth => Same(Depth - k)}
<1>1. Depth \in Nat /\ Depth - 0 = Depth /\ Depth - Depth = 0
  BY TwoToType
<1>2. 0 \in T
  <2>1. Same(Depth)
    <3>1. 0 .. Width(Depth) - 1 = {0}
      BY Widths
    <3>2. QED BY <3>1 DEF RootOf
  <2>2. QED BY <1>1, <2>1
<1>3. ASSUME NEW k \in 0 .. Depth, k \in T, k + 1 \in 0 .. Depth PROVE k + 1 \in T
  <2> DEFINE l == Depth - k
  <2>1. l \in 1 .. Depth /\ Depth - (k + 1) = l - 1
    BY <1>1, <1>3
  <2>2. Same(l)
    BY <1>3
  <2>3. ASSUME NEW j \in 0 .. Width(l - 1) - 1
        PROVE  Levels(r)[l - 1][j] = Levels(s)[l - 1][j]
    <3>1. j \div 2 \in 0 .. Width(l) - 1 /\ j \in Nat
      BY <2>1, Parents
    <3>2. Levels(r)[l][j \div 2] = Levels(s)[l][j \div 2]
      BY <2>2, <3>1
    <3>3. /\ Levels(r)[l - 1][2 * (j \div 2)] = Levels(s)[l - 1][2 * (j \div 2)]
          /\ Levels(r)[l - 1][2 * (j \div 2) + 1] =
                Levels(s)[l - 1][2 * (j \div 2) + 1]
      BY <2>1, <3>1, <3>2, LevelsDef, Hashes
    <3>4. QED BY <3>1, <3>3, Parity
  <2>4. Same(l - 1)
    BY <2>3
  <2>5. QED BY <2>1, <2>4
<1>4. 0 .. Depth \subseteq T
  <2> HIDE DEF T
  <2>1. QED BY <1>1, <1>2, <1>3, UpTo
<1>5. Depth \in T
  BY <1>1, <1>4
<1>6. Same(0)
  BY <1>1, <1>5
<1>7. \A i \in Positions : r[i] = s[i]
  BY <1>6, LevelsDef, Widths DEF Positions
<1>8. QED BY <1>7 DEF Rows

\* ... and so do trees with different numbers of commitments.
LEMMA TreesDiffer ==
    ASSUME NEW n \in 0 .. Capacity, NEW m \in 0 .. Capacity,
           RootOf(Tree(n)) = RootOf(Tree(m))
    PROVE  n = m
<1>1. Tree(n) = Tree(m)
  BY TreeRows, RootsDiffer
<1>2. Capacity \in Nat
  BY TwoToType DEF Capacity
<1>3. \A i \in Positions :
         (IF i < n THEN HashLeaf(i + 1) ELSE EmptyLeaf) =
         (IF i < m THEN HashLeaf(i + 1) ELSE EmptyLeaf)
  BY <1>1, TreeRows
<1>4. \A i \in Positions : i < n <=> i < m
  BY <1>3, Hashes
<1>5. ASSUME n < m PROVE FALSE
  <2>1. n \in Positions
    BY <1>2, <1>5 DEF Positions
  <2>2. QED BY <1>4, <1>5, <2>1
<1>6. ASSUME m < n PROVE FALSE
  <2>1. m \in Positions
    BY <1>2, <1>6 DEF Positions
  <2>2. QED BY <1>4, <1>6, <2>1
<1>7. QED BY <1>2, <1>5, <1>6

-----------------------------------------------------------------------------
(* The fold.                                                               *)

\* The bits of the index that were read, and those that are left.
Low == leaf_index - idx * TwoTo[at]

FoldTypes ==
    /\ row \in Rows
    /\ leaf_hash \in Leaf
    /\ leaf_index \in Nat /\ idx \in Nat
    /\ Len(siblings) \in 0 .. Depth
    /\ siblings = [k \in 1 .. Len(siblings) |-> siblings[k]]
    /\ at \in 0 .. Len(siblings)
    /\ Low \in 0 .. TwoTo[at] - 1
    /\ idx % TwoTo[Depth - at] = PositionOf(leaf_index) \div TwoTo[at]

\* The siblings read so far are those on the way up from position p of a tree.
WayUp(r, p) ==
    \A k \in 1 .. at :
        siblings[k] = Levels(r)[k - 1][Neighbour(p \div TwoTo[k - 1])]

\* Wherever the loop's node is found in a tree, it is as far up as siblings were
\* read, and what it was reached from is the leaf below at the index's low bits.
Reached(r) ==
    \A l \in 0 .. Depth : \A q \in 0 .. Width(l) - 1 :
        node = Levels(r)[l][q] =>
            /\ l = at
            /\ r[q * TwoTo[at] + Low] = leaf_hash
            /\ WayUp(r, q * TwoTo[at] + Low)

FoldInv ==
    /\ FoldTypes
    /\ \A r \in Rows : Reached(r)
    /\ OnTheWay

\* The bit of an index that a turn reads is added to the low bits, or is zero.
LEMMA HalfOf ==
    ASSUME NEW p \in Nat, NEW i \in Nat, NEW a \in Nat
    PROVE  /\ i % 2 = 0 => a - (i \div 2) * (2 * p) = a - i * p
           /\ i % 2 # 0 => a - (i \div 2) * (2 * p) = (a - i * p) + p
<1>1. ASSUME i % 2 = 0 PROVE a - (i \div 2) * (2 * p) = a - i * p
  <2>1. i = 2 * (i \div 2) /\ i \div 2 \in Nat
    BY <1>1, Parity
  <2>2. (i \div 2) * (2 * p) = (2 * (i \div 2)) * p
    BY <2>1
  <2>3. QED BY <2>1, <2>2
<1>2. ASSUME i % 2 # 0 PROVE a - (i \div 2) * (2 * p) = (a - i * p) + p
  <2>1. i = 2 * (i \div 2) + 1 /\ i \div 2 \in Nat
    BY <1>2, Parity
  <2>2. (i \div 2) * (2 * p) = (2 * (i \div 2) + 1) * p - p
    BY <2>1
  <2>3. QED BY <2>1, <2>2
<1>3. QED BY <1>1, <1>2

\* A position by the child it lies under, on either side.
LEMMA UnderChild ==
    ASSUME NEW p \in Nat, p > 0, NEW q \in Nat, NEW low \in Nat, low < p
    PROVE  /\ q * (2 * p) + low = (2 * q) * p + low
           /\ (q * (2 * p) + low) \div p = 2 * q
           /\ q * (2 * p) + (low + p) = (2 * q + 1) * p + low
           /\ (q * (2 * p) + (low + p)) \div p = 2 * q + 1
           /\ q * (2 * p) + low \in Nat /\ q * (2 * p) + (low + p) \in Nat
<1>1. q * (2 * p) + low = (2 * q) * p + low
  OBVIOUS
<1>2. q * (2 * p) + (low + p) = (2 * q + 1) * p + low
  OBVIOUS
<1>3. 2 * q \in Nat /\ 2 * q + 1 \in Nat
  OBVIOUS
<1>4. ((2 * q) * p + low) \div p = 2 * q
  BY <1>3, DivMod
<1>5. ((2 * q + 1) * p + low) \div p = 2 * q + 1
  BY <1>3, DivMod
<1>6. q * (2 * p) \in Nat
  OBVIOUS
<1>7. QED BY <1>1, <1>2, <1>4, <1>5, <1>6

LEMMA HalfMod ==
    ASSUME NEW m \in Nat, m > 0, NEW i \in Nat
    PROVE  /\ (i % (2 * m)) % 2 = i % 2
           /\ (i \div 2) % m = (i % (2 * m)) \div 2
           /\ i % (2 * m) \in 0 .. 2 * m - 1
<1> DEFINE k == i \div (2 * m)
           b == i % (2 * m)
<1>1. k \in Nat /\ b \in 0 .. 2 * m - 1 /\ i = k * (2 * m) + b
  OBVIOUS
<1> HIDE DEF k, b
<1>2. k * m \in Nat /\ i = 2 * (k * m) + b
  BY <1>1
<1>3. b % 2 = i % 2 /\ i \div 2 = k * m + b \div 2
  BY <1>1, <1>2
<1>4. b \div 2 \in Nat /\ b \div 2 < m
  BY <1>1
<1>5. (k * m + b \div 2) % m = b \div 2
  BY <1>1, <1>4, DivMod
<1>6. QED BY <1>1, <1>3, <1>5 DEF b

\* A leaf is found in a tree as a leaf only.
LEMMA LeafFound ==
    ASSUME NEW r \in Rows, NEW leaf \in Leaf,
           NEW l \in 0 .. Depth, NEW q \in 0 .. Width(l) - 1,
           leaf = Levels(r)[l][q]
    PROVE  l = 0 /\ q \in Nat /\ r[q] = leaf
<1>1. l = 0
  <2> SUFFICES ASSUME l \in 1 .. Depth PROVE FALSE
    BY TwoToType
  <2>1. leaf = HashTwo(Levels(r)[l - 1][2 * q], Levels(r)[l - 1][2 * q + 1])
    BY LevelsDef
  <2>2. QED BY <2>1, Hashes
<1>2. QED BY <1>1, LevelsDef

LEMMA AtTheLeaf ==
    ASSUME NEW i \in Nat
    PROVE  /\ i - i * TwoTo[0] = 0 /\ TwoTo[0] = 1 /\ i * TwoTo[0] + 0 = i
           /\ i \div TwoTo[0] = i
           /\ i % TwoTo[Depth] \in Nat
  BY TwoToType

\* The loop before its first turn.
LEMMA FoldStartInv ==
    ASSUME row' \in Rows, leaf_hash' \in Leaf, leaf_index' \in Nat,
           Len(siblings') \in 0 .. Depth,
           siblings' = [k \in 1 .. Len(siblings') |-> siblings'[k]],
           node' = leaf_hash', idx' = leaf_index', at' = 0
    PROVE  FoldInv'
<1>1. Depth - 0 = Depth /\ Depth \in Nat
  BY TwoToType
<1>2. Low' = 0
  BY AtTheLeaf DEF Low
<1>3. FoldTypes'
  <2>1. idx' % TwoTo[Depth - at'] = PositionOf(leaf_index') \div TwoTo[at']
    BY <1>1, AtTheLeaf DEF PositionOf
  <2>2. Low' \in 0 .. TwoTo[at'] - 1
    BY <1>2, AtTheLeaf
  <2>3. at' \in 0 .. Len(siblings')
    OBVIOUS
  <2>4. QED BY <2>1, <2>2, <2>3 DEF FoldTypes
<1>4. ASSUME NEW r \in Rows PROVE Reached(r)'
  <2> SUFFICES ASSUME NEW l \in 0 .. Depth, NEW q \in 0 .. Width(l) - 1,
                      leaf_hash' = Levels(r)[l][q]
               PROVE  /\ l = 0
                      /\ r[q * TwoTo[0] + 0] = leaf_hash'
                      /\ WayUp(r, q * TwoTo[0] + 0)'
    BY <1>2 DEF Reached
  <2>1. l = 0 /\ q \in Nat /\ r[q] = leaf_hash'
    BY LeafFound
  <2>2. QED BY <2>1, AtTheLeaf DEF WayUp
<1>5. OnTheWay'
  <2>1. Levels(row')[0] = row'
    BY LevelsDef
  <2>2. PositionOf(leaf_index') \div TwoTo[0] = PositionOf(leaf_index')
    BY AtTheLeaf DEF PositionOf
  <2>3. QED BY <2>1, <2>2 DEF OnTheWay, HonestPath
<1>6. QED BY <1>3, <1>4, <1>5 DEF FoldInv

\* The loop that is not running holds no path.
LEMMA NoPath ==
    /\ Tree(0) \in Rows /\ EmptyLeaf \in Leaf /\ 0 \in Nat
    /\ Len(<<>>) \in 0 .. Depth /\ Len(<<>>) = 0
    /\ <<>> = [k \in 1 .. Len(<<>>) |-> <<>>[k]]
<1>1. 0 \in 0 .. Capacity
  BY TwoToType DEF Capacity
<1>2. Len(<<>>) = 0 /\ <<>> = [k \in 1 .. 0 |-> <<>>[k]]
  OBVIOUS
<1>3. QED BY <1>1, <1>2, TreeRows, TwoToType DEF Leaf

LEMMA FoldEndInv == ASSUME FoldEnd PROVE FoldInv'
<1>1. /\ row' = Tree(0) /\ leaf_hash' = EmptyLeaf /\ leaf_index' = 0
      /\ siblings' = <<>> /\ node' = EmptyLeaf /\ idx' = 0 /\ at' = 0
  BY DEF FoldEnd
<1>2. QED BY <1>1, NoPath, FoldStartInv

LEMMA FoldInitInv == ASSUME FoldInit PROVE FoldInv
<1>1. /\ row = Tree(0) /\ leaf_hash = EmptyLeaf /\ leaf_index = 0
      /\ siblings = <<>> /\ node = EmptyLeaf /\ idx = 0 /\ at = 0
      /\ Depth - 0 = Depth /\ Depth \in Nat
  BY TwoToType DEF FoldInit
<1>2. Low = 0
  BY <1>1, AtTheLeaf DEF Low
<1>3. FoldTypes
  <2>1. idx % TwoTo[Depth - at] = PositionOf(leaf_index) \div TwoTo[at]
    BY <1>1, AtTheLeaf DEF PositionOf
  <2>2. Low \in 0 .. TwoTo[at] - 1
    BY <1>1, <1>2, AtTheLeaf
  <2>3. at \in 0 .. Len(siblings) /\ leaf_index \in Nat /\ idx \in Nat
    BY <1>1, NoPath
  <2>4. siblings = [k \in 1 .. Len(siblings) |-> siblings[k]]
    BY <1>1, NoPath
  <2>5. QED BY <1>1, <2>1, <2>2, <2>3, <2>4, NoPath DEF FoldTypes
<1>4. ASSUME NEW r \in Rows PROVE Reached(r)
  <2> SUFFICES ASSUME NEW l \in 0 .. Depth, NEW q \in 0 .. Width(l) - 1,
                      leaf_hash = Levels(r)[l][q]
               PROVE  /\ l = 0
                      /\ r[q * TwoTo[0] + 0] = leaf_hash
                      /\ WayUp(r, q * TwoTo[0] + 0)
    BY <1>1, <1>2 DEF Reached
  <2>1. leaf_hash \in Leaf
    BY <1>1, NoPath
  <2>2. l = 0 /\ q \in Nat /\ r[q] = leaf_hash
    BY <2>1, LeafFound
  <2>3. QED BY <1>1, <2>2, AtTheLeaf DEF WayUp
<1>5. OnTheWay
  <2>1. Levels(row)[0] = row
    BY LevelsDef
  <2>2. PositionOf(leaf_index) \div TwoTo[0] = PositionOf(leaf_index)
    BY <1>1, AtTheLeaf DEF PositionOf
  <2>3. QED BY <1>1, <2>1, <2>2 DEF OnTheWay, HonestPath
<1>6. QED BY <1>3, <1>4, <1>5 DEF FoldInv

LEMMA TurnNumbers ==
    ASSUME FoldTypes, at < Len(siblings)
    PROVE  /\ at \in 0 .. Depth /\ at + 1 \in 1 .. Depth /\ at \in Nat
           /\ (at + 1) - 1 = at
           /\ TwoTo[at] \in Nat /\ TwoTo[at] > 0 /\ TwoTo[at + 1] = 2 * TwoTo[at]
           /\ Width(at + 1) \in Nat /\ Width(at + 1) > 0
           /\ Width(at) = 2 * Width(at + 1)
<1>1. /\ at \in 0 .. Depth /\ at + 1 \in 1 .. Depth /\ at \in Nat
      /\ (at + 1) - 1 = at
  BY TwoToType DEF FoldTypes
<1>2. at \in 0 .. IndexBits /\ at + 1 \in 1 .. IndexBits
  BY <1>1, FoldAssumption
<1>3. TwoTo[at] \in Nat /\ TwoTo[at] > 0 /\ TwoTo[at + 1] = 2 * TwoTo[at]
  BY <1>1, <1>2, TwoToType
<1>4. at + 1 \in 0 .. Depth
  BY <1>1
<1>5. /\ Width(at + 1) \in Nat /\ Width(at + 1) > 0
      /\ Width((at + 1) - 1) = 2 * Width(at + 1)
  BY <1>1, <1>4, Widths
<1>6. QED BY <1>1, <1>3, <1>5

\* One turn reads one more bit of the index.
LEMMA FoldNextTypes == ASSUME FoldTypes, FoldNext PROVE FoldTypes'
<1> DEFINE p == TwoTo[at]
           m == Width(at + 1)
           x == PositionOf(leaf_index)
<1>1. /\ at < Len(siblings) /\ at' = at + 1 /\ idx' = idx \div 2
      /\ row' = row /\ leaf_hash' = leaf_hash /\ leaf_index' = leaf_index
      /\ siblings' = siblings
  BY DEF FoldNext, args
<1>2. /\ at \in Nat /\ p \in Nat /\ p > 0 /\ TwoTo[at + 1] = 2 * p
      /\ m \in Nat /\ m > 0 /\ TwoTo[Depth - at] = 2 * m
  BY <1>1, TurnNumbers DEF Width
<1>3. /\ leaf_index \in Nat /\ idx \in Nat /\ leaf_index - idx * p \in 0 .. p - 1
      /\ idx % (2 * m) = x \div p
      /\ Len(siblings) \in Nat
  BY <1>2 DEF FoldTypes, Low
<1>4. x \in Nat
  BY <1>3, TwoToType DEF PositionOf
<1>5. Low' = leaf_index - (idx \div 2) * (2 * p)
  BY <1>1, <1>2 DEF Low
<1>6. idx' \in Nat
  BY <1>1, <1>3, Parity
<1>7. Low' \in 0 .. TwoTo[at'] - 1
  <2>1. \/ Low' = leaf_index - idx * p
        \/ Low' = (leaf_index - idx * p) + p
    <3> HIDE DEF p
    <3>1. QED BY <1>2, <1>3, <1>5, HalfOf
  <2>2. TwoTo[at'] = 2 * p
    BY <1>1, <1>2
  <2> DEFINE low == leaf_index - idx * p
  <2>3. low \in 0 .. p - 1
    BY <1>3
  <2> HIDE DEF low, p
  <2>4. Low' = low \/ Low' = low + p
    BY <2>1 DEF low
  <2>5. QED BY <1>2, <2>2, <2>3, <2>4
<1>8. (idx \div 2) % m = x \div (2 * p)
  <2>1. (idx \div 2) % m = (idx % (2 * m)) \div 2
    BY <1>2, <1>3, HalfMod
  <2>2. \A a, b \in Nat : b > 0 => (a \div b) \div 2 = a \div (2 * b)
    OBVIOUS
  <2>3. (x \div p) \div 2 = x \div (2 * p)
    BY <1>2, <1>4, <2>2
  <2>4. QED BY <1>3, <2>1, <2>3
<1>9. idx' % TwoTo[Depth - at'] = PositionOf(leaf_index') \div TwoTo[at']
  BY <1>1, <1>2, <1>8 DEF Width
<1>10. at' \in 0 .. Len(siblings')
  BY <1>1, <1>2, <1>3
<1>11. QED BY <1>1, <1>3, <1>6, <1>7, <1>9, <1>10 DEF FoldTypes

\* What is above the node and the sibling is reached from the same leaf.
LEMMA FoldNextReached ==
    ASSUME FoldTypes, FoldNext, NEW r \in Rows, Reached(r)
    PROVE  Reached(r)'
<1> DEFINE p == TwoTo[at]
           s == siblings[at + 1]
           low == leaf_index - idx * p
           Up(pos) == \A k \in 1 .. at + 1 :
              siblings[k] = Levels(r)[k - 1][Neighbour(pos \div TwoTo[k - 1])]
<1>1. /\ at < Len(siblings) /\ at' = at + 1 /\ idx' = idx \div 2
      /\ row' = row /\ leaf_hash' = leaf_hash /\ leaf_index' = leaf_index
      /\ siblings' = siblings
      /\ idx % 2 = 0 => node' = HashTwo(node, s)
      /\ idx % 2 # 0 => node' = HashTwo(s, node)
  BY DEF FoldNext, args
<1>2. /\ at \in 0 .. Depth /\ at \in Nat
      /\ p \in Nat /\ p > 0 /\ TwoTo[at + 1] = 2 * p
  BY <1>1, TurnNumbers
<1>3. leaf_index \in Nat /\ idx \in Nat /\ low \in 0 .. p - 1 /\ Low = low
  BY <1>2 DEF FoldTypes, Low
<1>4. Low' = leaf_index - (idx \div 2) * (2 * p)
  BY <1>1, <1>2 DEF Low
<1> SUFFICES ASSUME NEW l \in 0 .. Depth, NEW q \in 0 .. Width(l) - 1,
                    node' = Levels(r)[l][q]
             PROVE  /\ l = at + 1
                    /\ r[q * (2 * p) + Low'] = leaf_hash
                    /\ Up(q * (2 * p) + Low')
  <2>1. TwoTo[at'] = 2 * p
    BY <1>1, <1>2
  <2> HIDE DEF p
  <2>2. QED BY <1>1, <2>1 DEF Reached, WayUp
<1>5. l \in 1 .. Depth
  <2> SUFFICES ASSUME l = 0 PROVE FALSE
    BY TwoToType
  <2>1. Levels(r)[0][q] = r[q] /\ q \in Positions
    BY LevelsDef, Widths DEF Positions
  <2>2. Levels(r)[0][q] \in Leaf
    BY <2>1 DEF Rows
  <2>3. QED BY <1>1, <2>2, Hashes
<1>6. Levels(r)[l][q] = HashTwo(Levels(r)[l - 1][2 * q], Levels(r)[l - 1][2 * q + 1])
  BY <1>5, LevelsDef
<1>7. /\ 2 * q \in 0 .. Width(l - 1) - 1 /\ 2 * q + 1 \in 0 .. Width(l - 1) - 1
      /\ l - 1 \in 0 .. Depth /\ q \in Nat /\ (l - 1) + 1 = l
  <2>1. Width(l) \in Nat
    BY Widths
  <2>2. QED BY <1>5, <2>1, Children, TwoToType
<1>8. ASSUME NEW child \in {2 * q, 2 * q + 1}, NEW pos \in Nat,
             node = Levels(r)[l - 1][child], s = Levels(r)[l - 1][Neighbour(child)],
             pos = child * p + low, pos \div p = child
      PROVE  l = at + 1 /\ r[pos] = leaf_hash /\ Up(pos)
  <2>1. l - 1 = at /\ r[pos] = leaf_hash /\ WayUp(r, pos)
    BY <1>3, <1>7, <1>8 DEF Reached
  <2>2. ASSUME NEW k \in 1 .. at + 1
        PROVE  siblings[k] = Levels(r)[k - 1][Neighbour(pos \div TwoTo[k - 1])]
    <3>1. CASE k \in 1 .. at
      BY <2>1, <3>1 DEF WayUp
    <3>2. CASE k = at + 1
      <4>1. k - 1 = at
        BY <1>2, <3>2
      <4>2. QED BY <1>8, <2>1, <3>2, <4>1
    <3>3. QED BY <1>2, <3>1, <3>2
  <2>3. QED BY <1>7, <2>1, <2>2
<1>9. CASE idx % 2 = 0
  <2>1. node = Levels(r)[l - 1][2 * q] /\ s = Levels(r)[l - 1][2 * q + 1]
    BY <1>1, <1>6, <1>9, Hashes
  <2>2. Neighbour(2 * q) = 2 * q + 1
    BY <1>7 DEF Neighbour
  <2>3. Low' = low
    <3> HIDE DEF p
    <3>1. QED BY <1>2, <1>3, <1>4, <1>9, HalfOf
  <2> HIDE DEF p, low, s, Up
  <2>4. /\ q * (2 * p) + low = (2 * q) * p + low
        /\ (q * (2 * p) + low) \div p = 2 * q
        /\ q * (2 * p) + low \in Nat
    BY <1>2, <1>3, <1>7, UnderChild
  <2>5. QED BY <1>8, <2>1, <2>2, <2>3, <2>4
<1>10. CASE idx % 2 # 0
  <2>1. node = Levels(r)[l - 1][2 * q + 1] /\ s = Levels(r)[l - 1][2 * q]
    BY <1>1, <1>6, <1>10, Hashes
  <2>2. Neighbour(2 * q + 1) = 2 * q
    BY <1>7 DEF Neighbour
  <2>3. Low' = low + p
    <3> HIDE DEF p
    <3>1. QED BY <1>2, <1>3, <1>4, <1>10, HalfOf
  <2> HIDE DEF p, low, s, Up
  <2>4. /\ q * (2 * p) + (low + p) = (2 * q + 1) * p + low
        /\ (q * (2 * p) + (low + p)) \div p = 2 * q + 1
        /\ q * (2 * p) + (low + p) \in Nat
    BY <1>2, <1>3, <1>7, UnderChild
  <2>5. QED BY <1>8, <2>1, <2>2, <2>3, <2>4
<1>11. QED BY <1>9, <1>10

\* The node above the tree's node on the way from a position is the next one.
LEMMA FoldNextOnTheWay ==
    ASSUME FoldTypes, FoldNext, OnTheWay, HonestPath'
    PROVE  node' = Levels(row)[at + 1][PositionOf(leaf_index) \div TwoTo[at + 1]]
<1> DEFINE p == TwoTo[at]
           m == Width(at + 1)
           x == PositionOf(leaf_index)
           b == x \div p
           c == b \div 2
           s == siblings[at + 1]
<1>1. /\ at < Len(siblings) /\ at' = at + 1
      /\ row' = row /\ leaf_hash' = leaf_hash /\ leaf_index' = leaf_index
      /\ siblings' = siblings
      /\ idx % 2 = 0 => node' = HashTwo(node, s)
      /\ idx % 2 # 0 => node' = HashTwo(s, node)
  BY DEF FoldNext, args
<1>2. /\ at \in Nat /\ at + 1 \in 1 .. Depth /\ (at + 1) - 1 = at
      /\ p \in Nat /\ p > 0 /\ TwoTo[at + 1] = 2 * p
      /\ m \in Nat /\ m > 0 /\ TwoTo[Depth - at] = 2 * m
  BY <1>1, TurnNumbers DEF Width
<1>3. idx \in Nat /\ idx % (2 * m) = b /\ leaf_index \in Nat
  BY <1>2 DEF FoldTypes
<1>4. x \in Nat
  BY <1>3, TwoToType DEF PositionOf
<1>5. HonestPath
  BY <1>1 DEF HonestPath
<1>6. node = Levels(row)[at][b]
  BY <1>5 DEF OnTheWay
<1>7. s = Levels(row)[at][Neighbour(b)]
  BY <1>2, <1>5 DEF HonestPath, ProofAt
<1>8. b % 2 = idx % 2 /\ b \in 0 .. 2 * m - 1
  <2> HIDE DEF m, b
  <2>1. QED BY <1>2, <1>3, HalfMod
<1>9. c \in 0 .. m - 1 /\ b \in Nat
  <2> HIDE DEF m, b
  <2>1. QED BY <1>2, <1>8
<1>10. Levels(row)[at + 1][c] = HashTwo(Levels(row)[at][2 * c], Levels(row)[at][2 * c + 1])
  <2> HIDE DEF c, m
  <2>1. c \in 0 .. Width(at + 1) - 1
    BY <1>9 DEF m
  <2>2. QED BY <1>2, <2>1, LevelsDef
<1>11. c = x \div (2 * p)
  <2>1. \A k, d \in Nat : d > 0 => (k \div d) \div 2 = k \div (2 * d)
    OBVIOUS
  <2>2. QED BY <1>2, <1>4, <2>1
<1>12. node' = Levels(row)[at + 1][c]
  <2>1. CASE idx % 2 = 0
    <3>1. b = 2 * c /\ Neighbour(b) = 2 * c + 1
      <4> HIDE DEF b
      <4>1. QED BY <1>8, <1>9, <2>1 DEF Neighbour
    <3>2. QED BY <1>1, <1>6, <1>7, <1>10, <2>1, <3>1
  <2>2. CASE idx % 2 # 0
    <3>1. b = 2 * c + 1 /\ Neighbour(b) = 2 * c
      <4> HIDE DEF b
      <4>1. QED BY <1>8, <1>9, <2>2 DEF Neighbour
    <3>2. QED BY <1>1, <1>6, <1>7, <1>10, <2>2, <3>1
  <2>3. QED BY <2>1, <2>2
<1>13. QED BY <1>2, <1>11, <1>12

LEMMA FoldNextInv == ASSUME FoldInv, FoldNext PROVE FoldInv'
<1>1. FoldTypes /\ (\A r \in Rows : Reached(r)) /\ OnTheWay
  BY DEF FoldInv
<1>2. FoldTypes'
  BY <1>1, FoldNextTypes
<1>3. \A r \in Rows : Reached(r)'
  BY <1>1, FoldNextReached
<1>4. OnTheWay'
  <2>1. at' = at + 1 /\ row' = row /\ leaf_index' = leaf_index
    BY DEF FoldNext, args
  <2>2. SUFFICES ASSUME HonestPath'
                 PROVE  node' = Levels(row)[at + 1]
                                   [PositionOf(leaf_index) \div TwoTo[at + 1]]
    BY <2>1 DEF OnTheWay
  <2>3. QED BY <1>1, <2>2, FoldNextOnTheWay
<1>5. QED BY <1>2, <1>3, <1>4 DEF FoldInv

LEMMA FoldStutters == ASSUME FoldInv, UNCHANGED foldVars PROVE FoldInv'
  BY DEF FoldInv, FoldTypes, Reached, WayUp, Low, OnTheWay, HonestPath,
         PositionOf, foldVars, args

\* What a finished fold shows of any tree whose root it ends in: the whole height
\* was climbed, from the leaf the index names, past that tree's own siblings.
LEMMA AtTheRoot ==
    ASSUME FoldInv, Finished, NEW r \in Rows, node = RootOf(r)
    PROVE  /\ leaf_hash = r[PositionOf(leaf_index)]
           /\ siblings = ProofAt(r, PositionOf(leaf_index))
           /\ PositionOf(leaf_index) \in Positions
<1> DEFINE p == TwoTo[Depth]
<1>1. Depth \in 0 .. Depth /\ 0 \in 0 .. Width(Depth) - 1
  BY Widths, TwoToType
<1>2. /\ FoldTypes
      /\ Depth = at
      /\ r[0 * TwoTo[at] + Low] = leaf_hash
      /\ WayUp(r, 0 * TwoTo[at] + Low)
  BY <1>1 DEF FoldInv, Reached, RootOf
<1>3. /\ leaf_index \in Nat /\ idx \in Nat
      /\ p \in Nat /\ p > 0 /\ Low \in 0 .. p - 1 /\ Low = leaf_index - idx * p
  BY <1>2, TwoToType DEF FoldTypes, Low
<1>4. Low = PositionOf(leaf_index)
  <2> HIDE DEF p
  <2>1. (idx * p + Low) % p = Low
    <3>1. Low \in Nat /\ Low < p
      BY <1>3
    <3>2. QED BY <1>3, <3>1, DivMod
  <2>2. idx * p + Low = leaf_index
    <3>1. \A a, b, l \in Int : l = a - b => b + l = a
      OBVIOUS
    <3>2. idx * p \in Nat /\ Low \in Int
      BY <1>3
    <3>3. QED BY <1>3, <3>1, <3>2
  <2>3. QED BY <2>1, <2>2 DEF p, PositionOf
<1>5. 0 * TwoTo[at] + Low = PositionOf(leaf_index)
  BY <1>2, <1>3, <1>4
<1>6. Len(siblings) = Depth
  BY <1>2 DEF Finished
<1>7. siblings = ProofAt(r, PositionOf(leaf_index))
  <2>1. siblings = [k \in 1 .. Depth |-> siblings[k]]
    BY <1>2, <1>6 DEF FoldTypes
  <2>2. \A k \in 1 .. Depth :
           siblings[k] = Levels(r)[k - 1][Neighbour(PositionOf(leaf_index) \div TwoTo[k - 1])]
    BY <1>2, <1>5 DEF WayUp
  <2>3. QED BY <2>1, <2>2 DEF ProofAt
<1>8. PositionOf(leaf_index) \in Positions
  BY <1>3, <1>4 DEF Positions, Capacity
<1>9. QED BY <1>2, <1>5, <1>7, <1>8

LEMMA SoundFold == ASSUME FoldInv PROVE FoldSound
<1>1. row \in Rows
  BY DEF FoldInv, FoldTypes
<1>2. QED BY <1>1, AtTheRoot DEF FoldSound

-----------------------------------------------------------------------------
(* The client.                                                             *)

Running == phase # "idle" => call \in Calls

\* What of a proof the fold relies on: all that its decoder checks.
Foldable(v) ==
    /\ v.leaf_index \in Nat
    /\ Len(v.siblings) \in 0 .. Depth
    /\ v.siblings = [k \in 1 .. Len(v.siblings) |-> v.siblings[k]]
    /\ v.leaves \in 0 .. Capacity

ReplyTyped ==
    (/\ phase = "served" /\ call.method = "isRootCurrent"
     /\ ReadEnvelope(reply).ok /\ ReadEnvelope(reply).value.is = "proof")
    => Foldable(ReadEnvelope(reply).value)

\* A proof that a sequencer gave of the caller's commitment, when it had n of them
\* and what is in truths was true.
GivenAt(n, index, path, truths) ==
    /\ call.known <= n
    /\ index = call.known - 1
    /\ path = ProofAt(Tree(n), call.known - 1)
    /\ (call.claimed = n) \in truths

\* What a faithful reply says was true at some moment of the call.
SaysTruth(v, truths) ==
    IF call.method # "isRootCurrent" THEN Decode(v).ok => Decode(v).value \in truths
    ELSE IF v = Null THEN FALSE \in truths
    ELSE /\ v.is = "proof"
         /\ v.leaves \in 0 .. Capacity
         /\ GivenAt(v.leaves, v.leaf_index, v.siblings, truths)

ReplyTrue ==
    (faithful /\ phase = "served" /\ ReadEnvelope(reply).ok) =>
        SaysTruth(ReadEnvelope(reply).value, seen)

FoldOfKnown == phase = "folding" => leaf_hash = HashLeaf(call.known)

FoldTrue ==
    (faithful /\ phase = "folding") =>
        \E n \in 0 .. Capacity : row = Tree(n) /\ GivenAt(n, leaf_index, siblings, seen)

Kept ==
    /\ Running
    /\ ReplyTyped
    /\ ReplyTrue
    /\ FoldOfKnown
    /\ FoldTrue

IInv ==
    /\ TypeOK
    /\ Kept
    /\ FoldInv
    /\ AnsweredInTime
    /\ CurrentHoldsKnown

LEMMA Bounds ==
    /\ Capacity \in Nat /\ 0 \in 0 .. Capacity
    /\ Commitments \subseteq 0 .. Capacity /\ Commitments \subseteq Nat
    /\ \A k \in Commitments : k - 1 \in Positions /\ k - 1 \in Nat /\ (k - 1) + 1 = k
<1>1. Capacity \in Nat
  BY TwoToType DEF Capacity
<1>2. QED BY <1>1 DEF Commitments, Positions

\* The decoder only lets paths of the height of the tree, or shorter ones, reach
\* the fold; the sequencer's own are as long as the tree is high.
LEMMA OwnPath ==
    ASSUME NEW r, NEW position
    PROVE  /\ Len(ProofAt(r, position)) = Depth
           /\ ProofAt(r, position) = [k \in 1 .. Len(ProofAt(r, position)) |->
                                         ProofAt(r, position)[k]]
<1>1. Depth \in Nat
  BY TwoToType
<1>2. Len(ProofAt(r, position)) = Depth
  BY <1>1 DEF ProofAt
<1>3. QED BY <1>2 DEF ProofAt

LEMMA AnyPath ==
    ASSUME NEW r, NEW path \in Paths(r)
    PROVE  /\ Len(path) \in 0 .. Depth
           /\ path = [k \in 1 .. Len(path) |-> path[k]]
<1>1. Depth \in Nat
  BY TwoToType
<1>2. PICK n \in 0 .. Depth : path \in [1 .. n -> Nodes(r)]
  BY DEF Paths
<1>3. n \in Nat /\ Len(path) = n
  BY <1>1, <1>2
<1>4. QED BY <1>2, <1>3

\* A honest proof has the shape of one that can be folded.
LEMMA GivenFoldable ==
    ASSUME call \in Calls, call.method = "isRootCurrent",
           NEW n \in 0 .. Capacity, NEW v, v.leaves = n, NEW truths,
           GivenAt(n, v.leaf_index, v.siblings, truths)
    PROVE  Foldable(v)
<1>1. call.known \in Commitments
  BY DEF Calls
<1>2. v.leaf_index \in Nat
  BY <1>1, Bounds DEF GivenAt
<1>3. v.siblings = ProofAt(Tree(n), call.known - 1)
  BY DEF GivenAt
<1>4. Depth \in 0 .. Depth
  BY TwoToType
<1>5. /\ Len(v.siblings) \in 0 .. Depth
      /\ v.siblings = [k \in 1 .. Len(v.siblings) |-> v.siblings[k]]
  BY <1>3, <1>4, OwnPath
<1>6. QED BY <1>2, <1>5 DEF Foldable

\* What a waiting reply says is not made untrue by what becomes true after it.
LEMMA ReplyTrueStays ==
    ASSUME ReplyTrue, faithful' = faithful, call' = call, phase' = phase,
           reply' = reply, seen \subseteq seen'
    PROVE  ReplyTrue'
<1> SUFFICES ASSUME faithful, phase = "served", ReadEnvelope(reply).ok
             PROVE  SaysTruth(ReadEnvelope(reply).value, seen)'
  BY DEF ReplyTrue, ReadEnvelope, Ok, Err
<1> DEFINE v == ReadEnvelope(reply).value
<1>1. SaysTruth(v, seen) /\ v' = v
  BY DEF ReplyTrue, ReadEnvelope, Ok, Err
<1>2. Decode(v)' = Decode(v)
  BY <1>1 DEF Decode, DecodeProofTuple, Ok, Err
<1> HIDE DEF v
<1>3. SaysTruth(v, seen)'
  BY <1>1, <1>2 DEF SaysTruth, GivenAt
<1>4. QED BY <1>3 DEF v

\* The chain moves: what was true stays in the history of the call.
LEMMA ChainMovesInv ==
    ASSUME IInv, NEW n \in 0 .. Capacity,
           NEW m \in {"unknown", "pooled", "included", "dropped"},
           ChainMoves(n, m), late' \in BOOLEAN
    PROVE  IInv'
<1>1. /\ height' = n /\ mine' = m /\ seen \subseteq seen'
      /\ phase = "idle" => seen' = seen
      /\ UNCHANGED foldVars /\ faithful' = faithful /\ call' = call
      /\ phase' = phase /\ reply' = reply /\ answer' = answer
  BY DEF ChainMoves
<1>2. FoldInv'
  BY <1>1, FoldStutters DEF IInv
<1>3. TypeOK'
  BY <1>1 DEF IInv, TypeOK
<1>4. Running' /\ ReplyTyped' /\ FoldOfKnown'
  BY <1>1 DEF IInv, Kept, Running, ReplyTyped, FoldOfKnown, foldVars, args,
              ReadEnvelope, Foldable
<1>5. ReplyTrue'
  BY <1>1, ReplyTrueStays DEF IInv, Kept
<1>6. FoldTrue'
  <2> SUFFICES ASSUME faithful, phase = "folding"
               PROVE  \E k \in 0 .. Capacity :
                         row' = Tree(k) /\ GivenAt(k, leaf_index, siblings, seen)'
    BY <1>1 DEF FoldTrue
  <2>1. PICK k \in 0 .. Capacity : row = Tree(k) /\ GivenAt(k, leaf_index, siblings, seen)
    BY DEF IInv, Kept, FoldTrue
  <2>2. QED BY <1>1, <2>1 DEF GivenAt, foldVars, args
<1>7. AnsweredInTime'
  BY <1>1 DEF IInv, AnsweredInTime
<1>8. CurrentHoldsKnown'
  BY <1>1 DEF IInv, CurrentHoldsKnown
<1>9. QED BY <1>2, <1>3, <1>4, <1>5, <1>6, <1>7, <1>8 DEF IInv, Kept

\* A faithful result is the truth of the moment it is made.
LEMMA ResultTrue ==
    ASSUME TypeOK, call \in Calls, NEW truths,
           IF call.method = "sendTransaction" THEN TRUE \in truths
                                              ELSE TruthNow \in truths
    PROVE  /\ SaysTruth(Result, truths)
           /\ (call.method = "isRootCurrent" /\ Result.is = "proof") => Foldable(Result)
<1>1. CASE call.method = "getLastBlockId"
  BY <1>1 DEF SaysTruth, Result, Decode, TruthNow, Truth, Number, Ok
<1>2. CASE call.method = "getTransaction"
  <2>1. (mine = "included") \in truths
    BY <1>2 DEF TruthNow, Truth
  <2>2. Decode(Result) = Ok(mine = "included")
    BY <1>2 DEF Decode, Result, Text, Null
  <2>3. QED BY <1>2, <2>1, <2>2 DEF SaysTruth, Ok
<1>3. CASE call.method = "sendTransaction"
  <2>1. Decode(Result) = Ok(TRUE)
    BY <1>3 DEF Decode, Result, Text
  <2>2. Ok(TRUE).value = TRUE
    BY DEF Ok
  <2>3. Decode(Result).value \in truths
    BY <1>3, <2>1, <2>2, Zenon
  <2>4. QED BY <1>3, <2>3 DEF SaysTruth
<1>4. CASE call.method = "getAccount"
  <2>1. (height > 0) \in truths
    BY <1>4 DEF TruthNow, Truth
  <2>2. Decode(Result) = Ok(height > 0)
    BY <1>4 DEF Decode, Result, Object, Null
  <2>3. QED BY <1>4, <2>1, <2>2 DEF SaysTruth, Ok
<1>5. CASE call.method = "isRootCurrent"
  <2>1. call.known \in Nat /\ height \in Nat
    <3>1. call.known \in Commitments
      BY <1>5 DEF Calls
    <3>2. height \in 0 .. Capacity
      BY DEF TypeOK
    <3>3. call.known \in Nat
      BY <3>1, Bounds
    <3>4. Capacity \in Nat
      BY Bounds
    <3>5. height \in Nat
      BY <3>2, <3>4
    <3>6. QED BY <3>3, <3>5
  <2>2. (call.known <= height /\ call.claimed = height) \in truths
    BY <1>5 DEF TruthNow, Truth
  <2>3. CASE call.known > height
    <3>1. Result = Null
      BY <1>5, <2>3 DEF Result
    <3>2. ~(call.known <= height)
      BY <2>1, <2>3
    <3>3. (call.known <= height /\ call.claimed = height) = FALSE
      BY <3>2
    <3>4. FALSE \in truths
      BY <2>2, <3>3
    <3>5. QED BY <1>5, <3>1, <3>4 DEF SaysTruth, Null
  <2>4. CASE ~(call.known > height)
    <3> DEFINE v == Proof(call.known - 1, ProofAt(Tree(height), call.known - 1), height)
    <3>1. Result = v
      BY <1>5, <2>4 DEF Result
    <3>2. call.known <= height
      BY <2>1, <2>4
    <3>3. (call.claimed = height) \in truths
      BY <2>2, <3>2
    <3>4. /\ v.is = "proof" /\ v.leaves = height /\ v.leaf_index = call.known - 1
          /\ v.siblings = ProofAt(Tree(height), call.known - 1) /\ v # Null
      BY DEF Proof, Null
    <3> HIDE DEF v
    <3>5. GivenAt(height, v.leaf_index, v.siblings, truths)
      BY <3>2, <3>3, <3>4 DEF GivenAt
    <3>6. height \in 0 .. Capacity
      BY DEF TypeOK
    <3>7. Foldable(v)
      BY <1>5, <3>4, <3>5, <3>6, GivenFoldable
    <3>8. QED BY <1>5, <3>1, <3>4, <3>5, <3>6, <3>7 DEF SaysTruth
  <2>5. QED BY <2>3, <2>4
<1>6. QED BY <1>1, <1>2, <1>3, <1>4, <1>5 DEF Calls

LEMMA IncludeInv == ASSUME IInv, Include PROVE IInv'
<1>1. PICK m \in {mine} \cup (IF mine = "pooled" THEN {"included"} ELSE {}) :
         ChainMoves(height + 1, m) /\ late' = late /\ height < Capacity
  BY DEF Include
<1>2. m \in {"unknown", "pooled", "included", "dropped"} /\ late' \in BOOLEAN
  BY <1>1 DEF IInv, TypeOK
<1>3. height + 1 \in 0 .. Capacity
  <2>1. Capacity \in Nat
    BY Bounds
  <2>2. QED BY <1>1, <2>1 DEF IInv, TypeOK
<1>4. QED BY <1>1, <1>2, <1>3, ChainMovesInv

LEMMA DropInv == ASSUME IInv, Drop PROVE IInv'
<1>1. height \in 0 .. Capacity /\ late' \in BOOLEAN
  BY DEF IInv, TypeOK, Drop
<1>2. QED BY <1>1, ChainMovesInv DEF Drop

LEMMA ArriveLateInv == ASSUME IInv, ArriveLate PROVE IInv'
<1>1. /\ height \in 0 .. Capacity /\ late' \in BOOLEAN
      /\ Pooled \in {"unknown", "pooled", "included", "dropped"}
      /\ mine \in {"unknown", "pooled", "included", "dropped"}
  BY DEF IInv, TypeOK, ArriveLate, Pooled
<1>2. QED BY <1>1, ChainMovesInv DEF ArriveLate

\* A reply that is made in the state it speaks of.
LEMMA ServeInv == ASSUME IInv, Serve PROVE IInv'
<1>1. /\ phase = "sent" /\ phase' = "served" /\ seen \subseteq seen'
      /\ Truth(call, height, mine') \in seen'
      /\ UNCHANGED foldVars /\ faithful' = faithful /\ call' = call
      /\ height' = height /\ late' = late /\ answer' = answer
  BY DEF Serve
<1>2. /\ mine' \in {mine, Pooled}
      /\ \/ reply' \in {NoEnvelope, Envelope(TRUE, Null)}
         \/ /\ reply' = Envelope(FALSE, Result)
            /\ mine' = IF call.method = "sendTransaction" THEN Pooled ELSE mine
  BY DEF Serve
<1>3. call \in Calls
  BY <1>1 DEF IInv, Kept, Running
<1>4. FoldInv'
  BY <1>1, FoldStutters DEF IInv
<1>5. TypeOK'
  BY <1>1, <1>2 DEF IInv, TypeOK, Pooled
<1>6. Running' /\ FoldOfKnown' /\ FoldTrue'
  BY <1>1, <1>3 DEF Running, FoldOfKnown, FoldTrue
<1>7. CASE reply' \in {NoEnvelope, Envelope(TRUE, Null)}
  <2>1. ~ReadEnvelope(reply').ok
    BY <1>7 DEF ReadEnvelope, NoEnvelope, Envelope, Err
  <2>2. ReplyTyped' /\ ReplyTrue'
    BY <2>1 DEF ReplyTyped, ReplyTrue, ReadEnvelope
  <2>3. AnsweredInTime' /\ CurrentHoldsKnown'
    BY <1>1 DEF IInv, AnsweredInTime, CurrentHoldsKnown
  <2>4. QED BY <1>4, <1>5, <1>6, <2>2, <2>3 DEF IInv, Kept
<1>8. CASE /\ reply' = Envelope(FALSE, Result)
           /\ mine' = IF call.method = "sendTransaction" THEN Pooled ELSE mine
  <2>1. ReadEnvelope(reply').value = Result
    BY <1>8 DEF ReadEnvelope, Envelope, Ok
  <2>2. IF call.method = "sendTransaction" THEN TRUE \in seen'
                                           ELSE TruthNow \in seen'
    <3>1. CASE call.method = "sendTransaction"
      <4>1. mine' # "unknown"
        BY <1>8, <3>1 DEF Pooled
      <4>2. Truth(call, height, mine') = (mine' # "unknown")
        BY <3>1 DEF Truth
      <4>3. (mine' # "unknown") = TRUE
        BY <4>1
      <4>4. TRUE \in seen'
        BY <1>1, <4>2, <4>3, Zenon
      <4>5. QED BY <3>1, <4>4
    <3>2. CASE call.method # "sendTransaction"
      BY <1>1, <1>8, <3>2 DEF TruthNow
    <3>3. QED BY <3>1, <3>2
  <2>3. /\ SaysTruth(Result, seen')
        /\ (call.method = "isRootCurrent" /\ Result.is = "proof") => Foldable(Result)
    BY <1>3, <2>2, ResultTrue DEF IInv
  <2>4. ReplyTyped'
    <3> HIDE DEF Result, ReadEnvelope
    <3>1. QED BY <1>1, <2>1, <2>3 DEF ReplyTyped, ReadEnvelope, Foldable
  <2>5. ReplyTrue'
    BY <1>1, <2>1, <2>3 DEF ReplyTrue, SaysTruth, Decode, DecodeProofTuple, GivenAt,
                            ReadEnvelope
  <2>6. AnsweredInTime' /\ CurrentHoldsKnown'
    BY <1>1 DEF IInv, AnsweredInTime, CurrentHoldsKnown
  <2>7. QED BY <1>4, <1>5, <1>6, <2>4, <2>5, <2>6 DEF IInv, Kept
<1>9. QED BY <1>2, <1>7, <1>8

LEMMA ServeAnythingInv == ASSUME IInv, ServeAnything PROVE IInv'
<1>1. /\ ~faithful /\ phase = "sent" /\ phase' = "served"
      /\ UNCHANGED foldVars /\ faithful' = faithful /\ call' = call /\ seen' = seen
      /\ height' = height /\ mine' = mine /\ late' = late /\ answer' = answer
  BY DEF ServeAnything, chain
<1>2. PICK result \in AnyResult : reply' = Envelope(FALSE, result)
  BY DEF ServeAnything
<1>3. call \in Calls
  BY <1>1 DEF IInv, Kept, Running
<1>4. FoldInv'
  BY <1>1, FoldStutters DEF IInv
<1>5. TypeOK'
  BY <1>1 DEF IInv, TypeOK
<1>6. Running' /\ FoldOfKnown' /\ FoldTrue' /\ ReplyTrue'
  BY <1>1, <1>3 DEF Running, FoldOfKnown, FoldTrue, ReplyTrue
<1>7. ReplyTyped'
  <2>1. ReadEnvelope(reply').value = result
    BY <1>2 DEF ReadEnvelope, Envelope, Ok
  <2>2. ASSUME result.is = "proof" PROVE Foldable(result)
    <3>1. result \notin {Null, Junk}
      BY <2>2 DEF Null, Junk
    <3>2. PICK i \in 0 .. TwoTo[IndexBits] - 1, path \in Paths(Tree(height)) :
             result = Proof(i, path, height)
      BY <3>1 DEF AnyResult
    <3>3. TwoTo[IndexBits] \in Nat
      BY TwoToType, FoldAssumption
    <3>4. /\ result.leaf_index = i /\ result.siblings = path
          /\ result.leaves = height
      BY <3>2 DEF Proof
    <3>5. i \in Nat /\ height \in 0 .. Capacity
      BY <3>3 DEF IInv, TypeOK
    <3>6. Len(path) \in 0 .. Depth /\ path = [k \in 1 .. Len(path) |-> path[k]]
      BY <3>2, AnyPath
    <3>7. QED BY <3>4, <3>5, <3>6 DEF Foldable
  <2> HIDE DEF ReadEnvelope
  <2>3. QED BY <1>1, <2>1, <2>2 DEF ReplyTyped, ReadEnvelope, Foldable
<1>8. AnsweredInTime' /\ CurrentHoldsKnown'
  BY <1>1 DEF IInv, AnsweredInTime, CurrentHoldsKnown
<1>9. QED BY <1>4, <1>5, <1>6, <1>7, <1>8 DEF IInv, Kept

LEMMA StartInv == ASSUME IInv, NEW c \in Calls, Start(c) PROVE IInv'
<1>1. /\ call' = c /\ phase' = "sent" /\ answer' = Err("none")
      /\ UNCHANGED foldVars /\ faithful' = faithful
      /\ height' = height /\ mine' = mine /\ late' = late
  BY DEF Start, chain
<1>2. FoldInv'
  BY <1>1, FoldStutters DEF IInv
<1>3. TypeOK'
  BY <1>1 DEF IInv, TypeOK
<1>4. Kept'
  BY <1>1 DEF Kept, Running, ReplyTyped, ReplyTrue, FoldOfKnown, FoldTrue
<1>5. AnsweredInTime' /\ CurrentHoldsKnown'
  BY <1>1 DEF AnsweredInTime, CurrentHoldsKnown, Err
<1>6. QED BY <1>2, <1>3, <1>4, <1>5 DEF IInv

LEMMA TimeOutInv == ASSUME IInv, TimeOut PROVE IInv'
<1>1. /\ answer' = Err("Http") /\ phase' = "idle"
      /\ UNCHANGED foldVars /\ faithful' = faithful /\ call' = call
      /\ height' = height /\ mine' = mine /\ late' \in BOOLEAN
  BY DEF TimeOut, Return, chain, IInv, TypeOK
<1>2. FoldInv'
  BY <1>1, FoldStutters DEF IInv
<1>3. TypeOK'
  BY <1>1 DEF IInv, TypeOK
<1>4. Kept'
  BY <1>1 DEF Kept, Running, ReplyTyped, ReplyTrue, FoldOfKnown, FoldTrue
<1>5. AnsweredInTime' /\ CurrentHoldsKnown'
  BY <1>1 DEF AnsweredInTime, CurrentHoldsKnown, Err, Ok
<1>6. QED BY <1>2, <1>3, <1>4, <1>5 DEF IInv

\* The reply is read: it is an answer, or a proof that is to be folded.
LEMMA ReceiveInv == ASSUME IInv, Receive PROVE IInv'
<1> DEFINE raw == ReadEnvelope(reply)
           outcome == IF raw.ok THEN Decode(raw.value) ELSE raw
           Folds == call.method = "isRootCurrent" /\ outcome.ok /\ outcome # Ok(Null)
<1>1. /\ phase = "served" /\ faithful' = faithful /\ call' = call /\ seen' = seen
      /\ height' = height /\ mine' = mine /\ late' = late
  BY DEF Receive, chain
<1>2. call \in Calls /\ FoldInv /\ TypeOK
  BY <1>1 DEF IInv, Kept, Running
<1>3. CASE Folds
  <2> DEFINE v == raw.value
  <2>1. /\ FoldStart(Tree(outcome.value.leaves), call.known, outcome.value)
        /\ phase' = "folding" /\ answer' = answer
    BY <1>3 DEF Receive
  <2>2. raw.ok /\ v # Null /\ v.is = "proof" /\ outcome = Ok(v)
    <3>1. raw.ok
      BY <1>3 DEF ReadEnvelope, Ok, Err
    <3>2. outcome = IF v = Null THEN Ok(Null) ELSE DecodeProofTuple(v)
      BY <1>3, <3>1 DEF Decode
    <3> HIDE DEF v
    <3>3. v # Null
      BY <1>3, <3>2
    <3>4. QED BY <1>3, <3>1, <3>2, <3>3 DEF DecodeProofTuple, Ok, Err
  <2>3. outcome.value = v
    BY <2>2 DEF Ok
  <2>4. Foldable(v)
    BY <1>1, <1>3, <2>2 DEF IInv, Kept, ReplyTyped
  <2>5. call.known \in Commitments
    BY <1>2, <1>3 DEF Calls
  <2>6. /\ row' = Tree(v.leaves) /\ leaf_hash' = HashLeaf(call.known)
        /\ leaf_index' = v.leaf_index /\ siblings' = v.siblings
        /\ node' = leaf_hash' /\ idx' = leaf_index' /\ at' = 0
    <3> HIDE DEF outcome, v
    <3>1. QED BY <2>1, <2>3 DEF FoldStart
  <2>7. FoldInv'
    <3>1. HashLeaf(call.known) \in Leaf
      BY <2>5, Bounds DEF Leaf
    <3>2. Tree(v.leaves) \in Rows
      BY <2>4, TreeRows DEF Foldable
    <3> HIDE DEF v
    <3>3. QED BY <2>4, <2>6, <3>1, <3>2, FoldStartInv DEF Foldable
  <2>8. TypeOK'
    BY <1>1, <1>2, <1>3, <2>1 DEF TypeOK
  <2>9. Running' /\ ReplyTyped' /\ ReplyTrue' /\ FoldOfKnown'
    BY <1>1, <1>2, <2>1, <2>6 DEF Running, ReplyTyped, ReplyTrue, FoldOfKnown
  <2>10. FoldTrue'
    <3> SUFFICES ASSUME faithful
                 PROVE  \E n \in 0 .. Capacity :
                           row' = Tree(n) /\ GivenAt(n, leaf_index, siblings, seen)'
      BY <1>1 DEF FoldTrue
    <3>1. SaysTruth(v, seen)
      BY <1>1, <2>2 DEF IInv, Kept, ReplyTrue
    <3>2. /\ v.leaves \in 0 .. Capacity
          /\ GivenAt(v.leaves, v.leaf_index, v.siblings, seen)
      BY <1>3, <2>2, <3>1 DEF SaysTruth
    <3>3. PICK n \in 0 .. Capacity : n = v.leaves
      BY <3>2
    <3>4. GivenAt(n, leaf_index, siblings, seen)'
      BY <1>1, <2>6, <3>2, <3>3 DEF GivenAt
    <3>5. row' = Tree(n)
      BY <2>6, <3>3
    <3>6. QED BY <3>4, <3>5
  <2>11. AnsweredInTime' /\ CurrentHoldsKnown'
    BY <1>1, <2>1 DEF IInv, AnsweredInTime, CurrentHoldsKnown
  <2>12. QED BY <2>7, <2>8, <2>9, <2>10, <2>11 DEF IInv, Kept
<1>4. CASE ~Folds
  <2>1. /\ answer' = Conclude(outcome) /\ phase' = "idle" /\ UNCHANGED foldVars
    BY <1>4 DEF Receive, Return
  <2>2. FoldInv'
    BY <1>2, <2>1, FoldStutters
  <2>3. TypeOK'
    BY <1>1, <1>2, <2>1 DEF TypeOK
  <2>4. Kept'
    BY <2>1 DEF Kept, Running, ReplyTyped, ReplyTrue, FoldOfKnown, FoldTrue
  <2>5. AnsweredInTime'
    <3> SUFFICES ASSUME faithful, Conclude(outcome).ok
                 PROVE  Conclude(outcome).value \in seen
      BY <1>1, <2>1 DEF AnsweredInTime
    <3>1. CASE call.method = "isRootCurrent"
      <4>1. outcome = Ok(Null) /\ Conclude(outcome) = Ok(FALSE)
        <5> HIDE DEF outcome
        <5>1. QED BY <1>4, <3>1 DEF Conclude
      <4>2. raw.ok /\ raw.value = Null
        <5>1. raw.ok
          BY <4>1 DEF ReadEnvelope, Ok, Err
        <5>2. outcome = IF raw.value = Null THEN Ok(Null) ELSE DecodeProofTuple(raw.value)
          BY <3>1, <5>1 DEF Decode
        <5> HIDE DEF raw, outcome
        <5>3. raw.value # Null => raw.value = Null
          BY <4>1, <5>2 DEF DecodeProofTuple, Ok, Err
        <5>4. QED BY <5>1, <5>3
      <4>3. FALSE \in seen
        <5>1. SaysTruth(raw.value, seen)
          BY <1>1, <4>2 DEF IInv, Kept, ReplyTrue
        <5>2. QED BY <3>1, <4>2, <5>1 DEF SaysTruth
      <4>4. Ok(FALSE).value = FALSE
        BY DEF Ok
      <4>5. QED BY <4>1, <4>3, <4>4, Zenon
    <3>2. CASE call.method # "isRootCurrent"
      <4>1. Conclude(outcome) = outcome
        BY <3>2 DEF Conclude
      <4>2. raw.ok /\ outcome = Decode(raw.value)
        <5>1. raw.ok
          <6>1. outcome.ok
            BY <4>1
          <6>2. QED BY <6>1 DEF ReadEnvelope, Ok, Err
        <5>2. QED BY <5>1
      <4>3. SaysTruth(raw.value, seen)
        BY <1>1, <4>2 DEF IInv, Kept, ReplyTrue
      <4> HIDE DEF raw, outcome
      <4>4. QED BY <3>2, <4>1, <4>2, <4>3 DEF SaysTruth
    <3>3. QED BY <3>1, <3>2
  <2>6. CurrentHoldsKnown'
    <3> SUFFICES ASSUME call.method = "isRootCurrent", Conclude(outcome) = Ok(TRUE)
                 PROVE  FALSE
      BY <1>1, <2>1 DEF CurrentHoldsKnown
    <3> HIDE DEF outcome
    <3>1. CASE outcome = Ok(Null)
      BY <3>1 DEF Conclude, Ok
    <3>2. CASE outcome # Ok(Null)
      <4>1. Conclude(outcome) = outcome /\ ~outcome.ok
        BY <1>4, <3>2 DEF Conclude
      <4>2. QED BY <4>1 DEF Ok
    <3>3. QED BY <3>1, <3>2
  <2>7. QED BY <2>2, <2>3, <2>4, <2>5, <2>6 DEF IInv
<1>5. QED BY <1>3, <1>4

LEMMA FoldTurnInv == ASSUME IInv, FoldTurn PROVE IInv'
<1>1. /\ phase = "folding" /\ FoldNext
      /\ row' = row /\ leaf_hash' = leaf_hash /\ leaf_index' = leaf_index
      /\ siblings' = siblings
      /\ faithful' = faithful /\ call' = call /\ seen' = seen /\ phase' = phase
      /\ height' = height /\ mine' = mine /\ late' = late /\ answer' = answer
  BY DEF FoldTurn, FoldNext, args, chain
<1>2. FoldInv'
  BY <1>1, FoldNextInv DEF IInv
<1>3. TypeOK'
  BY <1>1 DEF IInv, TypeOK
<1>4. Running' /\ ReplyTyped' /\ ReplyTrue' /\ FoldOfKnown'
  BY <1>1 DEF IInv, Kept, Running, ReplyTyped, ReplyTrue, FoldOfKnown
<1>5. FoldTrue'
  BY <1>1 DEF IInv, Kept, FoldTrue, GivenAt
<1>6. AnsweredInTime' /\ CurrentHoldsKnown'
  BY <1>1 DEF IInv, AnsweredInTime, CurrentHoldsKnown
<1>7. QED BY <1>2, <1>3, <1>4, <1>5, <1>6 DEF IInv, Kept

\* A faithful proof folds to the root of the tree it is of.
LEMMA HonestRoot ==
    ASSUME FoldInv, Finished, NEW k \in Commitments, NEW n \in 0 .. Capacity, k <= n,
           row = Tree(n), leaf_hash = HashLeaf(k), leaf_index = k - 1,
           siblings = ProofAt(Tree(n), k - 1)
    PROVE  node = RootOf(Tree(n))
<1>1. k - 1 \in Positions /\ k - 1 \in Nat /\ (k - 1) + 1 = k /\ k - 1 < n
  BY Bounds
<1>2. PositionOf(leaf_index) = k - 1
  <2>1. Capacity \in Nat /\ k - 1 < Capacity
    BY <1>1, Bounds DEF Positions
  <2>2. \A a, c \in Nat : a < c => a % c = a
    OBVIOUS
  <2>3. QED BY <1>1, <2>1, <2>2 DEF PositionOf, Capacity
<1>3. HonestPath
  <2>1. Tree(n)[k - 1] = HashLeaf(k)
    BY <1>1, TreeRows
  <2>2. QED BY <1>2, <2>1 DEF HonestPath
<1>4. at = Depth
  BY OwnPath DEF Finished
<1>5. (k - 1) \div TwoTo[Depth] = 0
  <2>1. Capacity \in Nat /\ k - 1 < Capacity
    BY <1>1, Bounds DEF Positions
  <2>2. \A a, c \in Nat : a < c => a \div c = 0
    OBVIOUS
  <2>3. QED BY <1>1, <2>1, <2>2 DEF Capacity
<1>6. QED BY <1>2, <1>3, <1>4, <1>5 DEF FoldInv, OnTheWay, RootOf

LEMMA CompareInv == ASSUME IInv, Compare PROVE IInv'
<1>1. /\ phase = "folding" /\ Finished /\ FoldEnd /\ phase' = "idle"
      /\ answer' = Ok(node = RootOf(Tree(call.claimed)))
      /\ faithful' = faithful /\ call' = call /\ seen' = seen
      /\ height' = height /\ mine' = mine /\ late' = late
  BY DEF Compare, Return, chain
<1>2. call \in Calls /\ FoldInv /\ TypeOK /\ call.method = "isRootCurrent"
  BY <1>1 DEF IInv, Kept, Running, TypeOK
<1>3. call.known \in Commitments /\ call.claimed \in 0 .. Capacity
  BY <1>2 DEF Calls
<1>4. FoldInv'
  BY <1>1, FoldEndInv
<1>5. TypeOK'
  BY <1>1, <1>2 DEF TypeOK
<1>6. Kept'
  BY <1>1 DEF Kept, Running, ReplyTyped, ReplyTrue, FoldOfKnown, FoldTrue
<1>7. AnsweredInTime'
  <2> SUFFICES ASSUME faithful PROVE (node = RootOf(Tree(call.claimed))) \in seen
    BY <1>1 DEF AnsweredInTime, Ok
  <2>1. PICK n \in 0 .. Capacity :
           row = Tree(n) /\ GivenAt(n, leaf_index, siblings, seen)
    BY <1>1 DEF IInv, Kept, FoldTrue
  <2>2. leaf_hash = HashLeaf(call.known)
    BY <1>1 DEF IInv, Kept, FoldOfKnown
  <2>3. node = RootOf(Tree(n))
    BY <1>1, <1>2, <1>3, <2>1, <2>2, HonestRoot DEF GivenAt
  <2>4. node = RootOf(Tree(call.claimed)) <=> call.claimed = n
    BY <1>3, <2>3, TreesDiffer
  <2>5. (node = RootOf(Tree(call.claimed))) = (call.claimed = n)
    BY <2>4
  <2>6. (call.claimed = n) \in seen
    BY <2>1 DEF GivenAt
  <2>7. QED BY <2>5, <2>6, Zenon
<1>8. CurrentHoldsKnown'
  <2> SUFFICES ASSUME node = RootOf(Tree(call.claimed))
               PROVE  call.known <= call.claimed
    BY <1>1 DEF CurrentHoldsKnown, Ok
  <2> DEFINE position == PositionOf(leaf_index)
  <2>1. Tree(call.claimed) \in Rows
    BY <1>3, TreeRows
  <2>2. leaf_hash = Tree(call.claimed)[position] /\ position \in Positions
    BY <1>1, <1>2, <2>1, AtTheRoot
  <2>3. leaf_hash = HashLeaf(call.known)
    BY <1>1 DEF IInv, Kept, FoldOfKnown
  <2> HIDE DEF position
  <2>4. HashLeaf(call.known) =
          IF position < call.claimed THEN HashLeaf(position + 1) ELSE EmptyLeaf
    BY <1>3, <2>2, <2>3, TreeRows
  <2>5. position < call.claimed /\ call.known = position + 1
    BY <2>4, Hashes
  <2>6. position \in Nat /\ call.claimed \in Nat
    <3>1. Capacity \in Nat
      BY Bounds
    <3>2. QED BY <1>3, <2>2, <3>1 DEF Positions
  <2>7. QED BY <2>5, <2>6
<1>9. QED BY <1>4, <1>5, <1>6, <1>7, <1>8 DEF IInv

-----------------------------------------------------------------------------
(* The theorems.                                                           *)

LEMMA InitInv == ASSUME Init PROVE IInv
<1>1. FoldInv
  BY FoldInitInv DEF Init
<1>2. TypeOK
  BY DEF Init, TypeOK
<1>3. Kept
  BY DEF Init, Kept, Running, ReplyTyped, ReplyTrue, FoldOfKnown, FoldTrue
<1>4. AnsweredInTime /\ CurrentHoldsKnown
  BY DEF Init, AnsweredInTime, CurrentHoldsKnown, Err, NoCall
<1>5. QED BY <1>1, <1>2, <1>3, <1>4 DEF IInv

LEMMA StutterInv == ASSUME IInv, UNCHANGED vars PROVE IInv'
<1>1. /\ UNCHANGED foldVars
      /\ row' = row /\ leaf_hash' = leaf_hash /\ leaf_index' = leaf_index
      /\ siblings' = siblings
      /\ faithful' = faithful /\ call' = call /\ seen' = seen /\ phase' = phase
      /\ height' = height /\ mine' = mine /\ late' = late /\ answer' = answer
      /\ reply' = reply
  BY DEF vars, chain, foldVars, args
<1>2. FoldInv'
  BY <1>1, FoldStutters DEF IInv
<1>3. TypeOK'
  BY <1>1 DEF IInv, TypeOK
<1>4. Kept'
  <2>1. Running' /\ ReplyTyped' /\ FoldOfKnown'
    BY <1>1 DEF IInv, Kept, Running, ReplyTyped, FoldOfKnown, Foldable, ReadEnvelope
  <2>2. ReplyTrue'
    BY <1>1, ReplyTrueStays DEF IInv, Kept
  <2>3. FoldTrue'
    BY <1>1 DEF IInv, Kept, FoldTrue, GivenAt
  <2>4. QED BY <2>1, <2>2, <2>3 DEF Kept
<1>5. AnsweredInTime' /\ CurrentHoldsKnown'
  BY <1>1 DEF IInv, AnsweredInTime, CurrentHoldsKnown
<1>6. QED BY <1>2, <1>3, <1>4, <1>5 DEF IInv

\* Every action of the sequencer, the chain and the client keeps the invariant.
THEOREM Invariance == Spec => []IInv
<1>1. Init => IInv
  BY InitInv
<1>2. IInv /\ [Next]_vars => IInv'
  <2> SUFFICES ASSUME IInv, [Next]_vars PROVE IInv'
    OBVIOUS
  <2>1. CASE Include
    BY <2>1, IncludeInv
  <2>2. CASE Drop
    BY <2>2, DropInv
  <2>3. CASE ArriveLate
    BY <2>3, ArriveLateInv
  <2>4. CASE Serve
    BY <2>4, ServeInv
  <2>5. CASE ServeAnything
    BY <2>5, ServeAnythingInv
  <2>6. CASE \E c \in Calls : Start(c)
    BY <2>6, StartInv
  <2>7. CASE TimeOut
    BY <2>7, TimeOutInv
  <2>8. CASE Receive
    BY <2>8, ReceiveInv
  <2>9. CASE FoldTurn
    BY <2>9, FoldTurnInv
  <2>10. CASE Compare
    BY <2>10, CompareInv
  <2>11. CASE UNCHANGED vars
    BY <2>11, StutterInv
  <2>12. QED BY <2>1, <2>2, <2>3, <2>4, <2>5, <2>6, <2>7, <2>8, <2>9, <2>10, <2>11
             DEF Next
<1>3. QED BY <1>1, <1>2, PTL DEF Spec

\* An answer that is not an error was true at some moment of the call: in
\* particular is_root_current says yes only of a root that was current then, and no
\* only when some other root was.
THEOREM AnswersAreTrue == Spec => []ClientInv
<1>1. IInv => ClientInv
  BY DEF IInv, ClientInv
<1>2. QED BY <1>1, Invariance, PTL

\* Whatever a peer sends, is_root_current says yes of a root only with a path from
\* the caller's own commitment up to it.
THEOREM YesNeedsAPath == Spec => []CurrentHoldsKnown
<1>1. IInv => CurrentHoldsKnown
  BY DEF IInv
<1>2. QED BY <1>1, Invariance, PTL

\* fold_merkle_path ends in the root of a tree only from the leaf at the position
\* the index names and past that leaf's own siblings.
THEOREM FoldIsSound == Spec => []FoldSound
<1>1. IInv => FoldSound
  BY SoundFold DEF IInv
<1>2. QED BY <1>1, Invariance, PTL

\* On the path the sequencer gives for a leaf, the loop holds the tree's node at
\* every height: the last one is the root.
THEOREM FoldStaysOnTheWay == Spec => []OnTheWay
<1>1. IInv => OnTheWay
  BY DEF IInv, FoldInv
<1>2. QED BY <1>1, Invariance, PTL

-----------------------------------------------------------------------------
(* Folds over a sequence.                                                  *)

\* What takes a value and a position to the next value.
Steps(V, n) == [V \X (1 .. n) -> V]

\* A fold over sets of positions, the last position of each first.
Turn(it, base, step, s) == IF s = {} THEN base ELSE step[<<it[s \ {Max(s)}], Max(s)>>]

IsFold(it, V, n, base, step) ==
    /\ it \in [SUBSET (1 .. n) -> V]
    /\ \A s \in SUBSET (1 .. n) : it[s] = Turn(it, base, step, s)

\* What folds as long as its values are of the kind that the step is for.
FoldsOn(it, V, n, base, step) ==
    \A s \in SUBSET (1 .. n) :
        (s = {} \/ it[s \ {Max(s)}] \in V) => it[s] = Turn(it, base, step, s)

\* The values of a fold, position by position.
IsRun(run, V, n, base, step) ==
    /\ run \in [0 .. n -> V]
    /\ run[0] = base
    /\ \A k \in 1 .. n : run[k] = step[<<run[k - 1], k>>]

LEMMA GreatestOf ==
    ASSUME NEW n \in Nat, NEW s \in SUBSET (1 .. n), n \in s
    PROVE  Max(s) = n
<1>1. \A y \in s : n >= y
  OBVIOUS
<1>2. ASSUME NEW x \in s, \A y \in s : x >= y PROVE x = n
  <2>1. x >= n /\ n >= x /\ x \in Nat
    BY <1>1, <1>2
  <2>2. QED BY <2>1
<1>3. Max(s) \in s /\ \A y \in s : Max(s) >= y
  BY <1>1 DEF Max
<1>4. QED BY <1>2, <1>3

\* What a fold over a sequence of n elements is defined by exists: one function on
\* the sets of positions, built position by position.
LEMMA Recursion ==
    ASSUME NEW n \in Nat, NEW V, NEW base \in V, NEW step \in Steps(V, n)
    PROVE  \E it : IsFold(it, V, n, base, step)
<1> DEFINE Value(it, s) == IF s = {} THEN base ELSE step[<<it[s \ {Max(s)}], Max(s)>>]
           Folds(m, it) == /\ it \in [SUBSET (1 .. m) -> V]
                           /\ \A s \in SUBSET (1 .. m) : it[s] = Value(it, s)
           T == {m \in Nat : \E it : Folds(m, it)}
<1>0. step \in [V \X (1 .. n) -> V]
  BY DEF Steps
<1>1. 0 \in T
  <2>1. Folds(0, [s \in SUBSET (1 .. 0) |-> base])
    OBVIOUS
  <2> HIDE DEF Folds
  <2>2. QED BY <2>1
<1>2. ASSUME NEW m \in 0 .. n, m \in T, m + 1 \in 0 .. n PROVE m + 1 \in T
  <2>1. PICK f : Folds(m, f)
    BY <1>2
  <2>2. m \in Nat /\ m + 1 \in 1 .. n /\ 1 .. m \subseteq 1 .. m + 1
    BY <1>2
  <2> DEFINE g == [s \in SUBSET (1 .. m + 1) |->
                      IF m + 1 \in s THEN step[<<f[s \ {m + 1}], m + 1>>] ELSE f[s]]
  <2>3. ASSUME NEW s \in SUBSET (1 .. m + 1) PROVE g[s] \in V /\ g[s] = Value(g, s)
    <3>1. CASE m + 1 \in s
      <4>1. s \ {m + 1} \in SUBSET (1 .. m) /\ s \ {m + 1} \in SUBSET (1 .. m + 1)
        BY <2>2
      <4>2. f[s \ {m + 1}] \in V /\ g[s \ {m + 1}] = f[s \ {m + 1}]
        BY <2>1, <4>1
      <4>3. Max(s) = m + 1
        BY <2>2, <3>1, GreatestOf
      <4>4. g[s] = step[<<f[s \ {m + 1}], m + 1>>] /\ s # {}
        BY <3>1
      <4>5. g[s] \in V
        BY <1>0, <2>2, <4>2, <4>4
      <4> HIDE DEF g
      <4>6. QED BY <4>2, <4>3, <4>4, <4>5
    <3>2. CASE m + 1 \notin s
      <4>1. s \in SUBSET (1 .. m) /\ s \ {Max(s)} \in SUBSET (1 .. m)
        <5>1. \A x \in 1 .. m + 1 : x # m + 1 => x \in 1 .. m
          BY <2>2
        <5>2. \A x \in s : x \in 1 .. m + 1 /\ x # m + 1
          BY <3>2
        <5>3. QED BY <5>1, <5>2
      <4>2. f[s] \in V /\ f[s] = Value(f, s)
        BY <2>1, <4>1
      <4>3. g[s] = f[s] /\ g[s \ {Max(s)}] = f[s \ {Max(s)}]
        <5>1. m + 1 \notin s \ {Max(s)}
          BY <3>2
        <5>2. s \ {Max(s)} \in SUBSET (1 .. m + 1)
          OBVIOUS
        <5>3. QED BY <3>2, <5>1, <5>2
      <4> HIDE DEF g
      <4>4. QED BY <4>2, <4>3
    <3>3. QED BY <3>1, <3>2
  <2>4. g \in [SUBSET (1 .. m + 1) -> V]
    BY <2>3
  <2>5. Folds(m + 1, g)
    BY <2>3, <2>4
  <2>6. \E it : Folds(m + 1, it)
    <3> HIDE DEF Folds, g
    <3>1. QED BY <2>5
  <2> HIDE DEF Folds
  <2>7. QED BY <2>2, <2>6
<1>3. n \in T
  <2> HIDE DEF T
  <2>1. 0 .. n \subseteq T
    BY <1>1, <1>2, UpTo
  <2>2. n \in 0 .. n
    OBVIOUS
  <2>3. QED BY <2>1, <2>2
<1>4. PICK it : Folds(n, it)
  BY <1>3
<1>5. IsFold(it, V, n, base, step)
  BY <1>4 DEF IsFold, Turn
<1>6. QED BY <1>5

\* From all positions up to k, a fold goes on to those up to k - 1.
LEMMA Before ==
    ASSUME NEW n \in Nat, NEW k \in 1 .. n
    PROVE  /\ 1 .. k \in SUBSET (1 .. n)
           /\ 1 .. k # {}
           /\ Max(1 .. k) = k
           /\ (1 .. k) \ {k} = 1 .. k - 1
<1>1. 1 .. k \in SUBSET (1 .. k) /\ k \in 1 .. k /\ k \in Nat
  OBVIOUS
<1>2. Max(1 .. k) = k
  BY <1>1, GreatestOf
<1>3. QED BY <1>1, <1>2

LEMMA GreatestIn ==
    ASSUME NEW n \in Nat, NEW s \in SUBSET (1 .. n), s # {}
    PROVE  Max(s) \in 1 .. n /\ Max(s) \in s
<1> DEFINE Short == {k \in Nat : \E x \in s : k = n - x}
<1>1. \A x \in s : x \in Nat /\ x <= n /\ n - x \in Nat
  OBVIOUS
<1>2. Short # {}
  BY <1>1
<1>3. PICK k \in Short : \A j \in Short : ~(j < k)
  <2> HIDE DEF Short
  <2>1. Short \in SUBSET Nat
    BY DEF Short
  <2>2. QED BY <1>2, <2>1, LeastNumber
<1>4. PICK x \in s : k = n - x
  BY <1>3
<1>5. ASSUME NEW y \in s PROVE x >= y
  <2>1. n - y \in Short
    BY <1>1
  <2>2. ~(n - y < n - x) /\ n - y \in Nat /\ n - x \in Nat /\ x \in Nat /\ y \in Nat
    BY <1>1, <1>3, <1>4, <2>1
  <2>3. QED BY <2>2
<1>6. Max(s) \in s
  BY <1>4, <1>5 DEF Max
<1>7. QED BY <1>6

\* What a fold is, position by position.
LEMMA RunOf ==
    ASSUME NEW n \in Nat, NEW V, NEW base \in V, NEW step \in Steps(V, n),
           NEW It, FoldsOn(It, V, n, base, step)
    PROVE  \E run : IsRun(run, V, n, base, step) /\ It[1 .. n] = run[n]
<1> DEFINE run == [k \in 0 .. n |-> It[1 .. k]]
           T == {k \in Nat : It[1 .. k] \in V}
<1>0. {} \in SUBSET (1 .. n) /\ 1 .. 0 = {}
  OBVIOUS
<1>1. 1 .. 0 = {} /\ It[{}] = base
  BY <1>0 DEF FoldsOn, Turn
<1>2. ASSUME NEW k \in 1 .. n, It[1 .. k - 1] \in V
      PROVE  It[1 .. k] = step[<<It[1 .. k - 1], k>>] /\ It[1 .. k] \in V
  <2>1. /\ 1 .. k \in SUBSET (1 .. n)
        /\ 1 .. k # {}
        /\ Max(1 .. k) = k
        /\ (1 .. k) \ {k} = 1 .. k - 1
    BY Before
  <2>2. It[1 .. k] = step[<<It[1 .. k - 1], k>>]
    BY <1>2, <2>1 DEF FoldsOn, Turn
  <2>3. <<It[1 .. k - 1], k>> \in V \X (1 .. n)
    BY <1>2
  <2>4. QED BY <2>2, <2>3 DEF Steps
<1>3. 0 \in T
  BY <1>1
<1>4. ASSUME NEW k \in 0 .. n, k \in T, k + 1 \in 0 .. n PROVE k + 1 \in T
  <2>1. k + 1 \in 1 .. n /\ (k + 1) - 1 = k /\ k + 1 \in Nat
    BY <1>4
  <2>2. It[1 .. (k + 1) - 1] \in V
    BY <1>4, <2>1
  <2>3. It[1 .. k + 1] \in V
    BY <1>2, <2>1, <2>2
  <2>4. QED BY <2>1, <2>3
<1>5. \A k \in 0 .. n : It[1 .. k] \in V
  <2> HIDE DEF T
  <2>1. 0 .. n \subseteq T
    BY <1>3, <1>4, UpTo
  <2>2. QED BY <2>1 DEF T
<1>6. run \in [0 .. n -> V] /\ run[0] = base /\ It[1 .. n] = run[n]
  BY <1>1, <1>5
<1>7. ASSUME NEW k \in 1 .. n PROVE run[k] = step[<<run[k - 1], k>>]
  <2>1. k \in 0 .. n /\ k - 1 \in 0 .. n
    OBVIOUS
  <2>2. It[1 .. k] = step[<<It[1 .. k - 1], k>>]
    BY <1>2, <1>5, <2>1
  <2>3. QED BY <2>1, <2>2
<1> HIDE DEF run
<1>8. IsRun(run, V, n, base, step) /\ It[1 .. n] = run[n]
  BY <1>6, <1>7 DEF IsRun
<1>9. QED BY <1>8

-----------------------------------------------------------------------------
(* The base58 of an account id.                                            *)

\* The number of a sequence of digits comes about one digit at a time.
LEMMA Horner ==
    ASSUME NEW digits \in Seq(Nat), NEW base \in Nat
    PROVE  \E run \in [0 .. Len(digits) -> Nat] :
              /\ run[0] = 0
              /\ \A k \in 1 .. Len(digits) : run[k] = run[k - 1] * base + digits[k]
              /\ NumberOf(digits, base) = run[Len(digits)]
<1> DEFINE n == Len(digits)
           Step(it, s) == it[s \ {Max(s)}] * base + digits[Max(s)]
           Folds(it) == it = [s \in SUBSET DOMAIN digits |-> IF s = {} THEN 0 ELSE Step(it, s)]
           It == CHOOSE it : Folds(it)
           step == [p \in Nat \X (1 .. n) |-> p[1] * base + digits[p[2]]]
<1>1. n \in Nat /\ DOMAIN digits = 1 .. n /\ \A k \in 1 .. n : digits[k] \in Nat
  OBVIOUS
<1>2. NumberOf(digits, base) = It[1 .. n]
  BY <1>1 DEF NumberOf, FoldLeft, MapThenFoldSet
<1> HIDE DEF n
<1>3. step \in [Nat \X (1 .. n) -> Nat]
  <2>1. \A v, d \in Nat : v * base + d \in Nat
    OBVIOUS
  <2>2. QED BY <1>1, <2>1
<1>4. \A v \in Nat, k \in 1 .. n : step[<<v, k>>] = v * base + digits[k]
  OBVIOUS
<1> HIDE DEF step
<1> DEFINE V == Nat
           zero == 0
<1>5. zero \in V /\ step \in Steps(V, n)
  BY <1>3 DEF Steps
<1>6. PICK it : IsFold(it, V, n, zero, step)
  <2> HIDE DEF V, zero
  <2>1. QED BY <1>1, <1>5, Recursion
<1>7. Folds(it)
  <2>1. ASSUME NEW s \in SUBSET (1 .. n), s # {} PROVE it[s] = Step(it, s)
    <3>1. Max(s) \in 1 .. n /\ it[s \ {Max(s)}] \in Nat
      BY <1>1, <1>6, <2>1, GreatestIn DEF IsFold
    <3>2. it[s] = step[<<it[s \ {Max(s)}], Max(s)>>]
      BY <1>6, <2>1 DEF IsFold, Turn
    <3>3. QED BY <1>4, <3>1, <3>2
  <2>2. {} \in SUBSET (1 .. n) /\ it[{}] = 0 /\ it \in [SUBSET (1 .. n) -> Nat]
    BY <1>6 DEF IsFold, Turn
  <2> HIDE DEF Step, zero, V
  <2>3. QED BY <1>1, <2>1, <2>2
<1>8. Folds(It)
  <2> HIDE DEF Folds
  <2>1. QED BY <1>7
<1> HIDE DEF It
<1>9. FoldsOn(It, V, n, zero, step)
  <2>1. It[{}] = 0
    <3> HIDE DEF Step
    <3>1. {} \in SUBSET DOMAIN digits
      OBVIOUS
    <3>2. QED BY <1>8, <3>1
  <2>2. ASSUME NEW s \in SUBSET (1 .. n), s # {}, It[s \ {Max(s)}] \in Nat
        PROVE  It[s] = step[<<It[s \ {Max(s)}], Max(s)>>]
    <3>1. Max(s) \in 1 .. n
      BY <1>1, <2>2, GreatestIn
    <3>2. It[s] = Step(It, s)
      <4> HIDE DEF Step
      <4>1. QED BY <1>1, <1>8, <2>2
    <3>3. QED BY <1>4, <2>2, <3>1, <3>2
  <2>3. QED BY <2>1, <2>2 DEF FoldsOn, Turn
<1> HIDE DEF Folds
<1>10. PICK run : IsRun(run, V, n, zero, step) /\ It[1 .. n] = run[n]
  <2> HIDE DEF V, zero
  <2>1. QED BY <1>1, <1>5, <1>9, RunOf
<1>11. /\ run \in [0 .. n -> Nat]
       /\ run[0] = 0
       /\ \A k \in 1 .. n : run[k] = step[<<run[k - 1], k>>]
  BY <1>10 DEF IsRun
<1>12. ASSUME NEW k \in 1 .. n PROVE run[k] = run[k - 1] * base + digits[k]
  <2>1. k - 1 \in 0 .. n /\ run[k - 1] \in Nat
    BY <1>1, <1>11
  <2>2. QED BY <1>4, <1>11, <2>1
<1>13. QED BY <1>2, <1>10, <1>11, <1>12 DEF n

LEMMA ElementsOf ==
    ASSUME NEW S, NEW s \in Seq(S)
    PROVE  /\ Len(s) \in Nat
           /\ DOMAIN s = 1 .. Len(s)
           /\ \A k \in 1 .. Len(s) : s[k] \in S
  OBVIOUS

LEMMA DigitsAreNumbers ==
    ASSUME NEW s \in Seq(0 .. 57)
    PROVE  \A k \in 1 .. Len(s) : s[k] \in Nat
<1>1. s \in Seq(Nat)
  <2>1. 0 .. 57 \subseteq Nat
    OBVIOUS
  <2>2. QED BY <2>1, SeqMonotonic, Zenon
<1>2. QED BY <1>1, ElementsOf

\* The digits after a byte is shifted in come about one digit at a time.
DigitStep(s, d) == [carry |-> (s.carry + d * 256) \div 58,
                    low |-> Append(s.low, (s.carry + d * 256) % 58)]

LEMMA DigitType ==
    ASSUME NEW s \in [carry : Byte, low : Seq(0 .. 57)], NEW d \in 0 .. 57
    PROVE  DigitStep(s, d) \in [carry : Byte, low : Seq(0 .. 57)]
<1>1. \A c \in Byte : /\ c + d * 256 \in 0 .. 14847
                      /\ (c + d * 256) \div 58 \in Byte
                      /\ (c + d * 256) % 58 \in 0 .. 57
  BY DEF Byte
<1>2. QED BY <1>1 DEF DigitStep

LEMMA Carries ==
    ASSUME NEW digits \in Seq(0 .. 57), NEW byte \in Byte
    PROVE  \E run \in [0 .. Len(digits) -> [carry : Byte, low : Seq(0 .. 57)]] :
              /\ run[0] = [carry |-> byte, low |-> <<>>]
              /\ \A k \in 1 .. Len(digits) : run[k] = DigitStep(run[k - 1], digits[k])
              /\ ShiftIn(digits, byte) = run[Len(digits)].low \o Pushed[run[Len(digits)].carry]
<1> DEFINE n == Len(digits)
           V == [carry : Byte, low : Seq(0 .. 57)]
           start == [carry |-> byte, low |-> <<>>]
           Step(it, s) == DigitStep(it[s \ {Max(s)}], digits[Max(s)])
           Folds(it) == it = [s \in SUBSET DOMAIN digits |-> IF s = {} THEN start ELSE Step(it, s)]
           It == CHOOSE it : Folds(it)
           step == [p \in V \X (1 .. n) |-> DigitStep(p[1], digits[p[2]])]
<1>1. n \in Nat /\ DOMAIN digits = 1 .. n /\ \A k \in 1 .. n : digits[k] \in 0 .. 57
  BY ElementsOf
<1>2. ShiftIn(digits, byte) = It[1 .. n].low \o Pushed[It[1 .. n].carry]
  BY <1>1 DEF ShiftIn, FoldLeft, MapThenFoldSet, DigitStep
<1> HIDE DEF n
<1>3. step \in [V \X (1 .. n) -> V]
  BY <1>1, DigitType
<1>4. \A v \in V, k \in 1 .. n : step[<<v, k>>] = DigitStep(v, digits[k])
  OBVIOUS
<1> HIDE DEF step
<1>5. start \in V /\ step \in Steps(V, n)
  BY <1>3 DEF Steps
<1> HIDE DEF V, start
<1>6. PICK it : IsFold(it, V, n, start, step)
  BY <1>1, <1>5, Recursion
<1>7. Folds(it)
  <2>1. ASSUME NEW s \in SUBSET (1 .. n), s # {} PROVE it[s] = Step(it, s)
    <3>1. Max(s) \in 1 .. n /\ it[s \ {Max(s)}] \in V
      BY <1>1, <1>6, <2>1, GreatestIn DEF IsFold
    <3>2. it[s] = step[<<it[s \ {Max(s)}], Max(s)>>]
      BY <1>6, <2>1 DEF IsFold, Turn
    <3>3. QED BY <1>4, <3>1, <3>2
  <2>2. {} \in SUBSET (1 .. n) /\ it[{}] = start /\ it \in [SUBSET (1 .. n) -> V]
    BY <1>6 DEF IsFold, Turn
  <2> HIDE DEF Step
  <2>3. QED BY <1>1, <2>1, <2>2
<1>8. Folds(It)
  <2> HIDE DEF Folds
  <2>1. QED BY <1>7
<1> HIDE DEF It
<1>9. FoldsOn(It, V, n, start, step)
  <2>1. It[{}] = start
    <3> HIDE DEF Step
    <3>1. {} \in SUBSET DOMAIN digits
      OBVIOUS
    <3>2. QED BY <1>8, <3>1
  <2>2. ASSUME NEW s \in SUBSET (1 .. n), s # {}, It[s \ {Max(s)}] \in V
        PROVE  It[s] = step[<<It[s \ {Max(s)}], Max(s)>>]
    <3>1. Max(s) \in 1 .. n
      BY <1>1, <2>2, GreatestIn
    <3>2. It[s] = Step(It, s)
      <4> HIDE DEF Step
      <4>1. QED BY <1>1, <1>8, <2>2
    <3>3. QED BY <1>4, <2>2, <3>1, <3>2
  <2>3. QED BY <2>1, <2>2 DEF FoldsOn, Turn
<1> HIDE DEF Folds
<1>10. PICK run : IsRun(run, V, n, start, step) /\ It[1 .. n] = run[n]
  BY <1>1, <1>5, <1>9, RunOf
<1>11. /\ run \in [0 .. n -> V]
       /\ run[0] = start
       /\ \A k \in 1 .. n : run[k] = step[<<run[k - 1], k>>]
  BY <1>10 DEF IsRun
<1>12. ASSUME NEW k \in 1 .. n PROVE run[k] = DigitStep(run[k - 1], digits[k])
  <2>1. k - 1 \in 0 .. n /\ run[k - 1] \in V
    BY <1>1, <1>11
  <2>2. QED BY <1>4, <1>11, <2>1
<1>13. ShiftIn(digits, byte) = run[n].low \o Pushed[run[n].carry]
  BY <1>2, <1>10
<1>14. QED BY <1>11, <1>12, <1>13 DEF n, V, start

LEMMA PairOf ==
    ASSUME NEW a \in Nat, NEW b \in Nat
    PROVE  <<a>> \o <<b>> = <<a, b>>
<1>1. /\ <<a>> \o <<b>> \in Seq(Nat) /\ <<a, b>> \in Seq(Nat)
      /\ Len(<<a>> \o <<b>>) = 2 /\ Len(<<a, b>>) = 2
  OBVIOUS
<1>2. \A i \in 1 .. 2 : (<<a>> \o <<b>>)[i] = <<a, b>>[i]
  OBVIOUS
<1>3. QED BY <1>1, <1>2, SeqEqual

\* A carry is written as no digit, one or two, the last of them not zero.
LEMMA PushedIs ==
    /\ Pushed[0] = <<>>
    /\ \A c \in 1 .. 57 : Pushed[c] = <<c>>
    /\ \A c \in 58 .. 255 : Pushed[c] = <<c % 58, c \div 58>>
<1> DEFINE h == [c \in Byte |-> IF c = 0 THEN <<>>
                                ELSE IF c < 58 THEN <<c>> ELSE <<c % 58, c \div 58>>]
           Is(f) == f = [carry \in Byte |->
                            IF carry = 0 THEN <<>> ELSE <<carry % 58>> \o f[carry \div 58]]
<1>1. \A c \in Byte : /\ c \in Nat /\ c \div 58 \in Byte /\ c \div 58 < 58
                      /\ c < 58 => c \div 58 = 0 /\ c % 58 = c
                      /\ c >= 58 => c \div 58 # 0
  BY DEF Byte
<1>2. ASSUME NEW c \in Byte, c # 0 PROVE h[c] = <<c % 58>> \o h[c \div 58]
  <2>1. CASE c < 58
    <3>1. h[c] = <<c>> /\ h[c \div 58] = <<>> /\ c % 58 = c
      BY <1>1, <1>2, <2>1
    <3>2. <<c>> \o <<>> = <<c>>
      OBVIOUS
    <3> HIDE DEF h
    <3>3. QED BY <3>1, <3>2
  <2>2. CASE c >= 58
    <3>1. h[c] = <<c % 58, c \div 58>> /\ h[c \div 58] = <<c \div 58>>
      BY <1>1, <1>2, <2>2
    <3>2. <<c % 58>> \o <<c \div 58>> = <<c % 58, c \div 58>>
      <4>1. c % 58 \in Nat /\ c \div 58 \in Nat
        BY DEF Byte
      <4>2. QED BY <4>1, PairOf
    <3> HIDE DEF h
    <3>3. QED BY <3>1, <3>2
  <2>3. QED BY <1>1, <2>1, <2>2
<1>3. Is(h)
  <2>1. h[0] = <<>> /\ 0 \in Byte
    BY DEF Byte
  <2>2. h = [c \in Byte |-> h[c]]
    OBVIOUS
  <2> HIDE DEF h
  <2>3. QED BY <1>2, <2>1, <2>2
<1>4. Is(Pushed)
  <2>1. \E f : Is(f)
    <3> HIDE DEF Is, h
    <3>1. QED BY <1>3
  <2>2. Pushed = CHOOSE f : Is(f)
    BY DEF Pushed
  <2> HIDE DEF Is
  <2>3. QED BY <2>1, <2>2
<1>5. /\ 0 \in Byte => Pushed[0] = <<>>
      /\ \A c \in Byte : c # 0 => Pushed[c] = <<c % 58>> \o Pushed[c \div 58]
  BY <1>4
<1>6. ASSUME NEW c \in Byte, c # 0, c < 58 PROVE Pushed[c] = <<c>>
  <2>1. c \div 58 = 0 /\ c % 58 = c /\ 0 \in Byte
    BY <1>1, <1>6 DEF Byte
  <2>2. Pushed[c] = <<c % 58>> \o Pushed[c \div 58] /\ Pushed[0] = <<>>
    BY <1>5, <1>6, <2>1
  <2>3. Pushed[c] = <<c>> \o <<>>
    BY <2>1, <2>2
  <2>4. QED BY <2>3
<1>7. ASSUME NEW c \in Byte, c >= 58 PROVE Pushed[c] = <<c % 58, c \div 58>>
  <2>1. Pushed[c] = <<c % 58>> \o Pushed[c \div 58]
    BY <1>1, <1>5, <1>7
  <2>2. Pushed[c \div 58] = <<c \div 58>>
    BY <1>1, <1>6, <1>7
  <2>3. c % 58 \in Nat /\ c \div 58 \in Nat
    BY DEF Byte
  <2>4. QED BY <2>1, <2>2, <2>3, PairOf
<1>8. Pushed[0] = <<>>
  <2>1. 0 \in Byte
    BY DEF Byte
  <2>2. QED BY <1>5, <2>1
<1>9. ASSUME NEW c \in 1 .. 57 PROVE Pushed[c] = <<c>>
  <2>1. c \in Byte /\ c # 0 /\ c < 58
    BY DEF Byte
  <2>2. QED BY <1>6, <2>1
<1>10. ASSUME NEW c \in 58 .. 255 PROVE Pushed[c] = <<c % 58, c \div 58>>
  <2>1. c \in Byte /\ c >= 58
    BY DEF Byte
  <2>2. QED BY <1>7, <2>1
<1>11. QED BY <1>8, <1>9, <1>10

\* What a carry is worth, and that it is written in digits.
LEMMA PushedWorth ==
    ASSUME NEW c \in Byte
    PROVE  /\ Pushed[c] \in Seq(0 .. 57)
           /\ c = 0 => Len(Pushed[c]) = 0
           /\ c # 0 /\ c < 58 => Len(Pushed[c]) = 1 /\ Pushed[c][1] = c /\ c \div 58 = 0
           /\ c >= 58 => /\ Len(Pushed[c]) = 2
                         /\ Pushed[c][1] = c % 58
                         /\ Pushed[c][2] = c \div 58
                         /\ c \div 58 # 0
           /\ c = (c % 58) + 58 * (c \div 58)
           /\ c % 58 \in 0 .. 57 /\ c \div 58 \in 0 .. 57
<1>1. /\ c \in Nat /\ c % 58 \in 0 .. 57 /\ c \div 58 \in 0 .. 57
      /\ c < 58 => c \div 58 = 0 /\ c \in 0 .. 57
      /\ c >= 58 => c \div 58 # 0
      /\ c = (c % 58) + 58 * (c \div 58)
  BY DEF Byte
<1>2. CASE c = 0
  <2>1. Pushed[c] = <<>>
    BY <1>2, PushedIs
  <2>2. <<>> \in Seq(0 .. 57) /\ Len(<<>>) = 0
    OBVIOUS
  <2>3. QED BY <1>1, <1>2, <2>1, <2>2
<1>3. CASE c # 0 /\ c < 58
  <2>1. Pushed[c] = <<c>>
    <3>1. c \in 1 .. 57
      BY <1>1, <1>3
    <3>2. QED BY <3>1, PushedIs
  <2>2. QED BY <1>1, <1>3, <2>1
<1>4. CASE c >= 58
  <2>1. Pushed[c] = <<c % 58, c \div 58>>
    <3>1. c \in 58 .. 255
      BY <1>4 DEF Byte
    <3>2. QED BY <3>1, PushedIs
  <2>2. QED BY <1>1, <1>4, <2>1
<1>5. QED BY <1>1, <1>2, <1>3, <1>4

-----------------------------------------------------------------------------
(* The worth of digits written lowest first.                               *)

\* w[k] is the number that the digits from k on stand for.
Worths(d, w) ==
    /\ w \in [1 .. Len(d) + 1 -> Nat]
    /\ w[Len(d) + 1] = 0
    /\ \A k \in 1 .. Len(d) : w[k] = d[k] + 58 * w[k + 1]

LEMMA Reversed ==
    ASSUME NEW S, NEW d \in Seq(S)
    PROVE  /\ Reverse(d) \in Seq(S)
           /\ Len(Reverse(d)) = Len(d)
           /\ \A k \in 1 .. Len(d) : Reverse(d)[k] = d[Len(d) + 1 - k]
<1> DEFINE n == Len(d)
           r == [k \in 1 .. n |-> d[(n - k) + 1]]
<1>1. n \in Nat /\ \A k \in 1 .. n : d[k] \in S
  BY ElementsOf
<1>2. Reverse(d) = r
  BY DEF Reverse
<1> HIDE DEF n
<1>3. \A k \in 1 .. n : (n - k) + 1 = n + 1 - k /\ (n - k) + 1 \in 1 .. n
  BY <1>1
<1>4. r \in [1 .. n -> S]
  BY <1>1, <1>3
<1>5. \A k \in 1 .. n : r[k] = d[n + 1 - k]
  BY <1>3
<1> HIDE DEF r
<1>6. r \in Seq(S) /\ Len(r) = n
  BY <1>1, <1>4
<1>7. QED BY <1>2, <1>5, <1>6 DEF n

LEMMA WorthsExist ==
    ASSUME NEW d \in Seq(0 .. 57)
    PROVE  \E w : Worths(d, w) /\ w[1] = NumberOf(Reverse(d), 58)
<1> DEFINE n == Len(d)
           r == Reverse(d)
<1>1. /\ r \in Seq(0 .. 57)
      /\ Len(r) = n
      /\ \A k \in 1 .. n : r[k] = d[n + 1 - k]
  BY Reversed
<1>2. n \in Nat /\ \A k \in 1 .. n : d[k] \in 0 .. 57
  BY ElementsOf
<1> HIDE DEF r, n
<1>3. r \in Seq(Nat)
  BY <1>1
<1>4. PICK run \in [0 .. Len(r) -> Nat] :
         /\ run[0] = 0
         /\ \A k \in 1 .. Len(r) : run[k] = run[k - 1] * 58 + r[k]
         /\ NumberOf(r, 58) = run[Len(r)]
  BY <1>3, Horner
<1> DEFINE w == [k \in 1 .. n + 1 |-> run[n + 1 - k]]
<1>5. w \in [1 .. n + 1 -> Nat]
  BY <1>1, <1>2, <1>4
<1>6. w[n + 1] = 0 /\ w[1] = run[n]
  BY <1>2, <1>4
<1>7. ASSUME NEW k \in 1 .. n PROVE w[k] = d[k] + 58 * w[k + 1]
  <2>1. /\ n + 1 - k \in 1 .. n
        /\ (n + 1 - k) - 1 = n + 1 - (k + 1)
        /\ n + 1 - (n + 1 - k) = k
        /\ k \in 1 .. n + 1 /\ k + 1 \in 1 .. n + 1
    BY <1>2
  <2>2. run[n + 1 - k] = run[n + 1 - (k + 1)] * 58 + d[k]
    BY <1>1, <1>4, <2>1
  <2>3. w[k] = run[n + 1 - k] /\ w[k + 1] = run[n + 1 - (k + 1)]
    BY <2>1
  <2>4. d[k] \in Nat
    <3>1. d[k] \in 0 .. 57 /\ \A x \in 0 .. 57 : x \in Nat
      BY <1>2
    <3>2. QED BY <3>1, Zenon
  <2> HIDE DEF w
  <2>5. w[k + 1] \in Nat
    BY <1>5, <2>1
  <2>6. QED BY <2>2, <2>3, <2>4, <2>5
<1> HIDE DEF w
<1>8. Worths(d, w)
  BY <1>5, <1>6, <1>7 DEF Worths, n
<1>9. w[1] = NumberOf(Reverse(d), 58)
  BY <1>1, <1>4, <1>6 DEF r
<1>10. QED BY <1>8, <1>9

LEMMA WorthIs ==
    ASSUME NEW d \in Seq(0 .. 57), NEW w, Worths(d, w)
    PROVE  NumberOf(Reverse(d), 58) = w[1]
<1> DEFINE n == Len(d)
<1>1. PICK v : Worths(d, v) /\ v[1] = NumberOf(Reverse(d), 58)
  BY WorthsExist
<1>2. n \in Nat /\ \A k \in 1 .. n : d[k] \in 0 .. 57
  BY ElementsOf
<1>3. /\ w[n + 1] = 0 /\ \A k \in 1 .. n : w[k] = d[k] + 58 * w[k + 1]
      /\ v[n + 1] = 0 /\ \A k \in 1 .. n : v[k] = d[k] + 58 * v[k + 1]
  BY <1>1 DEF Worths
<1> HIDE DEF n
<1> DEFINE T == {j \in Nat : w[n + 1 - j] = v[n + 1 - j]}
<1>4. 0 \in T
  BY <1>2, <1>3
<1>5. ASSUME NEW j \in 0 .. n, j \in T, j + 1 \in 0 .. n PROVE j + 1 \in T
  <2>1. n - j \in 1 .. n /\ n + 1 - (j + 1) = n - j /\ (n - j) + 1 = n + 1 - j
    BY <1>2, <1>5
  <2>2. w[n - j] = d[n - j] + 58 * w[n + 1 - j] /\ v[n - j] = d[n - j] + 58 * v[n + 1 - j]
    BY <1>3, <2>1
  <2>3. QED BY <1>5, <2>1, <2>2
<1>6. n \in T
  <2> HIDE DEF T
  <2>1. 0 .. n \subseteq T
    BY <1>2, <1>4, <1>5, UpTo
  <2>2. QED BY <1>2, <2>1
<1>7. QED BY <1>1, <1>2, <1>6

\* The carries of a shift and the digits it leaves, position by position.
LEMMA LowDigits ==
    ASSUME NEW d \in Seq(0 .. 57),
           NEW run \in [0 .. Len(d) -> [carry : Byte, low : Seq(0 .. 57)]],
           run[0].low = <<>>,
           \A k \in 1 .. Len(d) : run[k] = DigitStep(run[k - 1], d[k])
    PROVE  /\ Len(run[Len(d)].low) = Len(d)
           /\ \A k \in 1 .. Len(d) :
                 run[k - 1].carry + 256 * d[k] = run[Len(d)].low[k] + 58 * run[k].carry
<1> DEFINE n == Len(d)
           Total(k) == run[k - 1].carry + d[k] * 256
           Left(k) == /\ Len(run[k].low) = k
                      /\ \A j \in 1 .. k : run[k].low[j] = Total(j) % 58
           T == {k \in Nat : Left(k)}
<1>1. n \in Nat /\ \A k \in 1 .. n : d[k] \in 0 .. 57
  BY ElementsOf
<1>2. \A k \in 0 .. n : run[k].carry \in Byte /\ run[k].low \in Seq(0 .. 57)
  OBVIOUS
<1> HIDE DEF n, Total
<1>3. ASSUME NEW k \in 1 .. n
      PROVE  /\ run[k].carry = Total(k) \div 58
             /\ run[k].low = Append(run[k - 1].low, Total(k) % 58)
  <2>1. run[k] = DigitStep(run[k - 1], d[k])
    BY DEF n
  <2>2. QED BY <2>1 DEF DigitStep, Total
<1>4. ASSUME NEW k \in 1 .. n
      PROVE  /\ Total(k) \in Nat
             /\ Total(k) % 58 \in 0 .. 57
             /\ Total(k) = run[k - 1].carry + 256 * d[k]
  <2>2. run[k - 1].carry \in Byte /\ d[k] \in 0 .. 57
    BY <1>1, <1>2
  <2> DEFINE c == run[k - 1].carry
             e == d[k]
  <2>3. c \in Byte /\ e \in 0 .. 57 /\ Total(k) = c + e * 256
    BY <2>2 DEF Total
  <2> HIDE DEF c, e
  <2>4. Total(k) \in Nat /\ Total(k) % 58 \in 0 .. 57 /\ Total(k) = c + 256 * e
    BY <2>3 DEF Byte
  <2>5. QED BY <2>4 DEF c, e
<1>5. 0 \in T
  OBVIOUS
<1>6. ASSUME NEW k \in 0 .. n, k \in T, k + 1 \in 0 .. n PROVE k + 1 \in T
  <2> DEFINE a == run[k].low
             b == run[k + 1].low
             x == Total(k + 1) % 58
  <2>1. k + 1 \in 1 .. n /\ (k + 1) - 1 = k /\ k + 1 \in Nat
    BY <1>1, <1>6
  <2>2. b = Append(a, x) /\ a \in Seq(0 .. 57) /\ x \in 0 .. 57
    BY <1>2, <1>3, <1>4, <2>1
  <2>3. Len(a) = k /\ \A j \in 1 .. k : a[j] = Total(j) % 58
    BY <1>6
  <2> HIDE DEF a, b, x
  <2>4. Len(b) = k + 1 /\ b[k + 1] = x /\ \A j \in 1 .. k : b[j] = a[j]
    BY <2>2, <2>3, AppendProperties
  <2>5. \A j \in 1 .. k + 1 : j \in 1 .. k \/ j = k + 1
    BY <2>1
  <2>6. Left(k + 1)
    BY <2>3, <2>4, <2>5 DEF b, x
  <2> HIDE DEF Left
  <2>7. QED BY <2>1, <2>6
<1>7. Left(n)
  <2> HIDE DEF T
  <2>1. 0 .. n \subseteq T
    BY <1>1, <1>5, <1>6, UpTo
  <2>2. n \in T
    BY <1>1, <2>1
  <2>3. QED BY <2>2 DEF T
<1>8. \A k \in 1 .. n : run[k - 1].carry + 256 * d[k] = run[n].low[k] + 58 * run[k].carry
  <2>1. \A t \in Nat : t = (t % 58) + 58 * (t \div 58)
    OBVIOUS
  <2>2. QED BY <1>3, <1>4, <1>7, <2>1
<1>9. QED BY <1>7, <1>8 DEF n

LEMMA Joined ==
    ASSUME NEW S, NEW s \in Seq(S), NEW t \in Seq(S)
    PROVE  /\ s \o t \in Seq(S)
           /\ Len(s \o t) = Len(s) + Len(t)
           /\ \A k \in 1 .. Len(s) : (s \o t)[k] = s[k]
           /\ \A k \in 1 .. Len(t) : (s \o t)[Len(s) + k] = t[k]
<1>1. Len(s) \in Nat /\ Len(t) \in Nat
  BY ElementsOf
<1>2. /\ s \o t \in Seq(S) /\ Len(s \o t) = Len(s) + Len(t)
      /\ \A i \in 1 .. Len(s) + Len(t) :
            (s \o t)[i] = IF i <= Len(s) THEN s[i] ELSE t[i - Len(s)]
  BY ConcatProperties
<1>3. ASSUME NEW k \in 1 .. Len(s) PROVE (s \o t)[k] = s[k]
  <2>1. k \in 1 .. Len(s) + Len(t) /\ k <= Len(s)
    BY <1>1
  <2>2. QED BY <1>2, <2>1
<1>4. ASSUME NEW k \in 1 .. Len(t) PROVE (s \o t)[Len(s) + k] = t[k]
  <2>1. Len(s) + k \in 1 .. Len(s) + Len(t) /\ ~(Len(s) + k <= Len(s))
        /\ (Len(s) + k) - Len(s) = k
    BY <1>1
  <2>2. QED BY <1>2, <2>1
<1>5. QED BY <1>2, <1>3, <1>4

\* Shifting a byte in multiplies by 256 and adds it, and the highest digit is never
\* zero: a number that is zero has no digits.
HighDigit(d) == d # <<>> => d[Len(d)] # 0

LEMMA ShiftInIs ==
    ASSUME NEW d \in Seq(0 .. 57), HighDigit(d), NEW byte \in Byte
    PROVE  /\ ShiftIn(d, byte) \in Seq(0 .. 57)
           /\ HighDigit(ShiftIn(d, byte))
           /\ NumberOf(Reverse(ShiftIn(d, byte)), 58)
                 = NumberOf(Reverse(d), 58) * 256 + byte
<1> DEFINE n == Len(d)
           e == ShiftIn(d, byte)
<1>1. n \in Nat /\ \A k \in 1 .. n : d[k] \in 0 .. 57
  BY ElementsOf
<1>2. PICK run \in [0 .. n -> [carry : Byte, low : Seq(0 .. 57)]] :
         /\ run[0] = [carry |-> byte, low |-> <<>>]
         /\ \A k \in 1 .. n : run[k] = DigitStep(run[k - 1], d[k])
         /\ e = run[n].low \o Pushed[run[n].carry]
  BY Carries
<1> DEFINE low == run[n].low
           c == run[n].carry
           p == Pushed[c]
           carries == [k \in 0 .. n |-> run[k].carry]
<1>3. /\ Len(low) = n
      /\ \A k \in 1 .. n : run[k - 1].carry + 256 * d[k] = low[k] + 58 * run[k].carry
  <2>1. run[0].low = <<>>
    BY <1>2
  <2>2. QED BY <1>2, <2>1, LowDigits
<1>4. /\ low \in Seq(0 .. 57) /\ c \in Byte
      /\ carries \in [0 .. n -> Byte]
      /\ carries[0] = byte /\ carries[n] = c
  BY <1>1, <1>2
<1>5. \A k \in 1 .. n : carries[k - 1] + 256 * d[k] = low[k] + 58 * carries[k]
  BY <1>1, <1>3
<1>6. e = low \o p
  BY <1>2
<1> HIDE DEF low, c, carries, n, e
<1>7. /\ p \in Seq(0 .. 57)
      /\ c = 0 => Len(p) = 0
      /\ c # 0 /\ c < 58 => Len(p) = 1 /\ p[1] = c /\ c \div 58 = 0
      /\ c >= 58 => Len(p) = 2 /\ p[1] = c % 58 /\ p[2] = c \div 58 /\ c \div 58 # 0
      /\ c = (c % 58) + 58 * (c \div 58)
      /\ c % 58 \in 0 .. 57 /\ c \div 58 \in 0 .. 57
  BY <1>4, PushedWorth
<1> HIDE DEF p
<1>8. c \in Nat /\ (c = 0 \/ (c # 0 /\ c < 58) \/ c >= 58) /\ byte \in Nat
  BY <1>4 DEF Byte
<1>9. /\ e \in Seq(0 .. 57)
      /\ Len(e) = n + Len(p)
      /\ \A k \in 1 .. n : e[k] = low[k]
      /\ \A k \in 1 .. Len(p) : e[n + k] = p[k]
  <2>1. Len(low) = n
    BY <1>3
  <2>2. /\ low \o p \in Seq(0 .. 57) /\ Len(low \o p) = Len(low) + Len(p)
        /\ \A k \in 1 .. Len(low) : (low \o p)[k] = low[k]
        /\ \A k \in 1 .. Len(p) : (low \o p)[Len(low) + k] = p[k]
    BY <1>4, <1>7, Joined
  <2>3. QED BY <1>6, <2>1, <2>2
<1>10. /\ \A k \in 1 .. n : d[k] \in Nat /\ low[k] \in Nat
       /\ \A k \in 0 .. n : carries[k] \in Nat
  <2>1. \A k \in 1 .. Len(d) : d[k] \in Nat
    BY DigitsAreNumbers
  <2>2. \A k \in 1 .. Len(low) : low[k] \in Nat
    BY <1>4, DigitsAreNumbers
  <2>3. \A k \in 0 .. n : carries[k] \in Nat
    <3>1. \A x \in Byte : x \in Nat
      BY DEF Byte
    <3>2. QED BY <1>4, <3>1
  <2>4. QED BY <1>3, <2>1, <2>2, <2>3 DEF n
<1>11. ASSUME c # 0, c < 58
       PROVE  Len(p) = 1 /\ Len(e) = n + 1 /\ e[n + 1] = c /\ c \div 58 = 0
  <2>1. Len(p) = 1 /\ p[1] = c /\ c \div 58 = 0
    BY <1>7, <1>11
  <2>2. 1 \in 1 .. 1
    OBVIOUS
  <2>3. QED BY <1>9, <2>1, <2>2
<1>12. ASSUME c >= 58
       PROVE  /\ Len(p) = 2 /\ Len(e) = n + 2
              /\ e[n + 1] = c % 58 /\ e[n + 2] = c \div 58 /\ c \div 58 # 0
  <2>1. Len(p) = 2 /\ p[1] = c % 58 /\ p[2] = c \div 58 /\ c \div 58 # 0
    BY <1>7, <1>12
  <2>2. 1 \in 1 .. 2 /\ 2 \in 1 .. 2
    OBVIOUS
  <2>3. QED BY <1>9, <2>1, <2>2
<1>13. PICK w : Worths(d, w) /\ w[1] = NumberOf(Reverse(d), 58)
  BY WorthsExist
<1>14. /\ w \in [1 .. n + 1 -> Nat]
       /\ w[n + 1] = 0
       /\ \A k \in 1 .. n : w[k] = d[k] + 58 * w[k + 1]
  BY <1>13 DEF Worths, n
<1> DEFINE v == [k \in 1 .. Len(e) + 1 |->
                    IF k <= n + 1 THEN 256 * w[k] + carries[k - 1]
                    ELSE IF k = n + 2 THEN c \div 58 ELSE 0]
<1>15. /\ Len(p) \in 0 .. 2 /\ Len(e) \in Nat
       /\ \A k \in 1 .. Len(e) + 1 : k \in Nat
       /\ \A k \in 1 .. n : k \in 1 .. n + 1 /\ k + 1 \in 1 .. n + 1 /\ (k + 1) - 1 = k
       /\ n + 1 \in 1 .. n + 1 /\ (n + 1) - 1 = n /\ 1 \in 1 .. n + 1
  BY <1>1, <1>7, <1>8, <1>9
<1>16. /\ \A k \in 1 .. n + 1 : v[k] = 256 * w[k] + carries[k - 1]
       /\ Len(p) >= 1 => v[n + 2] = c \div 58
       /\ Len(p) = 2 => v[n + 3] = 0
  <2>1. ASSUME NEW k \in 1 .. n + 1 PROVE v[k] = 256 * w[k] + carries[k - 1]
    <3>1. k <= n + 1 /\ k \in 1 .. Len(e) + 1
      BY <1>1, <1>9, <1>15
    <3>2. QED BY <3>1
  <2>2. ASSUME Len(p) >= 1 PROVE v[n + 2] = c \div 58
    <3>1. ~(n + 2 <= n + 1) /\ n + 2 \in 1 .. Len(e) + 1
      BY <1>1, <1>9, <1>15, <2>2
    <3>2. QED BY <3>1
  <2>3. ASSUME Len(p) = 2 PROVE v[n + 3] = 0
    <3>1. ~(n + 3 <= n + 1) /\ n + 3 # n + 2 /\ n + 3 \in 1 .. Len(e) + 1
      BY <1>1, <1>9, <1>15, <2>3
    <3>2. QED BY <3>1
  <2> HIDE DEF v
  <2>4. QED BY <2>1, <2>2, <2>3
<1>17. v \in [1 .. Len(e) + 1 -> Nat]
  <2>1. ASSUME NEW k \in 1 .. Len(e) + 1 PROVE v[k] \in Nat
    <3>1. CASE k <= n + 1
      <4>1. k \in 1 .. n + 1 /\ k - 1 \in 0 .. n
        BY <1>1, <1>15, <3>1
      <4>2. w[k] \in Nat /\ carries[k - 1] \in Nat
        BY <1>14, <1>10, <4>1
      <4>3. v[k] = 256 * w[k] + carries[k - 1]
        BY <1>16, <4>1
      <4> HIDE DEF v
      <4>4. QED BY <4>2, <4>3
    <3>2. CASE ~(k <= n + 1)
      BY <1>8, <3>2
    <3>3. QED BY <3>1, <3>2
  <2>2. v = [k \in 1 .. Len(e) + 1 |-> v[k]]
    OBVIOUS
  <2> HIDE DEF v
  <2>3. QED BY <2>1, <2>2
<1> HIDE DEF v
<1>18. v[n + 1] = c
  BY <1>4, <1>8, <1>14, <1>15, <1>16
<1>19. Worths(e, v)
  <2>1. ASSUME NEW k \in 1 .. n PROVE v[k] = e[k] + 58 * v[k + 1]
    <3>1. /\ v[k] = 256 * w[k] + carries[k - 1]
          /\ v[k + 1] = 256 * w[k + 1] + carries[k]
          /\ w[k] = d[k] + 58 * w[k + 1]
          /\ carries[k - 1] + 256 * d[k] = low[k] + 58 * carries[k]
          /\ e[k] = low[k]
      BY <1>5, <1>9, <1>14, <1>15, <1>16
    <3>2. w[k + 1] \in Nat /\ carries[k - 1] \in Nat /\ carries[k] \in Nat
      <4>1. k - 1 \in 0 .. n /\ k \in 0 .. n
        BY <1>1
      <4>2. QED BY <1>14, <1>15, <1>10, <4>1
    <3>3. d[k] \in Nat /\ low[k] \in Nat
      BY <1>10
    <3> DEFINE u == w[k + 1]
               c0 == carries[k - 1]
               c1 == carries[k]
               x == d[k]
               y == low[k]
    <3>4. /\ v[k] = 256 * (x + 58 * u) + c0 /\ v[k + 1] = 256 * u + c1
          /\ c0 + 256 * x = y + 58 * c1 /\ e[k] = y
      BY <3>1
    <3>5. u \in Nat /\ c0 \in Nat /\ c1 \in Nat /\ x \in Nat /\ y \in Nat
      BY <3>2, <3>3
    <3> HIDE DEF u, c0, c1, x, y
    <3>6. 256 * (x + 58 * u) + c0 = y + 58 * (256 * u + c1)
      BY <3>4, <3>5
    <3>7. QED BY <3>4, <3>6
  <2>2. CASE c = 0
    <3>1. Len(e) = n /\ v[n + 1] = 0
      BY <1>1, <1>7, <1>9, <1>18, <2>2
    <3>2. QED BY <1>17, <2>1, <3>1 DEF Worths
  <2>3. CASE c # 0 /\ c < 58
    <3>1. Len(e) = n + 1 /\ e[n + 1] = c /\ v[n + 2] = 0
      <4>1. Len(p) = 1 /\ Len(e) = n + 1 /\ e[n + 1] = c /\ c \div 58 = 0
        BY <1>11, <2>3
      <4>2. QED BY <1>16, <4>1
    <3>2. /\ \A k \in 1 .. n + 1 : k \in 1 .. n \/ k = n + 1
          /\ (n + 1) + 1 = n + 2
      BY <1>1
    <3>3. v[n + 1] = e[n + 1] + 58 * v[(n + 1) + 1]
      BY <1>8, <1>18, <3>1, <3>2
    <3>4. QED BY <1>17, <2>1, <3>1, <3>2, <3>3 DEF Worths
  <2>4. CASE c >= 58
    <3>1. /\ Len(e) = n + 2 /\ v[n + 3] = 0 /\ v[n + 2] = c \div 58
          /\ e[n + 1] = c % 58 /\ e[n + 2] = c \div 58
      <4>1. /\ Len(p) = 2 /\ Len(e) = n + 2
            /\ e[n + 1] = c % 58 /\ e[n + 2] = c \div 58
        BY <1>12, <2>4
      <4>2. QED BY <1>16, <4>1
    <3>2. /\ \A k \in 1 .. n + 2 : k \in 1 .. n \/ k = n + 1 \/ k = n + 2
          /\ (n + 1) + 1 = n + 2 /\ (n + 2) + 1 = n + 3
      BY <1>1
    <3>3. v[n + 1] = e[n + 1] + 58 * v[(n + 1) + 1]
      BY <1>7, <1>18, <3>1, <3>2
    <3>4. v[n + 2] = e[n + 2] + 58 * v[(n + 2) + 1]
      BY <1>8, <3>1, <3>2
    <3>5. QED BY <1>17, <2>1, <3>1, <3>2, <3>3, <3>4 DEF Worths
  <2>5. QED BY <1>8, <2>2, <2>3, <2>4
<1>20. NumberOf(Reverse(e), 58) = v[1]
  BY <1>9, <1>19, WorthIs
<1>21. v[1] = NumberOf(Reverse(d), 58) * 256 + byte
  <2>1. v[1] = 256 * w[1] + carries[1 - 1] /\ w[1] \in Nat
    BY <1>14, <1>15, <1>16
  <2>2. 1 - 1 = 0
    OBVIOUS
  <2>3. v[1] = 256 * w[1] + byte
    BY <1>4, <2>1, <2>2
  <2>4. QED BY <1>8, <1>13, <2>1, <2>3
<1>22. ASSUME HighDigit(d), n # 0 PROVE c # 0
  <2>1. n \in 1 .. n /\ n - 1 \in 0 .. n
    BY <1>1, <1>22
  <2>2. d[n] # 0 /\ d[n] \in Nat /\ low[n] \in Nat /\ carries[n - 1] \in Nat
    <3>1. d # <<>>
      BY <1>22 DEF n
    <3>2. d[n] # 0
      BY <1>22, <3>1 DEF HighDigit, n
    <3>3. QED BY <1>10, <2>1, <3>2
  <2>3. carries[n - 1] + 256 * d[n] = low[n] + 58 * c
    BY <1>4, <1>5, <2>1
  <2>4. low[n] <= 57
    <3>1. low[n] \in 0 .. 57
      BY <1>3, <1>4, <2>1, ElementsOf
    <3>2. \A x \in 0 .. 57 : x <= 57
      OBVIOUS
    <3>3. QED BY <3>1, <3>2, Zenon
  <2>5. QED BY <1>8, <2>2, <2>3, <2>4
<1>23. /\ n = 0 <=> d = <<>>
       /\ Len(e) = 0 <=> e = <<>>
       /\ n = 0 => c = byte
  BY <1>4, <1>9 DEF n
<1>24. HighDigit(e)
  <2>1. CASE c = 0
    BY <1>1, <1>7, <1>9, <1>22, <1>23, <2>1 DEF HighDigit
  <2>2. CASE c # 0 /\ c < 58
    <3>1. Len(e) = n + 1 /\ e[n + 1] = c
      BY <1>11, <2>2
    <3>2. QED BY <2>2, <3>1 DEF HighDigit
  <2>3. CASE c >= 58
    <3>1. Len(e) = n + 2 /\ e[n + 2] = c \div 58 /\ c \div 58 # 0
      BY <1>12, <2>3
    <3>2. QED BY <3>1 DEF HighDigit
  <2>4. QED BY <1>8, <2>1, <2>2, <2>3
<1>25. QED BY <1>9, <1>20, <1>21, <1>24 DEF e

\* The digits of a sequence of bytes come about one byte at a time.
Digits == {d \in Seq(0 .. 57) : HighDigit(d)}

LEMMA Shifts ==
    ASSUME NEW bytes \in Seq(Byte)
    PROVE  \E run \in [0 .. Len(bytes) -> Digits] :
              /\ run[0] = <<>>
              /\ \A k \in 1 .. Len(bytes) : run[k] = ShiftIn(run[k - 1], bytes[k])
              /\ FoldLeft(ShiftIn, <<>>, bytes) = run[Len(bytes)]
<1> DEFINE n == Len(bytes)
           V == Digits
           start == <<>>
           Step(it, s) == ShiftIn(it[s \ {Max(s)}], bytes[Max(s)])
           Folds(it) == it = [s \in SUBSET DOMAIN bytes |-> IF s = {} THEN start ELSE Step(it, s)]
           It == CHOOSE it : Folds(it)
           step == [p \in V \X (1 .. n) |-> ShiftIn(p[1], bytes[p[2]])]
<1>1. n \in Nat /\ DOMAIN bytes = 1 .. n /\ \A k \in 1 .. n : bytes[k] \in Byte
  BY ElementsOf
<1>2. FoldLeft(ShiftIn, <<>>, bytes) = It[1 .. n]
  BY <1>1 DEF FoldLeft, MapThenFoldSet
<1> HIDE DEF n
<1>3. step \in [V \X (1 .. n) -> V]
  <2>1. \A d \in V, x \in Byte : ShiftIn(d, x) \in V
    BY ShiftInIs DEF Digits
  <2>2. QED BY <1>1, <2>1
<1>4. \A v \in V, k \in 1 .. n : step[<<v, k>>] = ShiftIn(v, bytes[k])
  OBVIOUS
<1> HIDE DEF step
<1>5. start \in V /\ step \in Steps(V, n)
  BY <1>3 DEF Steps, Digits, HighDigit
<1> HIDE DEF V, start
<1>6. PICK it : IsFold(it, V, n, start, step)
  BY <1>1, <1>5, Recursion
<1>7. Folds(it)
  <2>1. ASSUME NEW s \in SUBSET (1 .. n), s # {} PROVE it[s] = Step(it, s)
    <3>1. Max(s) \in 1 .. n /\ it[s \ {Max(s)}] \in V
      BY <1>1, <1>6, <2>1, GreatestIn DEF IsFold
    <3>2. it[s] = step[<<it[s \ {Max(s)}], Max(s)>>]
      BY <1>6, <2>1 DEF IsFold, Turn
    <3>3. QED BY <1>4, <3>1, <3>2
  <2>2. {} \in SUBSET (1 .. n) /\ it[{}] = start /\ it \in [SUBSET (1 .. n) -> V]
    BY <1>6 DEF IsFold, Turn
  <2> HIDE DEF Step
  <2>3. QED BY <1>1, <2>1, <2>2
<1>8. Folds(It)
  <2> HIDE DEF Folds
  <2>1. QED BY <1>7
<1> HIDE DEF It
<1>9. FoldsOn(It, V, n, start, step)
  <2>1. It[{}] = start
    <3> HIDE DEF Step
    <3>1. {} \in SUBSET DOMAIN bytes
      OBVIOUS
    <3>2. QED BY <1>8, <3>1
  <2>2. ASSUME NEW s \in SUBSET (1 .. n), s # {}, It[s \ {Max(s)}] \in V
        PROVE  It[s] = step[<<It[s \ {Max(s)}], Max(s)>>]
    <3>1. Max(s) \in 1 .. n
      BY <1>1, <2>2, GreatestIn
    <3>2. It[s] = Step(It, s)
      <4> HIDE DEF Step
      <4>1. QED BY <1>1, <1>8, <2>2
    <3>3. QED BY <1>4, <2>2, <3>1, <3>2
  <2>3. QED BY <2>1, <2>2 DEF FoldsOn, Turn
<1> HIDE DEF Folds
<1>10. PICK run : IsRun(run, V, n, start, step) /\ It[1 .. n] = run[n]
  BY <1>1, <1>5, <1>9, RunOf
<1>11. /\ run \in [0 .. n -> V]
       /\ run[0] = start
       /\ \A k \in 1 .. n : run[k] = step[<<run[k - 1], k>>]
  BY <1>10 DEF IsRun
<1>12. ASSUME NEW k \in 1 .. n PROVE run[k] = ShiftIn(run[k - 1], bytes[k])
  <2>1. k - 1 \in 0 .. n /\ run[k - 1] \in V
    BY <1>1, <1>11
  <2>2. QED BY <1>4, <1>11, <2>1
<1>13. FoldLeft(ShiftIn, <<>>, bytes) = run[n]
  BY <1>2, <1>10
<1>14. QED BY <1>11, <1>12, <1>13 DEF n, V, start

\* The digits of a sequence of bytes are those of the number that it denotes.
LEMMA DigitsDenote ==
    ASSUME NEW bytes \in Seq(Byte)
    PROVE  /\ FoldLeft(ShiftIn, <<>>, bytes) \in Digits
           /\ NumberOf(Reverse(FoldLeft(ShiftIn, <<>>, bytes)), 58) = NumberOf(bytes, 256)
<1> DEFINE n == Len(bytes)
           Num(d) == NumberOf(Reverse(d), 58)
<1>1. n \in Nat /\ \A k \in 1 .. n : bytes[k] \in Byte
  BY ElementsOf
<1>2. PICK run \in [0 .. n -> Digits] :
         /\ run[0] = <<>>
         /\ \A k \in 1 .. n : run[k] = ShiftIn(run[k - 1], bytes[k])
         /\ FoldLeft(ShiftIn, <<>>, bytes) = run[n]
  BY Shifts
<1>3. bytes \in Seq(Nat)
  <2>1. Byte \subseteq Nat
    BY DEF Byte
  <2>2. QED BY <2>1, SeqMonotonic, Zenon
<1>4. PICK num \in [0 .. n -> Nat] :
         /\ num[0] = 0
         /\ \A k \in 1 .. n : num[k] = num[k - 1] * 256 + bytes[k]
         /\ NumberOf(bytes, 256) = num[n]
  <2>1. 256 \in Nat
    OBVIOUS
  <2>2. QED BY <1>3, <2>1, Horner, Zenon
<1> HIDE DEF n
<1> DEFINE T == {k \in Nat : Num(run[k]) = num[k]}
<1>5. 0 \in T
  <2> DEFINE none == <<>>
  <2>1. none \in Seq(0 .. 57) /\ Len(none) = 0
    OBVIOUS
  <2>2. Worths(none, [k \in 1 .. 1 |-> 0])
    BY <2>1 DEF Worths
  <2>3. Num(none) = [k \in 1 .. 1 |-> 0][1]
    <3> HIDE DEF none
    <3>1. QED BY <2>1, <2>2, WorthIs
  <2>4. QED BY <1>2, <1>4, <2>3
<1>6. ASSUME NEW k \in 0 .. n, k \in T, k + 1 \in 0 .. n PROVE k + 1 \in T
  <2>1. k + 1 \in 1 .. n /\ (k + 1) - 1 = k /\ k + 1 \in Nat
    BY <1>1, <1>6
  <2>2. /\ run[k] \in Seq(0 .. 57) /\ HighDigit(run[k]) /\ bytes[k + 1] \in Byte
        /\ run[k + 1] = ShiftIn(run[k], bytes[k + 1])
        /\ num[k + 1] = num[k] * 256 + bytes[k + 1]
    BY <1>1, <1>2, <1>4, <2>1 DEF Digits
  <2>3. Num(run[k + 1]) = Num(run[k]) * 256 + bytes[k + 1]
    BY <2>2, ShiftInIs
  <2>4. Num(run[k]) = num[k]
    BY <1>6
  <2> HIDE DEF Num
  <2>5. QED BY <2>1, <2>2, <2>3, <2>4
<1>7. Num(run[n]) = num[n]
  <2> HIDE DEF T
  <2>1. 0 .. n \subseteq T
    BY <1>1, <1>5, <1>6, UpTo
  <2>2. n \in T
    BY <1>1, <2>1
  <2>3. QED BY <2>2 DEF T
<1>8. run[n] \in Digits
  BY <1>1, <1>2
<1>9. QED BY <1>2, <1>4, <1>7, <1>8

\* Zero digits ahead of a number do not change it.
LEMMA ZerosAhead ==
    ASSUME NEW z \in Nat, NEW t \in Seq(Nat), NEW text \in Seq(Nat), Len(text) = z + Len(t),
           \A i \in 1 .. z : text[i] = 0,
           \A i \in 1 .. Len(t) : text[z + i] = t[i]
    PROVE  NumberOf(text, 58) = NumberOf(t, 58)
<1> DEFINE n == Len(t)
<1>1. n \in Nat /\ Len(text) = z + n
  BY ElementsOf
<1>2. PICK long \in [0 .. z + n -> Nat] :
         /\ long[0] = 0
         /\ \A k \in 1 .. z + n : long[k] = long[k - 1] * 58 + text[k]
         /\ NumberOf(text, 58) = long[z + n]
  <2>1. 58 \in Nat
    OBVIOUS
  <2>2. \E long \in [0 .. Len(text) -> Nat] :
           /\ long[0] = 0
           /\ \A k \in 1 .. Len(text) : long[k] = long[k - 1] * 58 + text[k]
           /\ NumberOf(text, 58) = long[Len(text)]
    BY <2>1, Horner, Zenon
  <2> HIDE DEF n
  <2>3. QED BY <1>1, <2>2
<1>3. PICK short \in [0 .. n -> Nat] :
         /\ short[0] = 0
         /\ \A k \in 1 .. n : short[k] = short[k - 1] * 58 + t[k]
         /\ NumberOf(t, 58) = short[n]
  BY <1>1, Horner
<1> HIDE DEF n
<1> DEFINE Z == {k \in Nat : long[k] = 0}
           T == {k \in Nat : long[z + k] = short[k]}
<1>4. 0 \in Z
  BY <1>2
<1>5. ASSUME NEW k \in 0 .. z, k \in Z, k + 1 \in 0 .. z PROVE k + 1 \in Z
  <2>1. k + 1 \in 1 .. z + n /\ k + 1 \in 1 .. z /\ (k + 1) - 1 = k /\ k + 1 \in Nat
    BY <1>1, <1>5
  <2>2. long[k + 1] = long[k] * 58 + text[k + 1] /\ text[k + 1] = 0 /\ long[k] = 0
    BY <1>2, <1>5, <2>1
  <2>3. QED BY <2>1, <2>2
<1>6. long[z] = 0
  <2> HIDE DEF Z
  <2>1. 0 .. z \subseteq Z
    BY <1>4, <1>5, UpTo
  <2>2. z \in Z
    BY <2>1
  <2>3. QED BY <2>2 DEF Z
<1>7. 0 \in T
  BY <1>3, <1>6
<1>8. ASSUME NEW k \in 0 .. n, k \in T, k + 1 \in 0 .. n PROVE k + 1 \in T
  <2>1. /\ k + 1 \in 1 .. n /\ (k + 1) - 1 = k /\ k + 1 \in Nat
        /\ z + (k + 1) \in 1 .. z + n /\ (z + (k + 1)) - 1 = z + k
    BY <1>1, <1>8
  <2>2. /\ long[z + (k + 1)] = long[z + k] * 58 + text[z + (k + 1)]
        /\ text[z + (k + 1)] = t[k + 1]
        /\ short[k + 1] = short[k] * 58 + t[k + 1]
        /\ long[z + k] = short[k]
    BY <1>2, <1>3, <1>8, <2>1 DEF n
  <2>3. QED BY <2>1, <2>2
<1>9. long[z + n] = short[n]
  <2> HIDE DEF T
  <2>1. 0 .. n \subseteq T
    BY <1>1, <1>7, <1>8, UpTo
  <2>2. n \in T
    BY <1>1, <2>1
  <2>3. QED BY <2>2 DEF T
<1>10. QED BY <1>2, <1>3, <1>9

\* The text of an account id denotes it.
LEMMA TextDenotes ==
    ASSUME NEW id \in AccountIdsOf
    PROVE  Denotes(Bs58Encode(id), id)
<1> DEFINE z == LeadingZeros(id)
           d == FoldLeft(ShiftIn, <<>>, id)
           r == Reverse(d)
           ahead == [i \in 1 .. z |-> 0]
           text == ahead \o r
<1>1. id \in Seq(Byte)
  BY IdAssumption DEF AccountIdsOf
<1>2. z \in Nat
  <2>1. IsFiniteSet(DOMAIN id)
    BY IdAssumption, FS_Interval DEF AccountIdsOf
  <2>2. QED BY <2>1, FS_Subset, FS_CardinalityType DEF LeadingZeros
<1>3. d \in Digits /\ NumberOf(r, 58) = NumberOf(id, 256)
  BY <1>1, DigitsDenote
<1>4. d \in Seq(0 .. 57) /\ HighDigit(d)
  BY <1>3 DEF Digits
<1>5. Bs58Encode(id) = text
  BY DEF Bs58Encode
<1> HIDE DEF d, z
<1>6. r \in Seq(0 .. 57) /\ Len(r) = Len(d) /\ \A k \in 1 .. Len(d) : r[k] = d[Len(d) + 1 - k]
  BY <1>4, Reversed
<1>7. ahead \in Seq(0 .. 57) /\ Len(ahead) = z /\ \A i \in 1 .. z : ahead[i] = 0
  BY <1>2
<1> HIDE DEF r, ahead
<1>8. /\ text \in Seq(0 .. 57) /\ Len(text) = z + Len(r)
      /\ \A i \in 1 .. z : text[i] = 0
      /\ \A i \in 1 .. Len(r) : text[z + i] = r[i]
  <2>1. /\ ahead \o r \in Seq(0 .. 57) /\ Len(ahead \o r) = Len(ahead) + Len(r)
        /\ \A i \in 1 .. Len(ahead) : (ahead \o r)[i] = ahead[i]
        /\ \A i \in 1 .. Len(r) : (ahead \o r)[Len(ahead) + i] = r[i]
    <3> DEFINE S == 0 .. 57
    <3>1. ahead \in Seq(S) /\ r \in Seq(S)
      BY <1>6, <1>7
    <3> HIDE DEF S
    <3>2. /\ ahead \o r \in Seq(S) /\ Len(ahead \o r) = Len(ahead) + Len(r)
          /\ \A i \in 1 .. Len(ahead) : (ahead \o r)[i] = ahead[i]
          /\ \A i \in 1 .. Len(r) : (ahead \o r)[Len(ahead) + i] = r[i]
      BY <3>1, Joined
    <3>3. QED BY <3>2 DEF S
  <2>2. QED BY <1>7, <2>1
<1> HIDE DEF text
<1>9. text \in Seq(Nat) /\ r \in Seq(Nat)
  <2>1. 0 .. 57 \subseteq Nat
    OBVIOUS
  <2>2. QED BY <1>6, <1>8, <2>1, SeqMonotonic, Zenon
<1>10. NumberOf(text, 58) = NumberOf(id, 256)
  <2>1. NumberOf(text, 58) = NumberOf(r, 58)
    BY <1>2, <1>8, <1>9, ZerosAhead, Zenon
  <2>2. QED BY <1>3, <2>1
<1>11. Len(text) \in Nat /\ Len(r) \in Nat /\ DOMAIN text = 1 .. Len(text)
  BY <1>6, <1>8, ElementsOf
<1>12. \A i \in DOMAIN text : text[i] < 58
  <2>1. \A i \in DOMAIN text : text[i] \in 0 .. 57
    BY <1>8, ElementsOf
  <2>2. \A x \in 0 .. 57 : x < 58
    OBVIOUS
  <2>3. QED BY <2>1, <2>2, Zenon
<1>13. z <= Len(text)
  BY <1>2, <1>8, <1>11
<1>14. ASSUME Len(text) > z PROVE text[z + 1] # 0
  <2>1. 1 \in 1 .. Len(r) /\ Len(d) + 1 - 1 = Len(d) /\ Len(d) # 0
    BY <1>2, <1>6, <1>8, <1>11, <1>14
  <2>2. text[z + 1] = r[1]
    BY <1>8, <2>1
  <2>3. r[1] = d[Len(d)]
    BY <1>6, <2>1
  <2>4. d # <<>>
    BY <2>1
  <2>5. QED BY <1>4, <2>2, <2>3, <2>4 DEF HighDigit
<1>15. QED BY <1>5, <1>8, <1>10, <1>12, <1>13, <1>14 DEF Denotes, z

\* The account a sequencer is asked about is the one that was meant: bs58_encode
\* writes every id of every length as a text that denotes this id and no other.
THEOREM AccountsAreMeant == Spec => []AccountMeant
<1>1. IInv => AccountMeant
  <2> SUFFICES ASSUME IInv, phase # "idle", call.method = "getAccount"
               PROVE  Denotes(Bs58Encode(call.id), call.id)
    BY DEF AccountMeant
  <2>1. call \in Calls
    BY DEF IInv, Kept, Running
  <2>2. call.id \in AccountIdsOf
    BY <2>1 DEF Calls
  <2>3. QED BY <2>2, TextDenotes
<1>2. QED BY <1>1, Invariance, PTL

\* Bytes denote a number that no other bytes, as many of them, denote.
LEMMA NumbersApart ==
    ASSUME NEW a \in Seq(Byte), NEW b \in Seq(Byte), Len(a) = Len(b),
           NumberOf(a, 256) = NumberOf(b, 256)
    PROVE  a = b
<1> DEFINE n == Len(a)
<1>1. a \in Seq(Nat) /\ b \in Seq(Nat)
  <2>1. Byte \subseteq Nat
    BY DEF Byte
  <2>2. QED BY <2>1, SeqMonotonic, Zenon
<1>2. n \in Nat /\ \A k \in 1 .. n : a[k] \in Byte /\ b[k] \in Byte
  BY ElementsOf
<1>3. PICK f \in [0 .. Len(a) -> Nat] :
         /\ f[0] = 0
         /\ \A k \in 1 .. Len(a) : f[k] = f[k - 1] * 256 + a[k]
         /\ NumberOf(a, 256) = f[Len(a)]
  <2>1. 256 \in Nat
    OBVIOUS
  <2>2. QED BY <1>1, <2>1, Horner, Zenon
<1>4. PICK g \in [0 .. Len(b) -> Nat] :
         /\ g[0] = 0
         /\ \A k \in 1 .. Len(b) : g[k] = g[k - 1] * 256 + b[k]
         /\ NumberOf(b, 256) = g[Len(b)]
  <2>1. 256 \in Nat
    OBVIOUS
  <2>2. QED BY <1>1, <2>1, Horner, Zenon
<1>5. /\ \A k \in 0 .. n : f[k] \in Nat /\ g[k] \in Nat
      /\ \A k \in 1 .. n : f[k] = f[k - 1] * 256 + a[k] /\ g[k] = g[k - 1] * 256 + b[k]
      /\ f[n] = g[n]
  BY <1>3, <1>4
<1> HIDE DEF n
<1> DEFINE T == {k \in Nat : f[n - k] = g[n - k]}
<1>6. 0 \in T
  <2>1. n - 0 = n
    BY <1>2
  <2>2. QED BY <1>5, <2>1
<1>7. ASSUME NEW k \in 1 .. n, f[k] = g[k] PROVE f[k - 1] = g[k - 1] /\ a[k] = b[k]
  <2>1. k - 1 \in 0 .. n
    BY <1>2
  <2>2. f[k - 1] \in Nat /\ g[k - 1] \in Nat /\ a[k] \in Byte /\ b[k] \in Byte
    BY <1>2, <1>5, <2>1
  <2>3. f[k - 1] * 256 + a[k] = g[k - 1] * 256 + b[k]
    BY <1>5, <1>7
  <2> DEFINE x == f[k - 1]
             y == g[k - 1]
             c == a[k]
             d == b[k]
  <2> HIDE DEF x, y, c, d
  <2>4. x \in Nat /\ y \in Nat /\ c \in Byte /\ d \in Byte
    BY <2>2 DEF x, y, c, d
  <2>5. x * 256 + c = y * 256 + d
    BY <2>3 DEF x, y, c, d
  <2>6. x = y /\ c = d
    BY <2>4, <2>5 DEF Byte
  <2>7. QED BY <2>6 DEF x, y, c, d
<1>8. ASSUME NEW k \in 0 .. n, k \in T, k + 1 \in 0 .. n PROVE k + 1 \in T
  <2>1. n - k \in 1 .. n /\ (n - k) - 1 = n - (k + 1) /\ k + 1 \in Nat
    BY <1>2, <1>8
  <2>2. f[n - k] = g[n - k]
    BY <1>8
  <2>3. f[(n - k) - 1] = g[(n - k) - 1]
    BY <1>7, <2>1, <2>2
  <2>4. QED BY <2>1, <2>3
<1>9. \A k \in 0 .. n : f[n - k] = g[n - k]
  <2> HIDE DEF T
  <2>1. 0 .. n \subseteq T
    BY <1>2, <1>6, <1>8, UpTo
  <2>2. QED BY <2>1 DEF T
<1>10. ASSUME NEW k \in 1 .. n PROVE a[k] = b[k]
  <2>1. n - k \in 0 .. n /\ n - (n - k) = k
    BY <1>2
  <2>2. f[k] = g[k]
    BY <1>9, <2>1
  <2>3. QED BY <1>7, <2>2
<1>11. QED BY <1>1, <1>10, SeqEqual DEF n

\* No account is taken for another: bs58_encode writes two ids of the same length
\* alike only if they are the same.
THEOREM IdsStayApart ==
    ASSUME NEW a \in AccountIdsOf, NEW b \in AccountIdsOf, Bs58Encode(a) = Bs58Encode(b)
    PROVE  a = b
<1>1. a \in Seq(Byte) /\ b \in Seq(Byte) /\ Len(a) = Len(b)
  BY IdAssumption DEF AccountIdsOf
<1>2. NumberOf(Bs58Encode(a), 58) = NumberOf(a, 256) /\ NumberOf(Bs58Encode(b), 58) = NumberOf(b, 256)
  BY TextDenotes DEF Denotes
<1>3. QED BY <1>1, <1>2, NumbersApart
=============================================================================
