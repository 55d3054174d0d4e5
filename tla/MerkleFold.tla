----------------------------- MODULE MerkleFold -----------------------------
(***************************************************************************)
(* The index-driven fold that attestation_core::fold_merkle_path, LEZ's    *)
(* membership proofs and sequencer-client share, against a tree.  The      *)
(* attestation's witness and the peer that answers a client choose the     *)
(* index and the siblings, so they range over more than honest proofs.     *)
(***************************************************************************)
EXTENDS Naturals, Sequences

CONSTANTS
    Depth,         \* the height of the tree
    IndexBits      \* the width of leaf_index, at least the height

ASSUME FoldAssumption ==
    /\ Depth \in Nat \ {0}
    /\ IndexBits \in Nat
    /\ IndexBits >= Depth

\* SHA256 of a commitment and of two concatenated nodes: inputs of different
\* lengths, so a leaf is never an inner node.
HashLeaf(c) == [leaf |-> c]
HashTwo(left, right) == [left |-> left, right |-> right]

\* The powers of two that are needed.
TwoTo[n \in 0 .. IndexBits] == IF n = 0 THEN 1 ELSE 2 * TwoTo[n - 1]

Capacity == TwoTo[Depth]
Positions == 0 .. Capacity - 1

\* The commitment set is only appended to: with n commitments, which are numbered
\* in the order they came, the other leaves are still empty.
EmptyLeaf == [empty |-> TRUE]
Tree(n) == [i \in Positions |-> IF i < n THEN HashLeaf(i + 1) ELSE EmptyLeaf]

\* The tree over a row of leaf hashes: level 0 is the row, level Depth the root.
Levels(row) ==
    LET Level[l \in 0 .. Depth] ==
          IF l = 0 THEN row
          ELSE [i \in 0 .. TwoTo[Depth - l] - 1 |->
                  HashTwo(Level[l - 1][2 * i], Level[l - 1][2 * i + 1])]
    IN  Level

RootOf(row) == Levels(row)[Depth][0]

Neighbour(i) == IF i % 2 = 0 THEN i + 1 ELSE i - 1

\* getProofForCommitment: the siblings on the way from a position to the root.
ProofAt(row, position) ==
    [l \in 1 .. Depth |-> Levels(row)[l - 1][Neighbour(position \div TwoTo[l - 1])]]

Nodes(row) == UNION {{Levels(row)[l][i] : i \in DOMAIN Levels(row)[l]} :
                        l \in 0 .. Depth}

VARIABLES
    row,        \* the leaf hashes of the tree the proof is of
    leaf_hash, leaf_index, siblings,   \* the caller's arguments
    node, idx, at                      \* the loop's state; at counts siblings read

args == <<row, leaf_hash, leaf_index, siblings>>
foldVars == <<args, node, idx, at>>

Paths(r) == UNION {[1 .. n -> Nodes(r)] : n \in 0 .. Depth}

FoldInit ==
    /\ row = Tree(0)
    /\ leaf_hash = EmptyLeaf
    /\ leaf_index = 0
    /\ siblings = <<>>
    /\ node = EmptyLeaf
    /\ idx = 0
    /\ at = 0

\* The commitment is hashed, the loop starts at the leaf.
FoldStart(r, commitment, proof) ==
    /\ row' = r
    /\ leaf_hash' = HashLeaf(commitment)
    /\ leaf_index' = proof.leaf_index
    /\ siblings' = proof.siblings
    /\ node' = leaf_hash'
    /\ idx' = leaf_index'
    /\ at' = 0

FoldEnd ==
    /\ row' = Tree(0)
    /\ leaf_hash' = EmptyLeaf
    /\ leaf_index' = 0
    /\ siblings' = <<>>
    /\ node' = EmptyLeaf
    /\ idx' = 0
    /\ at' = 0

\* Faulty variants: the sides are swapped; the index is not shifted.
SidesSwapped ==
    /\ at < Len(siblings)
    /\ at' = at + 1
    /\ node' = IF idx % 2 = 0 THEN HashTwo(siblings[at + 1], node)
                              ELSE HashTwo(node, siblings[at + 1])
    /\ idx' = idx \div 2
    /\ UNCHANGED args

IndexKept ==
    /\ at < Len(siblings)
    /\ at' = at + 1
    /\ node' = IF idx % 2 = 0 THEN HashTwo(node, siblings[at + 1])
                              ELSE HashTwo(siblings[at + 1], node)
    /\ UNCHANGED <<idx, args>>

\* One turn of the loop over the siblings.
FoldNext ==
    /\ at < Len(siblings)
    /\ at' = at + 1
    /\ node' = IF idx % 2 = 0 THEN HashTwo(node, siblings[at + 1])
                              ELSE HashTwo(siblings[at + 1], node)
    /\ idx' = idx \div 2
    /\ UNCHANGED args

-----------------------------------------------------------------------------
\* The bits of the index above the height select nothing: leaf_index is a u64
\* that neither the circuit nor the client bounds.
PositionOf(index) == index % TwoTo[Depth]

Finished == at = Len(siblings)

\* Folding to the root of a tree means the leaf is in that tree, at the position
\* the low bits of the index name, and the path is the tree's own: no shorter
\* path, no inner node in the place of a leaf, no other order of siblings.
FoldSound ==
    (Finished /\ node = RootOf(row)) =>
        /\ leaf_hash = row[PositionOf(leaf_index)]
        /\ siblings = ProofAt(row, PositionOf(leaf_index))

HonestPath ==
    /\ leaf_hash = row[PositionOf(leaf_index)]
    /\ siblings = ProofAt(row, PositionOf(leaf_index))

\* The sequencer's own proof for a leaf folds to the root, whatever the high
\* bits of the index.
FoldComplete == (HonestPath /\ at = 0) ~> (Finished /\ node = RootOf(row))

\* Halfway up an honest path the loop holds exactly the tree's node there.
OnTheWay ==
    HonestPath => node = Levels(row)[at][PositionOf(leaf_index) \div TwoTo[at]]
=============================================================================
