------------------------- MODULE MerkleConsistency -------------------------
(***************************************************************************)
(* verifyConsistency of pkg/a3trust/witness.go, the check of an RFC 6962   *)
(* consistency proof, against what it is for: a proof is accepted exactly  *)
(* when the old tree is a prefix of the new one.                           *)
(*                                                                         *)
(* Hashes are symbolic: a leaf hash is its leaf, a node hash the pair of   *)
(* its children, so two hashes are equal only when what they commit to is. *)
(* A state is a pair of trees and the proof nodes read so far; the proof   *)
(* is any sequence of hashes that occur in either tree.                    *)
(***************************************************************************)
EXTENDS Naturals, Sequences, FiniteSets, SequencesExt

CONSTANTS
    Leaves,        \* leaf hashes
    MaxTreeSize,   \* bound on the larger tree
    MaxProof       \* bound on the nodes of a proof that is tried

VARIABLES old, new, proof

vars == <<old, new, proof>>

\* merkleNodeHash: the 0x01 prefix keeps it apart from every leaf hash.
merkleNodeHash(left, right) == <<left, right>>

\* The loop doubles while result*2 < value; 0 for a tree of at most one leaf.
largestPowerOfTwoLessThan(value) ==
    IF value <= 1 THEN 0
    ELSE CHOOSE p \in {2^e : e \in 0..value} : p < value /\ 2 * p >= value

----------------------------------------------------------------------------
(* The closure verify(oldCount, newCount, leftmost): the two hashes it     *)
(* rebuilds and how many proof nodes it has read.                          *)

Failed == [ok |-> FALSE, old |-> <<>>, new |-> <<>>, index |-> 0]
Both(h, i) == [ok |-> TRUE, old |-> h, new |-> h, index |-> i]

ReadsNode(at, nodes) == at.ok /\ at.index < Len(nodes)

RECURSIVE verify(_, _, _, _, _, _)

\* The whole subtree is in the old tree: the leftmost one is the old root
\* itself, any other is the next node of the proof.
WholeSubtree(leftmost, index, oldRoot, nodes) ==
    CASE leftmost                          -> Both(oldRoot, index)
      [] ~leftmost /\ index < Len(nodes)   -> Both(nodes[index + 1], index + 1)
      [] OTHER                             -> Failed

\* The old tree ends in the left half: the right half is new.
SplitLeft(oldCount, k, leftmost, index, oldRoot, nodes) ==
    LET at == verify(oldCount, k, leftmost, index, oldRoot, nodes) IN
      IF ReadsNode(at, nodes)
      THEN [at EXCEPT !.new = merkleNodeHash(@, nodes[at.index + 1]),
                      !.index = @ + 1]
      ELSE Failed

\* The old tree reaches into the right half: both share the left half.
SplitRight(oldCount, newCount, k, index, oldRoot, nodes) ==
    LET at == verify(oldCount - k, newCount - k, FALSE, index, oldRoot, nodes) IN
      IF ReadsNode(at, nodes)
      THEN LET left == nodes[at.index + 1] IN
             [at EXCEPT !.old = merkleNodeHash(left, @),
                        !.new = merkleNodeHash(left, @), !.index = @ + 1]
      ELSE Failed

verify(oldCount, newCount, leftmost, index, oldRoot, nodes) ==
    IF oldCount = newCount
    THEN WholeSubtree(leftmost, index, oldRoot, nodes)
    ELSE LET k == largestPowerOfTwoLessThan(newCount) IN
           IF oldCount <= k
           THEN SplitLeft(oldCount, k, leftmost, index, oldRoot, nodes)
           ELSE SplitRight(oldCount, newCount, k, index, oldRoot, nodes)

\* Every node is used, and the rebuilt hashes are the two roots.
RebuildsBoth(at, oldRoot, newRoot) == at.old = oldRoot /\ at.new = newRoot

verifyConsistency(oldSize, newSize, oldRoot, newRoot, nodes) ==
    /\ oldSize < newSize
    /\ nodes # <<>>
    /\ LET at == verify(oldSize, newSize, TRUE, 0, oldRoot, nodes) IN
         at.ok /\ at.index = Len(nodes) /\ RebuildsBoth(at, oldRoot, newRoot)

----------------------------------------------------------------------------
(* The reference: RFC 6962's tree hash and consistency proof.              *)

RECURSIVE TreeHash(_), Subproof(_, _, _)

TreeHash(tree) ==
    IF Len(tree) = 1 THEN tree[1]
    ELSE LET k == largestPowerOfTwoLessThan(Len(tree)) IN
           <<TreeHash(SubSeq(tree, 1, k)), TreeHash(SubSeq(tree, k + 1, Len(tree)))>>

Subproof(m, tree, complete) ==
    IF m = Len(tree) THEN (IF complete THEN <<>> ELSE <<TreeHash(tree)>>)
    ELSE LET k    == largestPowerOfTwoLessThan(Len(tree))
             lower == SubSeq(tree, 1, k)
             upper == SubSeq(tree, k + 1, Len(tree))
         IN IF m <= k THEN Append(Subproof(m, lower, complete), TreeHash(upper))
            ELSE Append(Subproof(m - k, upper, FALSE), TreeHash(lower))

RECURSIVE NodesOf(_)
NodesOf(h) == {h} \cup (IF h \in Leaves THEN {} ELSE NodesOf(h[1]) \cup NodesOf(h[2]))

----------------------------------------------------------------------------
Trees == SeqOf(Leaves, MaxTreeSize) \ {<<>>}

Init ==
    /\ old \in Trees /\ new \in Trees
    /\ Len(old) < Len(new)
    /\ proof = <<>>

ReadNode(h) ==
    /\ Len(proof) < MaxProof
    /\ proof' = Append(proof, h)
    /\ UNCHANGED <<old, new>>

Next == \E h \in NodesOf(TreeHash(old)) \cup NodesOf(TreeHash(new)) : ReadNode(h)

Spec == Init /\ [][Next]_vars

----------------------------------------------------------------------------
Accepts(nodes) == verifyConsistency(Len(old), Len(new),
                                    TreeHash(old), TreeHash(new), nodes)

\* No sequence of hashes makes verifyConsistency accept a new tree that does
\* not begin with the old one.
AcceptedExtends == Accepts(proof) => IsPrefix(old, new)

\* The proof RFC 6962 prescribes for an extension is accepted at every pair of
\* sizes, the unbalanced ones included.
ExtensionsAccepted ==
    IsPrefix(old, new) => Accepts(Subproof(Len(old), new, TRUE))
=============================================================================
