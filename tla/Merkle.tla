------------------------------- MODULE Merkle -------------------------------
(***************************************************************************)
(* The Merkle tree of the ledger, core/ledger/anchor/merkle.py, with which *)
(* the gateway anchors batches of entries and proves that an entry is in   *)
(* its batch.                                                              *)
(*                                                                         *)
(* A hash is the term it was computed from, so equal hashes have equal     *)
(* preimages: SHA-256 is taken to be free of collisions.  An index counts  *)
(* from 0, as in the code; position i + 1 of a level holds node i.         *)
(***************************************************************************)
EXTENDS Naturals, Sequences, SequencesExt

LeafHash(leaf) == [leaf |-> leaf]

PairHash(left, right) == [left |-> left, right |-> right]

-----------------------------------------------------------------------------
HashedLeaves(leaves) == [k \in DOMAIN leaves |-> LeafHash(leaves[k])]

(* An odd level pairs its last node with itself. *)
Above(level) ==
    [k \in 1 .. (Len(level) + 1) \div 2 |->
        LET left == 2 * k - 1
        IN  PairHash(level[left],
                     IF left < Len(level) THEN level[left + 1]
                                          ELSE level[left])]

(* A round of the loop of _build. *)
Grown(levels) ==
    IF Len(Last(levels)) > 1 THEN Append(levels, Above(Last(levels))) ELSE levels

(* The loop ends after fewer rounds than there are leaves. *)
Levels(leaves) ==
    FoldLeft(LAMBDA levels, round : Grown(levels), << HashedLeaves(leaves) >>, leaves)

Root(leaves) == Last(Levels(leaves))[1]

(* Variant: the side of the node itself. *)
OwnSideOf(index) == IF index % 2 = 0 THEN "left" ELSE "right"

(* The side of the sibling. *)
SideOf(index) == IF index % 2 = 0 THEN "right" ELSE "left"

SiblingIndex(index) == IF index % 2 = 0 THEN index + 1 ELSE index - 1

Sibling(level, index) ==
    IF SiblingIndex(index) < Len(level)
    THEN level[SiblingIndex(index) + 1]
    ELSE level[index + 1]

(* A round of verify_proof. *)
Climb(computed, step) ==
    IF step.side = "right" THEN PairHash(computed, step.hash)
                           ELSE PairHash(step.hash, computed)
=============================================================================
