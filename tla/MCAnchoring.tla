---------------------------- MODULE MCAnchoring ----------------------------
(* An instance of Anchoring; Leaf may hold a leaf that is no entry.        *)
EXTENDS Anchoring

MCBatches == {Sorted(S) : S \in (SUBSET Entry) \ {{}}}
=============================================================================
