---------------------------- MODULE MerkleWalk ----------------------------
(***************************************************************************)
(* One request for a proof, loop by loop: MerkleTree.__init__ builds the   *)
(* levels of the batch, get_proof climbs them and notes the sibling at     *)
(* every level, and whoever holds the proof folds it over the hash of the  *)
(* leaf they claim (verify_proof).                                         *)
(***************************************************************************)
EXTENDS Merkle

CONSTANTS Leaf,     \* what a leaf can be
          Batches   \* the batches a request can ask about

ASSUME BatchesAssumption == Batches \subseteq Seq(Leaf) \ {<< >>}

VARIABLES phase,    \* "idle", or the loop the request is in
          leaves,   \* the batch, in the order of its tree
          index,    \* the leaf that the proof is for
          claim,    \* the leaf that it is checked against
          levels,   \* the tree as far as it is built
          here,     \* current_index of get_proof
          proof,    \* the steps noted so far
          climbed,  \* the steps verify_proof has folded
          computed  \* the hash it has got to

walkVars == << phase, leaves, index, claim, levels, here, proof, climbed,
               computed >>

Phases == {"idle", "build", "prove", "verify", "answered"}

Top == levels[Len(levels)]

Idle ==
    /\ phase = "idle"
    /\ leaves = << >>
    /\ index = 0
    /\ claim = << >>
    /\ levels = << >>
    /\ here = 0
    /\ proof = << >>
    /\ climbed = 0
    /\ computed = << >>

Ask(batch, i, leaf) ==
    /\ phase = "idle"
    /\ phase' = "build"
    /\ leaves' = batch
    /\ index' = i
    /\ claim' = leaf
    /\ levels' = << HashedLeaves(batch) >>
    /\ UNCHANGED << here, proof, climbed, computed >>

(* A round of the while loop of _build. *)
Build ==
    /\ phase = "build"
    /\ Len(Top) > 1
    /\ levels' = Append(levels, Above(Top))
    /\ UNCHANGED << phase, leaves, index, claim, here, proof, climbed, computed >>

Built ==
    /\ phase = "build"
    /\ Len(Top) <= 1
    /\ phase' = "prove"
    /\ here' = index
    /\ UNCHANGED << leaves, index, claim, levels, proof, climbed, computed >>

(* A round of the for loop of get_proof, over every level but the root's. *)
Note ==
    /\ phase = "prove"
    /\ Len(proof) < Len(levels) - 1
    /\ proof' = Append(proof, [hash |-> Sibling(levels[Len(proof) + 1], here),
                               side |-> SideOf(here)])
    /\ here' = here \div 2
    /\ UNCHANGED << phase, leaves, index, claim, levels, climbed, computed >>

Proved ==
    /\ phase = "prove"
    /\ Len(proof) >= Len(levels) - 1
    /\ phase' = "verify"
    /\ computed' = LeafHash(claim)
    /\ UNCHANGED << leaves, index, claim, levels, here, proof, climbed >>

(* A round of the for loop of verify_proof. *)
Fold ==
    /\ phase = "verify"
    /\ climbed < Len(proof)
    /\ computed' = Climb(computed, proof[climbed + 1])
    /\ climbed' = climbed + 1
    /\ UNCHANGED << phase, leaves, index, claim, levels, here, proof >>

Verified ==
    /\ phase = "verify"
    /\ climbed >= Len(proof)
    /\ phase' = "answered"
    /\ UNCHANGED << leaves, index, claim, levels, here, proof, climbed,
                    computed >>

Forget ==
    /\ phase = "answered"
    /\ phase' = "idle"
    /\ leaves' = << >>
    /\ index' = 0
    /\ claim' = << >>
    /\ levels' = << >>
    /\ here' = 0
    /\ proof' = << >>
    /\ climbed' = 0
    /\ computed' = << >>

Walk == Build \/ Built \/ Note \/ Proved \/ Fold \/ Verified \/ Forget

WalkNext ==
    \/ \E batch \in Batches : \E i \in 0 .. Len(batch) - 1 : \E leaf \in Leaf :
           Ask(batch, i, leaf)
    \/ Walk

WalkSpec == Idle /\ [][WalkNext]_walkVars

-----------------------------------------------------------------------------
(* What verify_proof returns. *)
Valid == computed = Top[1]

(* A proof convinces of the leaf it was made for and of no other: get_proof *)
(* and verify_proof agree with each other and with _build on the sides, on  *)
(* the order and on the node that an odd level pairs with itself, at every  *)
(* level of a batch of any length.                                          *)
VerdictIsRight ==
    phase = "answered" => (Valid <=> claim = leaves[index + 1])
=============================================================================
