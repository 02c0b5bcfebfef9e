----------------------------- MODULE Anchoring -----------------------------
(***************************************************************************)
(* The bundler and the proof endpoint: AnchorBundler fills the tables that *)
(* GET /ledger/{entry_id}/proof answers from with a MerkleWalk.            *)
(*                                                                         *)
(* The tree of a request is built and climbed in one stretch without an    *)
(* await, so no step of the bundler comes in between, and what the chain   *)
(* and other transactions do in the meantime is nothing it reads: while a  *)
(* walk is under way, nothing else moves.                                  *)
(***************************************************************************)
EXTENDS AnchorBundler, MerkleWalk

(* A request can ask about any batch of entries that has been anchored. *)
ASSUME EntriesAssumption ==
    /\ IsFiniteSet(Entry)
    /\ \A S \in (SUBSET Entry) \ {{}} : Sorted(S) \in Batches

vars == << anchorVars, walkVars >>

Start == Init /\ Idle

(* Variant: the tree of every entry of the ledger. *)
AskInLedger(e) ==
    /\ e \in ledger
    /\ anchorOf[e] # 0
    /\ \E leaf \in Leaf :
           Ask(Sorted(ledger), Cardinality({d \in ledger : d < e}), leaf)
    /\ UNCHANGED anchorVars

(* get_entry_proof for an anchored entry; the client checks the proof      *)
(* against the entry or against another one.                               *)
AskFor(e) ==
    LET linked == Linked(anchorOf[e])
    IN  /\ e \in ledger
        /\ anchorOf[e] # 0
        /\ \E leaf \in Leaf :
               Ask(Sorted(linked), Cardinality({d \in linked : d < e}), leaf)
        /\ UNCHANGED anchorVars

Next ==
    \/ phase = "idle" /\ AnchorNext /\ UNCHANGED walkVars
    \/ \E e \in Entry : AskFor(e)
    \/ Walk /\ UNCHANGED anchorVars

(* Requests do not starve the loop's task or the chain: both get their turn *)
(* between requests.                                                       *)
System ==
    /\ Start /\ [][Next]_vars
    /\ SF_vars(phase = "idle" /\ Mine /\ UNCHANGED walkVars)
    /\ SF_vars(phase = "idle" /\ Cycle /\ UNCHANGED walkVars)
    /\ WF_vars(Walk /\ UNCHANGED anchorVars)

-----------------------------------------------------------------------------
(* The anchor of the entry that a proof is for. *)
AnchorAsked == anchorOf[leaves[index + 1]]

LeadsToAnchor == Top[1] = records[AnchorAsked].root

(* The root that a proof leads to is the one in the entry's AnchorRecord,  *)
(* which is all the client compares with, if fetch_unanchored happened to  *)
(* return the batch in the order of ids: the tree of the request and the   *)
(* tree of the bundler's cycle are the same.                               *)
ProofLeadsToAnchor ==
    phase = "answered" /\ orders[AnchorAsked] = Sorted(Linked(AnchorAsked))
        => LeadsToAnchor
=============================================================================
