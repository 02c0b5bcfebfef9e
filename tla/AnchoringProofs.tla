-------------------------- MODULE AnchoringProofs --------------------------
(***************************************************************************)
(* Proofs about the bundler, for any ledger, batch size and number of      *)
(* failed cycles, and about the system that composes it with the proof     *)
(* endpoint.                                                               *)
(*                                                                         *)
(* The invariant says what each stage of a cycle relies on: the entries it *)
(* holds have no anchor yet, the transaction it has built speaks of them,  *)
(* and, once the receipt is there, the chain has that transaction.  The    *)
(* two together do what each does alone, so what is proved of              *)
(* AnchorBundler and of MerkleWalk holds of the system.                    *)
(***************************************************************************)
EXTENDS Anchoring, MerkleProofs, DataFacts, TLAPS

Linkage ==
    /\ ledger \subseteq Entry
    /\ IsSequence(records)
    /\ IsSequence(orders) /\ Len(orders) = Len(records)
    /\ anchorOf \in [Entry -> 0 .. Len(records)]
    /\ \A e \in Entry : anchorOf[e] # 0 => e \in ledger

TxOf(list) == [nonce |-> tx.nonce, root |-> Root(list), count |-> Len(list)]

CycleInv ==
    /\ stage \in Stages
    /\ stage # "asleep" => IsInjective(batch) /\ Range(batch) \subseteq Unanchored
    /\ stage \in {"built", "waiting", "received"} => tx = TxOf(batch)
    /\ stage = "received" => Mined

ChainInv ==
    /\ IsSequence(chain)
    /\ tx.nonce \in Nat
    /\ \A t \in pool : t.nonce = Len(chain)
    /\ \A r \in DOMAIN records : records[r].nonce \in Nat

AnchorInv == Linkage /\ CycleInv /\ ChainInv /\ AnchorsAreOnChain /\ RootsRebuilt

(* An empty ledger, no record, no cycle under way. *)
LEMMA AnchorStarts == Init => AnchorInv
<1> SUFFICES ASSUME Init PROVE AnchorInv
  OBVIOUS
<1> USE DEF Init, IsSequence
<1>1. Linkage
  BY DEF Linkage
<1>2. CycleInv
  BY DEF CycleInv, Stages
<1>3. ChainInv
  BY DEF ChainInv, NoTx
<1>4. AnchorsAreOnChain /\ RootsRebuilt
  BY DEF AnchorsAreOnChain, RootsRebuilt
<1> QED
  BY <1>1, <1>2, <1>3, <1>4 DEF AnchorInv

(* What a step that leaves the tables and the cycle alone keeps. *)
LEMMA TablesStay ==
    ASSUME AnchorInv, UNCHANGED << anchorOf, records, orders >>,
           ledger \subseteq ledger', ledger' \subseteq Entry
    PROVE  Linkage' /\ RootsRebuilt' /\ Unanchored \subseteq Unanchored'
<1>1. anchorOf' = anchorOf /\ records' = records /\ orders' = orders
  OBVIOUS
<1>2. Linkage'
  BY <1>1 DEF AnchorInv, Linkage
<1>3. Unanchored \subseteq Unanchored'
  BY <1>1 DEF Unanchored
<1>4. \A r \in DOMAIN records : Linked(r)' = Linked(r)
  <2> SUFFICES ASSUME NEW r \in DOMAIN records PROVE Linked(r)' = Linked(r)
    OBVIOUS
  <2>1. r # 0
    BY DEF AnchorInv, Linkage, IsSequence
  <2>2. \A e \in ledger' : anchorOf[e] = r => e \in ledger
    BY <2>1 DEF AnchorInv, Linkage
  <2> QED
    BY <1>1, <2>2 DEF Linked
<1>5. RootsRebuilt'
  BY <1>1, <1>4 DEF AnchorInv, RootsRebuilt, Lists
<1> QED
  BY <1>2, <1>3, <1>5

(* The tables are as they were. *)
LEMMA TablesUnchanged ==
    ASSUME AnchorInv, UNCHANGED tableVars
    PROVE  Linkage' /\ RootsRebuilt' /\ Unanchored' = Unanchored
<1>1. /\ ledger' = ledger /\ anchorOf' = anchorOf
      /\ records' = records /\ orders' = orders
  BY DEF tableVars
<1>2. Linkage' /\ RootsRebuilt'
  BY <1>1, TablesStay DEF AnchorInv, Linkage
<1>3. Unanchored' = Unanchored
  BY <1>1 DEF Unanchored
<1> QED
  BY <1>2, <1>3

(* The chain is as it was, and so are the records. *)
LEMMA ChainUnchanged ==
    ASSUME AnchorInv, UNCHANGED << chain, records >>
    PROVE  AnchorsAreOnChain'
BY DEF AnchorInv, AnchorsAreOnChain

(* A new entry has no anchor, so no record's entries change. *)
LEMMA PostKeeps ==
    ASSUME AnchorInv, NEW e \in Entry, Post(e)
    PROVE  AnchorInv'
<1>1. /\ ledger' = ledger \cup {e}
      /\ anchorOf' = anchorOf /\ records' = records /\ orders' = orders
      /\ pool' = pool
      /\ chain' = chain /\ stage' = stage /\ batch' = batch /\ tx' = tx
  BY DEF Post, chainVars, bundlerVars
<1>2. Linkage' /\ RootsRebuilt' /\ Unanchored \subseteq Unanchored'
  BY <1>1, TablesStay DEF AnchorInv, Linkage
<1>3. CycleInv'
  BY <1>1, <1>2 DEF AnchorInv, CycleInv, TxOf, Mined
<1>4. ChainInv'
  BY <1>1 DEF AnchorInv, ChainInv
<1>5. AnchorsAreOnChain'
  BY <1>1, ChainUnchanged
<1> QED
  BY <1>2, <1>3, <1>4, <1>5 DEF AnchorInv

(* What is mined has the next nonce: no mined transaction moves. *)
LEMMA MineKeeps ==
    ASSUME AnchorInv, Mine
    PROVE  AnchorInv'
<1>1. PICK t \in pool : chain' = Append(chain, t)
  BY DEF Mine
<1>2. /\ pool' = {} /\ records' = records /\ stage' = stage
      /\ batch' = batch /\ tx' = tx /\ UNCHANGED tableVars
  BY DEF Mine, tableVars, bundlerVars
<1>3. Linkage' /\ RootsRebuilt' /\ Unanchored' = Unanchored
  BY <1>2, TablesUnchanged
<1>4. /\ IsSequence(chain) /\ Len(chain) \in Nat
      /\ IsSequence(chain') /\ Len(chain') = Len(chain) + 1
      /\ \A k \in 1 .. Len(chain) : chain'[k] = chain[k]
  BY <1>1, Appended DEF AnchorInv, ChainInv, IsSequence
<1>5. Mined => Mined'
  BY <1>2, <1>4 DEF Mined, AnchorInv, ChainInv
<1>6. CycleInv'
  BY <1>2, <1>3, <1>5 DEF AnchorInv, CycleInv, TxOf
<1>7. ChainInv'
  BY <1>2, <1>4 DEF AnchorInv, ChainInv
<1>8. AnchorsAreOnChain'
  BY <1>2, <1>4 DEF AnchorInv, ChainInv, AnchorsAreOnChain
<1> QED
  BY <1>3, <1>6, <1>7, <1>8 DEF AnchorInv

(* A transaction that is gone was in nobody's record. *)
LEMMA EvictKeeps ==
    ASSUME AnchorInv, Evict
    PROVE  AnchorInv'
<1>1. /\ pool' = {} /\ records' = records /\ chain' = chain /\ stage' = stage
      /\ batch' = batch /\ tx' = tx /\ UNCHANGED tableVars
  BY DEF Evict, tableVars, bundlerVars
<1>2. Linkage' /\ RootsRebuilt' /\ Unanchored' = Unanchored
  BY <1>1, TablesUnchanged
<1>3. CycleInv'
  BY <1>1, <1>2 DEF AnchorInv, CycleInv, TxOf, Mined
<1>4. ChainInv'
  BY <1>1 DEF AnchorInv, ChainInv
<1>5. AnchorsAreOnChain'
  BY <1>1, ChainUnchanged
<1> QED
  BY <1>2, <1>3, <1>4, <1>5 DEF AnchorInv

(* The steps of a cycle that write neither to the tables nor to the chain. *)
LEMMA CycleStepKeeps ==
    ASSUME AnchorInv, UNCHANGED << tableVars, chain >>, CycleInv',
           tx'.nonce \in Nat, \A t \in pool' : t.nonce = Len(chain)
    PROVE  AnchorInv'
<1>1. chain' = chain /\ records' = records
  BY DEF tableVars
<1>2. Linkage' /\ RootsRebuilt'
  BY TablesUnchanged
<1>3. ChainInv'
  BY <1>1 DEF AnchorInv, ChainInv
<1>4. AnchorsAreOnChain'
  BY <1>1, ChainUnchanged
<1> QED
  BY <1>2, <1>3, <1>4 DEF AnchorInv

(* fetch_unanchored returns entries without an anchor. *)
LEMMA FetchKeeps ==
    ASSUME AnchorInv, Fetch
    PROVE  AnchorInv'
<1>1. /\ stage' = "hashed" /\ tx' = tx
      /\ pool' = pool /\ chain' = chain /\ UNCHANGED << tableVars, chain >>
      /\ IsInjective(batch') /\ Range(batch') \subseteq Unanchored
  BY DEF Fetch, chainVars, Injection, Range
<1>2. Unanchored' = Unanchored
  BY <1>1, TablesUnchanged
<1>3. CycleInv'
  BY <1>1, <1>2 DEF CycleInv, Stages
<1> QED
  BY <1>1, <1>3, CycleStepKeeps DEF AnchorInv, ChainInv

(* submit_root's transaction speaks of the entries the cycle holds. *)
LEMMA BuildTransactionKeeps ==
    ASSUME AnchorInv, BuildTransaction
    PROVE  AnchorInv'
<1>1. /\ stage = "hashed" /\ stage' = "built" /\ batch' = batch
      /\ tx' = [nonce |-> Len(chain), root |-> Root(batch), count |-> Len(batch)]
      /\ pool' = pool /\ chain' = chain /\ UNCHANGED << tableVars, chain >>
  BY DEF BuildTransaction, chainVars
<1>2. Unanchored' = Unanchored
  BY <1>1, TablesUnchanged
<1>3. tx' = TxOf(batch)'
  BY <1>1 DEF TxOf
<1>4. IsInjective(batch') /\ Range(batch') \subseteq Unanchored'
  BY <1>1, <1>2 DEF AnchorInv, CycleInv
<1>5. CycleInv'
  BY <1>1, <1>3, <1>4 DEF CycleInv, Stages
<1>6. tx'.nonce \in Nat
  BY <1>1 DEF AnchorInv, ChainInv, IsSequence
<1> QED
  BY <1>1, <1>5, <1>6, CycleStepKeeps DEF AnchorInv, ChainInv

(* What is sent has the nonce of the next mined transaction. *)
LEMMA SendKeeps ==
    ASSUME AnchorInv, Send
    PROVE  AnchorInv'
<1>1. /\ stage = "built" /\ stage' = "waiting" /\ batch' = batch /\ tx' = tx
      /\ tx.nonce = Len(chain)
      /\ pool' = {tx} /\ chain' = chain /\ UNCHANGED << tableVars, chain >>
  BY DEF Send
<1>2. Unanchored' = Unanchored
  BY <1>1, TablesUnchanged
<1>3. CycleInv'
  BY <1>1, <1>2 DEF AnchorInv, CycleInv, Stages, TxOf
<1> QED
  BY <1>1, <1>3, CycleStepKeeps DEF AnchorInv, ChainInv

(* With the receipt comes the certainty that the chain has the *)
(* transaction.                                                *)
LEMMA ReceiveKeeps ==
    ASSUME AnchorInv, Receive
    PROVE  AnchorInv'
<1>1. /\ stage = "waiting" /\ stage' = "received" /\ batch' = batch /\ tx' = tx
      /\ Mined
      /\ pool' = pool /\ chain' = chain /\ UNCHANGED << tableVars, chain >>
  BY DEF Receive, chainVars
<1>2. Unanchored' = Unanchored
  BY <1>1, TablesUnchanged
<1>3. CycleInv'
  BY <1>1, <1>2 DEF AnchorInv, CycleInv, Stages, TxOf, Mined
<1> QED
  BY <1>1, <1>3, CycleStepKeeps DEF AnchorInv, ChainInv

(* A cycle that is cut short leaves nothing behind. *)
LEMMA RestKeeps ==
    ASSUME AnchorInv, Rest, UNCHANGED << tableVars, chainVars >>
    PROVE  AnchorInv'
<1>1. pool' = pool /\ chain' = chain /\ UNCHANGED << tableVars, chain >>
  BY DEF chainVars
<1>2. CycleInv'
  BY DEF Rest, CycleInv, Stages
<1>3. tx'.nonce \in Nat
  BY DEF Rest, NoTx
<1> QED
  BY <1>1, <1>2, <1>3, CycleStepKeeps DEF AnchorInv, ChainInv

(* The new record is of a mined transaction that no other record is of, *)
(* and its entries had no anchor before.                                *)
LEMMA SaveKeeps ==
    ASSUME AnchorInv, Save
    PROVE  AnchorInv'
<1>0. PICK n : n = Len(records)
  OBVIOUS
<1>1. /\ stage = "received" /\ Rest
      /\ \A r \in DOMAIN records : records[r] # tx
      /\ records' = Append(records, tx) /\ orders' = Append(orders, batch)
      /\ anchorOf' = [e \in Entry |-> IF e \in Range(batch) THEN n + 1 ELSE anchorOf[e]]
      /\ ledger' = ledger /\ pool' = pool /\ chain' = chain
  BY <1>0 DEF Save, chainVars
<1>2. /\ n \in Nat /\ DOMAIN records = 1 .. n
      /\ Len(records') = n + 1 /\ DOMAIN records' = 1 .. n + 1
      /\ IsSequence(records')
      /\ \A r \in 1 .. n : records'[r] = records[r]
      /\ records'[n + 1] = tx
      /\ IsSequence(orders') /\ Len(orders') = n + 1
      /\ \A r \in 1 .. n : orders'[r] = orders[r]
      /\ orders'[n + 1] = batch
  BY <1>0, <1>1, Appended DEF AnchorInv, Linkage, IsSequence
<1>3. /\ IsInjective(batch) /\ Range(batch) \subseteq Unanchored
      /\ tx = TxOf(batch) /\ Mined
  BY <1>1 DEF AnchorInv, CycleInv
<1>4. Linkage'
  <2>1. anchorOf' \in [Entry -> 0 .. n + 1]
    BY <1>0, <1>1, <1>2 DEF AnchorInv, Linkage
  <2>2. \A e \in Entry : anchorOf'[e] # 0 => e \in ledger
    BY <1>1, <1>3 DEF AnchorInv, Linkage, Unanchored
  <2> QED
    BY <1>1, <1>2, <2>1, <2>2 DEF AnchorInv, Linkage
<1>5. CycleInv'
  BY <1>1 DEF Rest, CycleInv, Stages
<1>6. ChainInv'
  BY <1>1, <1>2 DEF AnchorInv, ChainInv, Rest, NoTx
<1>7. AnchorsAreOnChain'
  <2>1. tx.nonce < Len(chain) /\ chain[tx.nonce + 1] = tx
    BY <1>3 DEF Mined
  <2>2. \A r \in 1 .. n + 1 :
          /\ records'[r].nonce < Len(chain)
          /\ chain[records'[r].nonce + 1] = records'[r]
    BY <1>2, <2>1 DEF AnchorInv, AnchorsAreOnChain
  <2>3. \A r, t \in 1 .. n + 1 : records'[r] = records'[t] => r = t
    BY <1>1, <1>2 DEF AnchorInv, AnchorsAreOnChain
  <2> QED
    BY <1>1, <1>2, <2>2, <2>3 DEF AnchorsAreOnChain
<1>8. RootsRebuilt'
  <2>1. Linked(n + 1)' = Range(batch)
    <3>1. \A e \in ledger : e \in Entry /\ anchorOf[e] \in 0 .. n
      BY <1>0 DEF AnchorInv, Linkage
    <3>2. \A e \in ledger : anchorOf'[e] = n + 1 <=> e \in Range(batch)
      BY <1>1, <1>2, <3>1
    <3>3. Range(batch) \subseteq ledger
      BY <1>3 DEF Unanchored
    <3> QED
      BY <1>1, <3>2, <3>3 DEF Linked
  <2>2. \A r \in 1 .. n : Linked(r)' = Linked(r)
    BY <1>1, <1>2, <1>3 DEF AnchorInv, Linkage, Linked, Unanchored
  <2>3. tx.root = Root(batch) /\ tx.count = Len(batch)
    BY <1>3 DEF TxOf
  <2> SUFFICES ASSUME NEW r \in 1 .. n + 1
               PROVE  /\ Lists(orders'[r], Linked(r)')
                      /\ records'[r].root = Root(orders'[r])
                      /\ records'[r].count = Len(orders'[r])
    BY <1>2 DEF RootsRebuilt, Lists
  <2>4. CASE r = n + 1
    BY <1>2, <1>3, <2>1, <2>3, <2>4 DEF Lists
  <2>5. CASE r \in 1 .. n
    BY <1>2, <2>2, <2>5 DEF AnchorInv, RootsRebuilt
  <2> QED
    BY <1>2, <2>4, <2>5
<1> QED
  BY <1>4, <1>5, <1>6, <1>7, <1>8 DEF AnchorInv

(* Nothing happens to the bundler. *)
LEMMA IdleKeeps ==
    ASSUME AnchorInv, UNCHANGED anchorVars
    PROVE  AnchorInv'
<1>1. /\ stage' = stage /\ batch' = batch /\ tx' = tx /\ pool' = pool
      /\ chain' = chain /\ UNCHANGED << tableVars, chain >>
  BY DEF anchorVars, chainVars, bundlerVars
<1>2. Unanchored' = Unanchored
  BY <1>1, TablesUnchanged
<1>3. CycleInv'
  BY <1>1, <1>2 DEF AnchorInv, CycleInv, TxOf, Mined
<1> QED
  BY <1>1, <1>3, CycleStepKeeps DEF AnchorInv, ChainInv

(* The invariant of the bundler's cycle, whatever ends it and whenever. *)
THEOREM AnchorInvariant == Spec => []AnchorInv
<1>1. AnchorInv /\ [AnchorNext]_anchorVars => AnchorInv'
  <2> SUFFICES ASSUME AnchorInv, [AnchorNext]_anchorVars PROVE AnchorInv'
    OBVIOUS
  <2>1. CASE SendRefused \/ Timeout \/ Interrupt
    BY <2>1, RestKeeps DEF SendRefused, Timeout, Interrupt
  <2> QED
    BY <2>1, PostKeeps, MineKeeps, EvictKeeps, FetchKeeps, BuildTransactionKeeps,
       SendKeeps, ReceiveKeeps, SaveKeeps, IdleKeeps DEF AnchorNext, Cycle
<1> QED
  BY AnchorStarts, <1>1, PTL DEF Spec

(* bundler_task.py saves nothing that the chain has not mined, and nothing *)
(* twice, wherever its cycles are cut short.                               *)
THEOREM RecordsAreOnChain == Spec => []AnchorsAreOnChain
BY AnchorInvariant, PTL DEF AnchorInv

(* The entries that get_entry_proof finds linked to a record are those the *)
(* bundler hashed for it, each once, in whatever order they came.          *)
THEOREM RecordsAreRebuilt == Spec => []RootsRebuilt
BY AnchorInvariant, PTL DEF AnchorInv

(* save_anchor never moves an entry from one anchor to another. *)
THEOREM EntriesStayAnchored == Spec => AnchoredForGood
<1>1. AnchorInv /\ [AnchorNext]_anchorVars
        => [\A e \in Entry : anchorOf[e] # 0 => anchorOf'[e] = anchorOf[e]]_anchorVars
  <2> SUFFICES ASSUME AnchorInv, AnchorNext, NEW e \in Entry, anchorOf[e] # 0
               PROVE  anchorOf'[e] = anchorOf[e]
    OBVIOUS
  <2>1. CASE Save
    <3>1. e \notin Range(batch)
      BY <2>1 DEF Save, AnchorInv, CycleInv, Unanchored
    <3> QED
      BY <2>1, <3>1 DEF Save
  <2>2. CASE UNCHANGED anchorOf
    BY <2>2
  <2> QED
    BY <2>1, <2>2 DEF AnchorNext, Cycle, Post, Mine, Evict, Fetch, BuildTransaction,
       Send, SendRefused, Receive, Timeout, Interrupt, tableVars
<1> QED
  BY AnchorInvariant, <1>1, PTL DEF Spec, AnchoredForGood

-----------------------------------------------------------------------------
(* The waste is bounded because the chain and the pool hold one transaction *)
(* for each record, each failure, and the cycle under way.                 *)

Pooled == IF pool = {} THEN 0 ELSE 1

Underway ==
    IF stage \in {"waiting", "received"} /\ (Mined \/ tx \in pool) THEN 1 ELSE 0

WasteInv ==
    /\ failures \in Nat
    /\ stage = "waiting" => pool \subseteq {tx}
    /\ stage = "received" => pool = {}
    /\ Len(chain) + Pooled <= Len(records) + failures + Underway

(* The quantities of the count are numbers. *)
LEMMA Lengths ==
    ASSUME AnchorInv
    PROVE  /\ Len(chain) \in Nat /\ Len(records) \in Nat
           /\ Pooled \in {0, 1} /\ Underway \in {0, 1}
BY DEF AnchorInv, Linkage, ChainInv, IsSequence, Pooled, Underway

(* Only a cycle cut short can leave a transaction on its way without a *)
(* cycle that waits for it.                                            *)
LEMMA WasteKept ==
    ASSUME AnchorInv, AnchorInv', WasteInv, [AnchorNext]_anchorVars
    PROVE  WasteInv'
<1>0. /\ Len(chain) \in Nat /\ Len(records) \in Nat
      /\ Pooled \in {0, 1} /\ Underway \in {0, 1}
  BY Lengths
<1>1. CASE UNCHANGED << chainVars, bundlerVars, failures, records >>
  BY <1>1 DEF WasteInv, chainVars, bundlerVars, Pooled, Underway, Mined
<1>2. CASE Mine
  <2>1. PICK t \in pool : chain' = Append(chain, t)
    BY <1>2 DEF Mine
  <2>2. /\ pool # {} /\ pool' = {} /\ records' = records /\ stage' = stage
        /\ tx' = tx /\ failures' = failures
    BY <1>2 DEF Mine, tableVars, bundlerVars
  <2>3. /\ Len(chain') = Len(chain) + 1 /\ chain'[Len(chain) + 1] = t
        /\ \A k \in 1 .. Len(chain) : chain'[k] = chain[k]
    BY <2>1, Appended DEF AnchorInv, ChainInv
  <2>4. stage = "waiting" => Mined'
    BY <2>1, <2>2, <2>3, <1>0 DEF WasteInv, AnchorInv, ChainInv, Mined
  <2>5. stage # "received"
    BY <2>2 DEF WasteInv
  <2>6. Underway' = IF stage = "waiting" THEN 1 ELSE 0
    BY <2>2, <2>4, <2>5 DEF Underway
  <2>7. Underway <= Underway'
    BY <2>5, <2>6, <1>0 DEF Underway
  <2>8. Pooled = 1 /\ Pooled' = 0
    BY <2>2 DEF Pooled
  <2> QED
    BY <1>0, <2>2, <2>3, <2>5, <2>6, <2>7, <2>8 DEF WasteInv
<1>3. CASE Evict
  <2>1. /\ pool # {} /\ pool' = {} /\ records' = records /\ chain' = chain
        /\ stage' = stage /\ tx' = tx /\ failures' = failures + 1
    BY <1>3 DEF Evict, tableVars, bundlerVars
  <2>2. Pooled = 1 /\ Pooled' = 0
    BY <2>1 DEF Pooled
  <2>3. Underway' \in {0, 1}
    BY DEF Underway
  <2> QED
    BY <1>0, <2>1, <2>2, <2>3 DEF WasteInv
<1>4. CASE Fetch \/ BuildTransaction
  <2>1. /\ pool' = pool /\ chain' = chain /\ records' = records
        /\ failures' = failures
        /\ stage \in {"asleep", "hashed"} /\ stage' \in {"hashed", "built"}
    BY <1>4 DEF Fetch, BuildTransaction, tableVars, chainVars
  <2>2. Underway = 0 /\ Underway' = 0 /\ Pooled' = Pooled
    BY <2>1 DEF Underway, Pooled
  <2> QED
    BY <1>0, <2>1, <2>2 DEF WasteInv
<1>5. CASE Send
  <2>1. /\ pool' = {tx} /\ chain' = chain /\ records' = records
        /\ failures' = failures /\ tx' = tx
        /\ stage = "built" /\ stage' = "waiting"
    BY <1>5 DEF Send, tableVars
  <2>2. Underway = 0 /\ Underway' = 1 /\ Pooled' = 1
    BY <2>1 DEF Underway, Pooled
  <2> QED
    BY <1>0, <2>1, <2>2 DEF WasteInv
<1>6. CASE SendRefused \/ Timeout \/ Interrupt
  <2>1. /\ pool' = pool /\ chain' = chain /\ records' = records
        /\ stage' = "asleep"
    BY <1>6 DEF SendRefused, Timeout, Interrupt, Rest, tableVars, chainVars
  <2>2. Underway' = 0 /\ Pooled' = Pooled
    BY <2>1 DEF Underway, Pooled
  <2>3. CASE failures' = failures + 1
    BY <1>0, <2>1, <2>2, <2>3 DEF WasteInv
  <2>4. CASE failures' = failures /\ (SendRefused \/ Timeout)
    <3>1. Underway = 0
      BY <2>4 DEF Underway, SendRefused, Timeout
    <3> QED
      BY <1>0, <2>1, <2>2, <2>4, <3>1 DEF WasteInv
  <2> QED
    BY <1>6, <2>3, <2>4 DEF SendRefused, Timeout, Interrupt
<1>7. CASE Receive
  <2>1. /\ pool' = pool /\ chain' = chain /\ records' = records
        /\ failures' = failures /\ tx' = tx
        /\ stage = "waiting" /\ stage' = "received" /\ Mined
    BY <1>7 DEF Receive, tableVars, chainVars
  <2>2. pool = {}
    <3>1. tx \notin pool
      BY <1>0, <2>1 DEF AnchorInv, ChainInv, Mined
    <3> QED
      BY <2>1, <3>1 DEF WasteInv
  <2>3. Underway = 1 /\ Underway' = 1 /\ Pooled' = Pooled
    BY <2>1 DEF Underway, Pooled, Mined
  <2> QED
    BY <1>0, <2>1, <2>2, <2>3 DEF WasteInv
<1>8. CASE Save
  <2>1. /\ pool' = pool /\ chain' = chain /\ records' = Append(records, tx)
        /\ failures' = failures
        /\ stage = "received" /\ stage' = "asleep"
    BY <1>8 DEF Save, Rest, chainVars
  <2>2. Len(records') = Len(records) + 1
    BY <2>1, Appended DEF AnchorInv, Linkage
  <2>3. Underway' = 0 /\ Pooled' = Pooled
    BY <2>1 DEF Underway, Pooled
  <2> QED
    BY <1>0, <2>1, <2>2, <2>3 DEF WasteInv
<1>9. CASE \E e \in Entry : Post(e)
  BY <1>1, <1>9 DEF Post
<1> QED
  BY <1>1, <1>2, <1>3, <1>4, <1>5, <1>6, <1>7, <1>8, <1>9
     DEF AnchorNext, Cycle, anchorVars, tableVars

(* Without failures the chain is paid exactly one root for each record and *)
(* the one in flight; each failure can cost one more, and nothing else can. *)
THEOREM WasteIsBounded == Spec => []WasteBounded
<1>1. Init => WasteInv
  BY DEF Init, WasteInv, Pooled, Underway
<1>2. AnchorInv /\ AnchorInv' /\ WasteInv /\ [AnchorNext]_anchorVars => WasteInv'
  BY WasteKept
<1>3. AnchorInv /\ WasteInv => WasteBounded
  <2> SUFFICES ASSUME AnchorInv, WasteInv PROVE WasteBounded
    OBVIOUS
  <2>1. CASE stage = "waiting" /\ ~ Mined /\ tx \in pool
    <3>1. Underway = 1 /\ Pooled = 1 /\ InFlight = 0
      BY <2>1 DEF Underway, Pooled, InFlight
    <3> QED
      BY <3>1, Lengths DEF WasteInv, WasteBounded
  <2>2. CASE ~ (stage = "waiting" /\ ~ Mined /\ tx \in pool)
    <3>1. Underway = InFlight
      BY <2>2 DEF Underway, InFlight, WasteInv
    <3>2. InFlight \in {0, 1}
      BY DEF InFlight
    <3> QED
      BY <3>1, <3>2, Lengths DEF WasteInv, WasteBounded
  <2> QED
    BY <2>1, <2>2
<1> QED
  BY AnchorInvariant, <1>1, <1>2, <1>3, PTL DEF Spec

-----------------------------------------------------------------------------
(* Types: what the tables do not say is the shape of a cycle. *)

Shape ==
    /\ pool = {} \/ \E t : pool = {t}
    /\ stage \in Stages
    /\ stage = "asleep" <=> batch = << >>
    /\ stage # "asleep" => Len(batch) \in Nat \ {0}
    /\ stage \in {"asleep", "hashed"} <=> tx = NoTx
    /\ failures \in 0 .. MaxFailures

LEMMA ShapeKept == AnchorInv /\ Shape /\ [AnchorNext]_anchorVars => Shape'
<1> SUFFICES ASSUME AnchorInv, Shape, [AnchorNext]_anchorVars PROVE Shape'
  OBVIOUS
<1> USE DEF Shape, Stages
<1>1. CASE \E e \in Entry : Post(e)
  BY <1>1 DEF Post, chainVars, bundlerVars
<1>2. CASE Mine \/ Evict
  BY <1>2, AnchorAssumption DEF Mine, Evict, tableVars, bundlerVars
<1>3. CASE Fetch
  <2>1. PICK n \in 1 .. BatchSize : batch' \in Injection(1 .. n, Unanchored)
    BY <1>3 DEF Fetch
  <2>2. n \in Nat \ {0}
    BY <2>1, AnchorAssumption
  <2>3. Len(batch') = n
    BY <2>1, <2>2 DEF Injection
  <2>4. batch' # << >>
    BY <2>2, <2>3
  <2> QED
    BY <1>3, <2>2, <2>3, <2>4 DEF Fetch, tableVars, chainVars
<1>4. CASE BuildTransaction
  <2>1. tx' # NoTx
    <3>1. tx'.count = Len(batch) /\ NoTx.count = 0
      BY <1>4 DEF BuildTransaction, NoTx
    <3>2. Len(batch) # 0
      BY <1>4 DEF BuildTransaction
    <3> QED
      BY <3>1, <3>2
  <2> QED
    BY <1>4, <2>1 DEF BuildTransaction, chainVars
<1>5. CASE Send
  BY <1>5 DEF Send, tableVars
<1>6. CASE Receive
  BY <1>6 DEF Receive, tableVars, chainVars
<1>7. CASE SendRefused \/ Timeout \/ Save
  BY <1>7 DEF SendRefused, Timeout, Save, Rest, chainVars
<1>8. CASE Interrupt
  BY <1>8, AnchorAssumption DEF Interrupt, Rest, chainVars
<1>9. CASE UNCHANGED anchorVars
  BY <1>9 DEF anchorVars, chainVars, bundlerVars
<1> QED
  BY <1>1, <1>2, <1>3, <1>4, <1>5, <1>6, <1>7, <1>8, <1>9 DEF AnchorNext, Cycle

(* The tables, the chain and the cycle of bundler_task.py are well-formed, *)
(* and at most one transaction waits.                                      *)
THEOREM TypeCorrect == Spec => []TypeOK
<1>1. Init => Shape
  BY AnchorAssumption DEF Init, Shape, Stages
<1>2. Spec => []Shape
  BY <1>1, ShapeKept, AnchorInvariant, PTL DEF Spec
<1>3. AnchorInv /\ Shape => TypeOK
  <2> SUFFICES ASSUME AnchorInv, Shape PROVE TypeOK
    OBVIOUS
  <2>1. Cardinality(pool) <= 1
    <3>1. CASE pool = {}
      BY <3>1, FS_EmptySet
    <3>2. CASE pool # {}
      <4>1. PICK t : pool = {t}
        BY <3>2 DEF Shape
      <4>2. Cardinality(pool) = 1
        BY <4>1, FS_Singleton
      <4> QED
        BY <4>2
    <3> QED
      BY <3>1, <3>2
  <2> QED
    BY <2>1 DEF AnchorInv, Linkage, Shape, TypeOK
<1> QED
  BY <1>2, <1>3, AnchorInvariant, PTL

-----------------------------------------------------------------------------
(* The bundler and the proof endpoint together. *)

(* Requests for proofs read the tables and change none: the composition    *)
(* does to them and to the chain what AnchorBundler does.                  *)
THEOREM SystemIsBundler == System => Spec
<1>1. Start => Init
  BY DEF Start
<1>2. [Next]_vars => [AnchorNext]_anchorVars
  BY DEF Next, AskFor, vars
<1> QED
  BY <1>1, <1>2, PTL DEF System, Spec

(* ORDER BY id lists the entries of a set, each after the smaller ones. *)
LEMMA SortedLists ==
    ASSUME NEW S \in SUBSET Entry
    PROVE  /\ Cardinality(S) \in Nat
           /\ Len(Sorted(S)) = Cardinality(S)
           /\ \A k \in 1 .. Cardinality(S) : Sorted(S)[k] \in S
           /\ \A e \in S : LET i == Cardinality({d \in S : d < e})
                           IN  i \in 0 .. Len(Sorted(S)) - 1 /\ Sorted(S)[i + 1] = e
<1> DEFINE n == Cardinality(S)
<1>1. IsFiniteSet(S) /\ S \in SUBSET Nat /\ n \in Nat
  BY EntriesAssumption, AnchorAssumption, FS_Subset, FS_CardinalityType
<1>2. \E f \in [1 .. n -> S] : \A i, j \in DOMAIN f : i < j => f[i] < f[j]
  <2>1. PICK f \in [1 .. n -> S] : Increasing(f, n)
    BY <1>1, OrderExists
  <2> QED
    BY <2>1 DEF Increasing
<1>3. Sorted(S) \in [1 .. n -> S] /\ Increasing(Sorted(S), n)
  BY <1>2 DEF Sorted, Increasing
<1>4. ASSUME NEW e \in S
      PROVE  LET k == Cardinality({d \in S : d < e}) + 1
             IN  k \in 1 .. n /\ Sorted(S)[k] = e
  BY <1>1, <1>3, PlaceOf
<1>5. ASSUME NEW e \in S PROVE Cardinality({d \in S : d < e}) \in Nat
  BY <1>1, FS_Subset, FS_CardinalityType
<1> HIDE DEF n
<1>6. Len(Sorted(S)) = n
  BY <1>1, <1>3
<1>7. ASSUME NEW e \in S
      PROVE  LET i == Cardinality({d \in S : d < e})
             IN  i \in 0 .. Len(Sorted(S)) - 1 /\ Sorted(S)[i + 1] = e
  BY <1>1, <1>4, <1>5, <1>6
<1> QED
  BY <1>1, <1>3, <1>6, <1>7 DEF n

(* The entries linked to an anchor are a batch, and the entry asked for is *)
(* where get_entry_proof looks for it.                                     *)
LEMMA PlaceInBatch ==
    ASSUME Linkage, NEW e \in ledger, anchorOf[e] # 0
    PROVE  LET linked == Linked(anchorOf[e])
               i == Cardinality({d \in linked : d < e})
           IN  /\ Sorted(linked) \in Batches
               /\ i \in 0 .. Len(Sorted(linked)) - 1
               /\ Sorted(linked)[i + 1] = e
<1>1. e \in Linked(anchorOf[e]) /\ Linked(anchorOf[e]) \in (SUBSET Entry) \ {{}}
  BY DEF Linked, Linkage
<1>2. Sorted(Linked(anchorOf[e])) \in Batches
  BY <1>1, EntriesAssumption
<1> QED
  BY <1>1, <1>2, SortedLists

(* Every request that get_entry_proof makes asks about a batch and an *)
(* index of it, as MerkleWalk requires: anchored entries are finitely *)
(* many and the entry asked for is one of them.                       *)
THEOREM SystemIsWalk == System => WalkSpec
<1>1. Start => Idle
  BY DEF Start
<1>2. Linkage /\ [Next]_vars => [WalkNext]_walkVars
  <2> SUFFICES ASSUME Linkage, Next PROVE WalkNext \/ UNCHANGED walkVars
    BY DEF vars
  <2>1. CASE \E e \in Entry : AskFor(e)
    <3>1. PICK e \in Entry : AskFor(e)
      BY <2>1
    <3> DEFINE linked == Linked(anchorOf[e])
               i == Cardinality({d \in linked : d < e})
    <3>2. PICK leaf \in Leaf : Ask(Sorted(linked), i, leaf)
      BY <3>1 DEF AskFor
    <3>3. Sorted(linked) \in Batches /\ i \in 0 .. Len(Sorted(linked)) - 1
      BY <3>1, PlaceInBatch DEF AskFor
    <3> QED
      BY <3>2, <3>3 DEF WalkNext
  <2> QED
    BY <2>1 DEF Next, WalkNext
<1>3. System => []Linkage
  BY SystemIsBundler, AnchorInvariant, PTL DEF AnchorInv
<1> QED
  BY <1>1, <1>2, <1>3, PTL DEF System, WalkSpec

(* Whatever the bundler did before, the proof that GET /ledger/{id}/proof  *)
(* answers with convinces of the entry and of no other.                    *)
THEOREM SystemProofsAreRight == System => []VerdictIsRight
BY SystemIsWalk, ProofsAreRight, PTL

(* The records it answers from are on the chain, and lead back to the      *)
(* entries linked to them.                                                 *)
THEOREM SystemRecordsHold == System => [](AnchorsAreOnChain /\ RootsRebuilt)
BY SystemIsBundler, RecordsAreOnChain, RecordsAreRebuilt, PTL

(* The proof of a request is for the entry that was asked for: the order *)
(* and the index that get_entry_proof rebuilds lead back to it.           *)
THEOREM ProofsAreForTheEntry ==
    System => [][\A e \in Entry : AskFor(e) => leaves'[index' + 1] = e]_vars
<1>1. Linkage /\ [Next]_vars =>
        [\A e \in Entry : AskFor(e) => leaves'[index' + 1] = e]_vars
  <2> SUFFICES ASSUME Linkage, NEW e \in Entry, AskFor(e) PROVE leaves'[index' + 1] = e
    OBVIOUS
  <2> DEFINE linked == Linked(anchorOf[e])
             i == Cardinality({d \in linked : d < e})
  <2>1. e \in ledger /\ anchorOf[e] # 0
    BY DEF AskFor
  <2>2. leaves' = Sorted(linked) /\ index' = i
    BY DEF AskFor, Ask
  <2> QED
    BY <2>1, <2>2, PlaceInBatch
<1>2. System => []Linkage
  BY SystemIsBundler, AnchorInvariant, PTL DEF AnchorInv
<1> QED
  BY <1>1, <1>2, PTL DEF System

(* A request is about the entries of one anchor. *)
Asked == phase # "idle" => \E r \in DOMAIN records : leaves = Sorted(Linked(r))

(* No entry is linked while a request is served: it is served in one stretch. *)
LEMMA RequestsAreAsked == System => []Asked
<1>1. Start => Asked
  BY DEF Start, Idle, Asked
<1>2. Linkage /\ Asked /\ [Next]_vars => Asked'
  <2> SUFFICES ASSUME Linkage, Asked, [Next]_vars, phase' # "idle"
               PROVE  \E r \in DOMAIN records' : leaves' = Sorted(Linked(r)')
    BY DEF Asked
  <2>1. CASE \E e \in Entry : AskFor(e)
    <3>1. PICK e \in Entry : AskFor(e)
      BY <2>1
    <3> DEFINE r == anchorOf[e]
    <3>2. /\ leaves' = Sorted(Linked(r)) /\ r # 0
          /\ ledger' = ledger /\ anchorOf' = anchorOf /\ records' = records
      BY <3>1 DEF AskFor, Ask, anchorVars, tableVars
    <3>3. r \in DOMAIN records
      BY <3>2 DEF Linkage, IsSequence
    <3>4. Linked(r)' = Linked(r)
      BY <3>2 DEF Linked
    <3> QED
      BY <3>2, <3>3, <3>4
  <2>2. CASE phase # "idle" /\ leaves' = leaves /\ UNCHANGED tableVars
    <3>1. ledger' = ledger /\ anchorOf' = anchorOf /\ records' = records
      BY <2>2 DEF tableVars
    <3>2. PICK r \in DOMAIN records : leaves = Sorted(Linked(r))
      BY <2>2 DEF Asked
    <3>3. Linked(r)' = Linked(r)
      BY <3>1 DEF Linked
    <3> QED
      BY <2>2, <3>1, <3>2, <3>3
  <2>3. \/ \E e \in Entry : AskFor(e)
        \/ phase # "idle" /\ leaves' = leaves /\ UNCHANGED tableVars
    BY DEF Next, vars, walkVars, anchorVars, Walk, Build, Built, Note, Proved, Fold,
       Verified, Forget
  <2> QED
    BY <2>1, <2>2, <2>3
<1>3. System => []Linkage
  BY SystemIsBundler, AnchorInvariant, PTL DEF AnchorInv
<1> QED
  BY <1>1, <1>2, <1>3, PTL DEF System

(* If the batch was anchored in the order of ids, GET /ledger/{id}/proof   *)
(* rebuilds the very tree whose root the bundler submitted, however the    *)
(* ids were committed: the proof leads to the root in the entry's          *)
(* AnchorRecord, the only thing the client can compare it with.            *)
THEOREM ProofsLeadToAnchors == System => []ProofLeadsToAnchor
<1>1. WalkInv /\ RootOnTop /\ AnchorInv /\ Asked => ProofLeadsToAnchor
  <2> SUFFICES ASSUME WalkInv, RootOnTop, AnchorInv, Asked, phase = "answered",
                      orders[AnchorAsked] = Sorted(Linked(AnchorAsked))
               PROVE  LeadsToAnchor
    BY DEF ProofLeadsToAnchor
  <2>1. PICK r \in DOMAIN records : leaves = Sorted(Linked(r))
    BY DEF Asked
  <2>2. Linked(r) \in SUBSET Entry
    BY DEF Linked, AnchorInv, Linkage
  <2>3. index + 1 \in 1 .. Cardinality(Linked(r))
    <3>1. index \in 0 .. Len(leaves) - 1
      BY DEF WalkInv, TreeInv
    <3> QED
      BY <2>1, <2>2, <3>1, SortedLists
  <2>4. leaves[index + 1] \in Linked(r)
    BY <2>1, <2>2, <2>3, SortedLists
  <2>5. AnchorAsked = r
    BY <2>4 DEF Linked, AnchorAsked
  <2>6. records[r].root = Root(leaves)
    BY <2>1, <2>5 DEF AnchorInv, RootsRebuilt
  <2>7. Top[1] = Root(leaves)
    BY DEF RootOnTop
  <2> QED
    BY <2>5, <2>6, <2>7 DEF LeadsToAnchor
<1> QED
  BY <1>1, SystemIsWalk, SystemIsBundler, WalkInvariant, TopIsRoot, AnchorInvariant,
     RequestsAreAsked, PTL
=============================================================================
