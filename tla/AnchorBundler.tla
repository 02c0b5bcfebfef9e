--------------------------- MODULE AnchorBundler ---------------------------
(***************************************************************************)
(* The anchoring of ledger entries: run_bundler_loop takes entries that no *)
(* anchor has, submits the Merkle root of the batch to the LedgerAnchor    *)
(* contract, waits for the receipt, and saves an AnchorRecord to which it  *)
(* links the entries.  The chain and the database do not share a           *)
(* transaction, and every step in between can be the last one of a cycle.  *)
(*                                                                         *)
(* The account of the bundler signs nothing else, so its nonce is the      *)
(* number of its mined transactions.  A transaction is its content: two    *)
(* with the same nonce, root and count have the same hash.                 *)
(*                                                                         *)
(* A batch is hashed in whatever order fetch_unanchored returned it, which *)
(* is not written down anywhere; orders keeps it here, to speak of.        *)
(***************************************************************************)
EXTENDS Naturals, FiniteSets, Merkle

CONSTANTS Entry,        \* ids of ledger entries, numbers
          BatchSize,    \* AnchorConfig.batch_size
          MaxFailures   \* bound: cycles cut short, transactions evicted

ASSUME AnchorAssumption ==
    /\ Entry \subseteq Nat
    /\ BatchSize \in Nat \ {0}
    /\ MaxFailures \in Nat

VARIABLES ledger,    \* the ids of committed entries
          anchorOf,  \* their anchor_id: a position in records, 0 for NULL
          records,   \* the AnchorRecords, in the order of their commits
          pool,      \* the bundler's transaction waiting to be mined, if any
          chain,     \* its mined transactions
          stage,     \* where the bundler's cycle is
          batch,     \* the entries it has fetched, as they came
          tx,        \* the transaction it has built
          failures,
          orders     \* history: for each record, its batch as it was hashed

chainVars   == << pool, chain >>
tableVars   == << ledger, anchorOf, records, orders >>
bundlerVars == << stage, batch, tx >>
anchorVars  == << tableVars, chainVars, bundlerVars, failures >>

NoTx == [nonce |-> 0, root |-> << >>, count |-> 0]

Stages == {"asleep", "hashed", "built", "waiting", "received"}

(* ORDER BY id *)
Sorted(S) == CHOOSE seq \in [1 .. Cardinality(S) -> S] :
                 \A i, j \in DOMAIN seq : i < j => seq[i] < seq[j]

(* Variant: the query without anchor_id IS NULL. *)
UnanchoredOrNot == ledger

Unanchored == {e \in ledger : anchorOf[e] = 0}

Linked(r) == {e \in ledger : anchorOf[e] = r}

Init ==
    /\ ledger = {}
    /\ anchorOf = [e \in Entry |-> 0]
    /\ records = << >>
    /\ pool = {}
    /\ chain = << >>
    /\ stage = "asleep"
    /\ batch = << >>
    /\ tx = NoTx
    /\ failures = 0
    /\ orders = << >>

-----------------------------------------------------------------------------
(* The ledger: an id is drawn before its transaction commits, so entries   *)
(* appear in any order of ids.                                             *)
Post(e) ==
    /\ e \notin ledger
    /\ ledger' = ledger \cup {e}
    /\ UNCHANGED << anchorOf, records, orders, chainVars, bundlerVars, failures >>

(* The chain. *)
Mine ==
    /\ pool # {}
    /\ \E t \in pool : chain' = Append(chain, t)
    /\ pool' = {}
    /\ UNCHANGED << tableVars, bundlerVars, failures >>

Evict ==
    /\ pool # {}
    /\ failures < MaxFailures
    /\ pool' = {}
    /\ failures' = failures + 1
    /\ UNCHANGED << tableVars, chain, bundlerVars >>

-----------------------------------------------------------------------------
Rest ==
    /\ stage' = "asleep"
    /\ batch' = << >>
    /\ tx' = NoTx

(* Variant: a cycle that goes on with no entry. *)
FetchNothingToo ==
    /\ stage = "asleep"
    /\ \E n \in 0 .. BatchSize : batch' \in Injection(1 .. n, Unanchored)
    /\ stage' = "hashed"
    /\ UNCHANGED << tx, tableVars, chainVars, failures >>

(* fetch_unanchored returns at most limit entries without an anchor, each   *)
(* once and in any order.  A cycle that finds none changes nothing.         *)
Fetch ==
    /\ stage = "asleep"
    /\ \E n \in 1 .. BatchSize : batch' \in Injection(1 .. n, Unanchored)
    /\ stage' = "hashed"
    /\ UNCHANGED << tx, tableVars, chainVars, failures >>

(* The root of the batch as it is; get_transaction_count counts what is    *)
(* mined.                                                                  *)
BuildTransaction ==
    /\ stage = "hashed"
    /\ tx' = [nonce |-> Len(chain), root |-> Root(batch), count |-> Len(batch)]
    /\ stage' = "built"
    /\ UNCHANGED << batch, tableVars, chainVars, failures >>

(* The node takes a transaction with the next nonce, instead of one that is *)
(* waiting with the same nonce if it pays for that.                         *)
Send ==
    /\ stage = "built"
    /\ tx.nonce = Len(chain)
    /\ pool' = {tx}
    /\ stage' = "waiting"
    /\ UNCHANGED << batch, tx, tableVars, chain, failures >>

(* "nonce too low", "already known" or "replacement underpriced": the error *)
(* ends the cycle.                                                          *)
SendRefused ==
    /\ stage = "built"
    /\ tx.nonce < Len(chain) \/ pool # {}
    /\ Rest
    /\ UNCHANGED << tableVars, chainVars, failures >>

Mined == tx.nonce < Len(chain) /\ chain[tx.nonce + 1] = tx

(* Variant: the hash of the transaction is taken for its receipt. *)
ReceiveUnmined ==
    /\ stage = "waiting"
    /\ stage' = "received"
    /\ UNCHANGED << batch, tx, tableVars, chainVars, failures >>

Receive ==
    /\ stage = "waiting"
    /\ Mined
    /\ stage' = "received"
    /\ UNCHANGED << batch, tx, tableVars, chainVars, failures >>

(* Variant: the wait ends while the transaction may still be mined. *)
TimeoutEarly ==
    /\ stage = "waiting"
    /\ ~ Mined
    /\ Rest
    /\ UNCHANGED << tableVars, chainVars, failures >>

(* wait_for_transaction_receipt gives up on a transaction that is gone. *)
Timeout ==
    /\ stage = "waiting"
    /\ ~ Mined
    /\ tx \notin pool
    /\ Rest
    /\ UNCHANGED << tableVars, chainVars, failures >>

(* Variant: every entry that has no anchor by now is linked. *)
SaveUnanchored ==
    /\ stage = "received"
    /\ \A r \in DOMAIN records : records[r] # tx
    /\ records' = Append(records, tx)
    /\ orders' = Append(orders, batch)
    /\ anchorOf' = [e \in Entry |->
           IF e \in Unanchored THEN Len(records) + 1 ELSE anchorOf[e]]
    /\ Rest
    /\ UNCHANGED << ledger, chainVars, failures >>

(* save_anchor: the record and the links in one transaction.  The unique   *)
(* tx_hash of another record would refuse it; no two batches have one.     *)
Save ==
    /\ stage = "received"
    /\ \A r \in DOMAIN records : records[r] # tx
    /\ records' = Append(records, tx)
    /\ orders' = Append(orders, batch)
    /\ anchorOf' = [e \in Entry |->
           IF e \in Range(batch) THEN Len(records) + 1 ELSE anchorOf[e]]
    /\ Rest
    /\ UNCHANGED << ledger, chainVars, failures >>

(* Variant: the error of a cycle ends the loop. *)
InterruptForGood ==
    \/ /\ stage \notin {"asleep", "stopped"}
       /\ failures < MaxFailures
       /\ failures' = failures + 1
       /\ stage' = "stopped"
       /\ UNCHANGED << batch, tx, tableVars, chainVars >>
    \/ /\ stage = "stopped"
       /\ UNCHANGED anchorVars

(* Any error of the node or the database, a receipt that is too late, or   *)
(* the end of the process: the loop logs it, or starts again from nothing. *)
Interrupt ==
    /\ stage # "asleep"
    /\ failures < MaxFailures
    /\ failures' = failures + 1
    /\ Rest
    /\ UNCHANGED << tableVars, chainVars >>

Cycle == Fetch \/ BuildTransaction \/ Send \/ SendRefused \/ Receive
            \/ Timeout \/ Save

AnchorNext == (\E e \in Entry : Post(e)) \/ Mine \/ Evict \/ Cycle \/ Interrupt

Spec == Init /\ [][AnchorNext]_anchorVars

(* The loop runs for ever, the chain mines what it keeps, and only finitely *)
(* many cycles fail.                                                        *)
Fairness ==
    /\ WF_anchorVars(Mine)
    /\ WF_anchorVars(Cycle)

FairSpec == Spec /\ Fairness

-----------------------------------------------------------------------------
TypeOK ==
    /\ ledger \subseteq Entry
    /\ anchorOf \in [Entry -> 0 .. Len(records)]
    /\ \A e \in Entry : anchorOf[e] # 0 => e \in ledger
    /\ Cardinality(pool) <= 1
    /\ stage \in Stages
    /\ stage = "asleep" <=> batch = << >>
    /\ stage \in {"asleep", "hashed"} <=> tx = NoTx
    /\ failures \in 0 .. MaxFailures

(* A record speaks of a transaction that was mined, with its root and its  *)
(* number of entries, and no two records of the same one: a cycle that was *)
(* cut short never leaves a record of what the chain has not got.          *)
AnchorsAreOnChain ==
    /\ \A r \in DOMAIN records :
           records[r].nonce < Len(chain) /\ chain[records[r].nonce + 1] = records[r]
    /\ \A r, s \in DOMAIN records : records[r] = records[s] => r = s

(* A list of the elements of S, each once. *)
Lists(list, S) == IsInjective(list) /\ Range(list) = S

(* The entries linked to a record are those whose hashes its root was      *)
(* computed from, each once and no other, however late and out of order    *)
(* entries are committed: get_entry_proof finds all it needs for the tree. *)
RootsRebuilt ==
    \A r \in DOMAIN records :
        /\ Lists(orders[r], Linked(r))
        /\ records[r].root = Root(orders[r])
        /\ records[r].count = Len(orders[r])

(* An entry that has an anchor keeps it: proofs given out stay the entry's *)
(* proofs.                                                                 *)
AnchoredForGood ==
    [][\A e \in Entry : anchorOf[e] # 0 => anchorOf'[e] = anchorOf[e]]_anchorVars

InFlight == IF stage \in {"waiting", "received"} /\ Mined THEN 1 ELSE 0

(* The chain holds no root without a record but those of cycles that were  *)
(* cut short: a batch is not paid for twice because of a refusal, a        *)
(* replacement or a nonce that was out of date.                            *)
WasteBounded == Len(chain) <= Len(records) + InFlight + failures

(* The backlog drains, again and again, whatever order entries are         *)
(* committed in and wherever cycles were cut short before.                 *)
BacklogDrains == []<>(Unanchored = {})
=============================================================================
