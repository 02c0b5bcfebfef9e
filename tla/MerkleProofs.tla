---------------------------- MODULE MerkleProofs ----------------------------
(***************************************************************************)
(* Proof that get_proof and verify_proof agree, for batches of any length. *)
(*                                                                         *)
(* The invariant follows the path from the leaf to the root: the index of  *)
(* the path at every level, which the code forgets as it climbs.  What the *)
(* loop of verify_proof has computed is the node of the path exactly if    *)
(* the claimed leaf is the leaf that the proof was made for.               *)
(***************************************************************************)
EXTENDS MerkleWalk, DataFacts, TLAPS

(* A hash of a pair tells both its halves. *)
LEMMA PairsDiffer ==
    ASSUME NEW a, NEW b, NEW c, NEW d, PairHash(a, b) = PairHash(c, d)
    PROVE  a = c /\ b = d
BY DEF PairHash

(* The hash of a leaf tells the leaf. *)
LEMMA LeavesDiffer ==
    ASSUME NEW a, NEW b, LeafHash(a) = LeafHash(b)
    PROVE  a = b
BY DEF LeafHash

(* The level above one of n nodes has half as many, rounded up, and none *)
(* of its nodes is missing.                                              *)
LEMMA AboveIsLevel ==
    ASSUME NEW level, IsSequence(level), Len(level) >= 1
    PROVE  /\ IsSequence(Above(level))
           /\ Len(Above(level)) = (Len(level) + 1) \div 2
           /\ Len(Above(level)) >= 1
<1> DEFINE n == (Len(level) + 1) \div 2
<1>1. n \in Nat /\ n >= 1
  BY DEF IsSequence
<1>2. Len(Above(level)) = n
  BY <1>1 DEF Above
<1> QED
  BY <1>1, <1>2 DEF Above, IsSequence

(* One round of verify_proof leads from the node of the path to the node   *)
(* of the path on the level above, and from no other hash to it.           *)
LEMMA StepUp ==
    ASSUME NEW level, IsSequence(level), NEW i \in 0 .. Len(level) - 1, NEW c
    PROVE  /\ i \div 2 \in 0 .. Len(Above(level)) - 1
           /\ Climb(c, [hash |-> Sibling(level, i), side |-> SideOf(i)])
                 = Above(level)[i \div 2 + 1]
              <=> c = level[i + 1]
<1> DEFINE j == i \div 2
           step == [hash |-> Sibling(level, i), side |-> SideOf(i)]
<1>1. /\ Len(level) \in Nat /\ Len(level) >= 1 /\ i \in Nat /\ i < Len(level)
      /\ j \in Nat /\ (i = 2 * j \/ i = 2 * j + 1)
  BY DEF IsSequence
<1>2. /\ Len(Above(level)) = (Len(level) + 1) \div 2
      /\ j \in 0 .. Len(Above(level)) - 1
  BY <1>1, AboveIsLevel
<1>3. Above(level)[j + 1] =
        PairHash(level[2 * j + 1], IF 2 * j + 1 < Len(level) THEN level[2 * j + 2]
                                                        ELSE level[2 * j + 1])
  <2>1. j + 1 \in 1 .. (Len(level) + 1) \div 2
    BY <1>1, <1>2
  <2>2. 2 * (j + 1) - 1 = 2 * j + 1
    BY <1>1
  <2> QED
    BY <1>1, <2>1, <2>2 DEF Above
<1>4. CASE i = 2 * j
  <2>1. i % 2 = 0
    BY <1>1, <1>4
  <2>2. Climb(c, step) = PairHash(c, Sibling(level, i))
    BY <2>1 DEF Climb, SideOf
  <2>3. Sibling(level, i) = IF 2 * j + 1 < Len(level) THEN level[2 * j + 2]
                                                      ELSE level[2 * j + 1]
    BY <1>1, <1>4, <2>1 DEF Sibling, SiblingIndex
  <2>4. Climb(c, step) = Above(level)[j + 1] <=> c = level[2 * j + 1]
    BY <1>3, <2>2, <2>3, PairsDiffer
  <2> QED
    BY <1>2, <1>4, <2>4
<1>5. CASE i = 2 * j + 1
  <2>1. i % 2 = 1
    BY <1>1, <1>5
  <2>2. Climb(c, step) = PairHash(Sibling(level, i), c)
    BY <2>1 DEF Climb, SideOf
  <2>3. Sibling(level, i) = level[2 * j + 1]
    BY <1>1, <1>5, <2>1 DEF Sibling, SiblingIndex
  <2>4. Above(level)[j + 1] = PairHash(level[2 * j + 1], level[2 * j + 2])
    BY <1>1, <1>3, <1>5
  <2>5. Climb(c, step) = Above(level)[j + 1] <=> c = level[2 * j + 2]
    BY <2>2, <2>3, <2>4, PairsDiffer
  <2>6. i + 1 = 2 * j + 2
    BY <1>1, <1>5
  <2> QED
    BY <1>2, <2>5, <2>6
<1> QED
  BY <1>1, <1>4, <1>5

-----------------------------------------------------------------------------
(* What holds of a request from its first step on: the levels built so far *)
(* stand on the batch and on each other.                                   *)
TreeInv ==
    /\ leaves \in Seq(Leaf) \ {<< >>}
    /\ index \in 0 .. Len(leaves) - 1
    /\ IsSequence(levels)
    /\ Len(levels) >= 1
    /\ levels[1] = HashedLeaves(leaves)
    /\ \A k \in 1 .. Len(levels) : IsSequence(levels[k]) /\ Len(levels[k]) >= 1
    /\ \A k \in 1 .. Len(levels) - 1 : levels[k + 1] = Above(levels[k])

(* path is the way up that the proof notes the siblings of. *)
Notes(path) ==
    /\ IsSequence(proof)
    /\ Len(proof) <= Len(levels) - 1
    /\ IsSequence(path)
    /\ Len(path) = Len(proof) + 1
    /\ path[1] = index
    /\ path[Len(path)] = here
    /\ \A k \in 1 .. Len(path) : path[k] \in 0 .. Len(levels[k]) - 1
    /\ \A k \in 1 .. Len(proof) :
          /\ path[k + 1] = path[k] \div 2
          /\ proof[k] = [hash |-> Sibling(levels[k], path[k]),
                         side |-> SideOf(path[k])]

Follows(path) ==
    /\ Len(proof) = Len(levels) - 1
    /\ climbed \in 0 .. Len(proof)
    /\ computed = levels[climbed + 1][path[climbed + 1] + 1]
          <=> claim = leaves[index + 1]

WalkInv ==
    /\ phase \in Phases
    /\ phase \in {"idle", "build"} => proof = << >>
    /\ phase \in {"idle", "build", "prove"} => climbed = 0
    /\ phase # "idle" => TreeInv
    /\ phase \in {"prove", "verify", "answered"} => Len(Top) = 1
    /\ phase = "prove" => \E path : Notes(path)
    /\ phase \in {"verify", "answered"} => \E path : Notes(path) /\ Follows(path)
    /\ phase = "answered" => climbed = Len(proof)

(* Nothing but _build touches the tree. *)
LEMMA TreeStays ==
    ASSUME TreeInv, UNCHANGED << leaves, index, levels >>
    PROVE  TreeInv'
<1>1. leaves' = leaves /\ index' = index /\ levels' = levels
  OBVIOUS
<1> QED
  BY <1>1 DEF TreeInv

(* Between two requests there is nothing to hold. *)
LEMMA WalkStarts == Idle => WalkInv
BY DEF Idle, WalkInv, Phases

(* A request begins with the hashed leaves of its batch. *)
LEMMA AskKeeps ==
    ASSUME WalkInv, NEW batch \in Batches, NEW i \in 0 .. Len(batch) - 1,
           NEW leaf \in Leaf, Ask(batch, i, leaf)
    PROVE  WalkInv'
<1>1. batch \in Seq(Leaf) /\ batch # << >>
  BY BatchesAssumption
<1>2. Len(batch) \in Nat /\ Len(batch) >= 1
  BY <1>1
<1>3. /\ IsSequence(HashedLeaves(batch))
      /\ Len(HashedLeaves(batch)) = Len(batch)
  <2>1. HashedLeaves(batch) = [k \in 1 .. Len(batch) |-> LeafHash(batch[k])]
    BY <1>1 DEF HashedLeaves
  <2> QED
    BY <1>2, <2>1 DEF IsSequence
<1>4. /\ phase' = "build" /\ leaves' = batch /\ index' = i
      /\ levels' = << HashedLeaves(batch) >>
      /\ proof' = << >> /\ climbed' = 0
  BY DEF Ask, WalkInv
<1>5. Len(levels') = 1 /\ levels'[1] = HashedLeaves(batch) /\ IsSequence(levels')
  BY <1>4 DEF IsSequence
<1>6. TreeInv'
  BY <1>1, <1>2, <1>3, <1>4, <1>5 DEF TreeInv
<1> QED
  BY <1>4, <1>6 DEF WalkInv, Phases

(* A round of _build puts the right level on top. *)
LEMMA BuildKeeps ==
    ASSUME WalkInv, Build
    PROVE  WalkInv'
<1>1. /\ TreeInv /\ phase = "build" /\ proof = << >> /\ climbed = 0
      /\ levels' = Append(levels, Above(Top))
      /\ UNCHANGED << phase, leaves, index, claim, here, proof, climbed, computed >>
  BY DEF WalkInv, Build
<1>2. Len(levels) \in Nat /\ IsSequence(Top) /\ Len(Top) >= 1
  BY <1>1 DEF TreeInv, IsSequence, Top
<1>3. IsSequence(Above(Top)) /\ Len(Above(Top)) >= 1
  BY <1>2, AboveIsLevel
<1>4. /\ IsSequence(levels') /\ Len(levels') = Len(levels) + 1
      /\ \A k \in 1 .. Len(levels) : levels'[k] = levels[k]
      /\ levels'[Len(levels) + 1] = Above(Top)
  BY <1>1, Appended DEF TreeInv
<1>5. \A k \in 1 .. Len(levels') : IsSequence(levels'[k]) /\ Len(levels'[k]) >= 1
  BY <1>1, <1>2, <1>3, <1>4 DEF TreeInv
<1>6. \A k \in 1 .. Len(levels') - 1 : levels'[k + 1] = Above(levels'[k])
  BY <1>1, <1>2, <1>4 DEF TreeInv, Top
<1>7. TreeInv'
  BY <1>1, <1>2, <1>4, <1>5, <1>6 DEF TreeInv
<1> QED
  BY <1>1, <1>7 DEF WalkInv, Phases

(* get_proof begins at the leaf; a tree that is built has one root. *)
LEMMA BuiltKeeps ==
    ASSUME WalkInv, Built
    PROVE  WalkInv'
<1>1. /\ TreeInv /\ proof = << >> /\ climbed = 0 /\ Len(Top) <= 1
      /\ phase' = "prove" /\ here' = index
      /\ UNCHANGED << leaves, index, claim, levels, proof, climbed, computed >>
  BY DEF WalkInv, Built
<1>2. Len(levels) \in Nat /\ Len(levels) >= 1 /\ Len(Top) >= 1
      /\ Len(Top) \in Nat
  BY <1>1 DEF TreeInv, IsSequence, Top
<1>3. TreeInv' /\ Len(Top') = 1
  <2>1. TreeInv'
    BY <1>1, TreeStays
  <2>2. Top' = Top
    BY <1>1 DEF Top
  <2>3. Len(Top) <= 1
    BY <1>1
  <2>4. Len(Top) = 1
    BY <1>2, <2>3, Between
  <2> QED
    BY <2>1, <2>2, <2>4
<1>4. index \in 0 .. Len(levels[1]) - 1
  <2>1. HashedLeaves(leaves) = [k \in 1 .. Len(leaves) |-> LeafHash(leaves[k])]
    BY <1>1 DEF TreeInv, HashedLeaves
  <2> QED
    BY <1>1, <2>1 DEF TreeInv
<1>5. Notes(<< index >>)'
  BY <1>1, <1>2, <1>4 DEF Notes, IsSequence
<1> QED
  BY <1>1, <1>3, <1>5 DEF WalkInv, Phases

(* A round of get_proof goes one level up the path. *)
LEMMA NoteKeeps ==
    ASSUME WalkInv, Note
    PROVE  WalkInv'
<1> DEFINE n == Len(proof)
           step == [hash |-> Sibling(levels[n + 1], here), side |-> SideOf(here)]
<1>1. /\ TreeInv /\ phase = "prove" /\ climbed = 0 /\ Len(Top) = 1
      /\ n < Len(levels) - 1
      /\ proof' = Append(proof, step)
      /\ here' = here \div 2
      /\ UNCHANGED << phase, leaves, index, claim, levels, climbed, computed >>
  BY DEF WalkInv, Note
<1>2. PICK path : Notes(path)
  BY <1>1 DEF WalkInv
<1>0. PICK longer : longer = Append(path, here \div 2)
  OBVIOUS
<1>3. /\ n \in Nat /\ Len(levels) \in Nat /\ Len(path) = n + 1
      /\ IsSequence(path) /\ IsSequence(proof)
      /\ path[n + 1] = here
  BY <1>1, <1>2 DEF Notes, TreeInv, IsSequence
<1>4. /\ IsSequence(proof') /\ Len(proof') = n + 1
      /\ \A k \in 1 .. n : proof'[k] = proof[k]
      /\ proof'[n + 1] = step
  BY <1>1, <1>3, Appended
<1>5. /\ IsSequence(longer) /\ Len(longer) = n + 2
      /\ \A k \in 1 .. n + 1 : longer[k] = path[k]
      /\ longer[n + 2] = here \div 2
  BY <1>0, <1>3, Appended
<1>6. here \div 2 \in 0 .. Len(levels[n + 2]) - 1
  <2>1. here \in 0 .. Len(levels[n + 1]) - 1
    BY <1>2, <1>3 DEF Notes
  <2>2. IsSequence(levels[n + 1]) /\ levels[n + 2] = Above(levels[n + 1])
    BY <1>1, <1>3 DEF TreeInv
  <2> QED
    BY <2>1, <2>2, StepUp
<1>7. \A k \in 1 .. n + 2 : longer[k] \in 0 .. Len(levels[k]) - 1
  BY <1>2, <1>3, <1>5, <1>6 DEF Notes
<1>8. \A k \in 1 .. n + 1 :
        /\ longer[k + 1] = longer[k] \div 2
        /\ proof'[k] = [hash |-> Sibling(levels[k], longer[k]),
                        side |-> SideOf(longer[k])]
  <2> SUFFICES ASSUME NEW k \in 1 .. n + 1
               PROVE  /\ longer[k + 1] = longer[k] \div 2
                      /\ proof'[k] = [hash |-> Sibling(levels[k], longer[k]),
                                      side |-> SideOf(longer[k])]
    OBVIOUS
  <2>1. CASE k = n + 1
    <3>1. longer[k] = here /\ longer[k + 1] = here \div 2
      BY <1>3, <1>5, <2>1
    <3> QED
      BY <1>4, <2>1, <3>1
  <2>2. CASE k \in 1 .. n
    <3>1. longer[k] = path[k] /\ longer[k + 1] = path[k + 1]
      BY <1>3, <1>5, <2>2
    <3>2. proof'[k] = proof[k]
      BY <1>4, <2>2
    <3> QED
      BY <1>2, <2>2, <3>1, <3>2 DEF Notes
  <2> QED
    BY <1>3, <2>1, <2>2
<1>9. Notes(longer)'
  <2>1. longer[1] = index'
    BY <1>1, <1>2, <1>3, <1>5 DEF Notes
  <2>2. longer[Len(longer)] = here'
    BY <1>1, <1>5
  <2>3. \A k \in 1 .. Len(longer) : longer[k] \in 0 .. Len(levels'[k]) - 1
    BY <1>1, <1>5, <1>7
  <2>4. \A k \in 1 .. Len(proof') :
          /\ longer[k + 1] = longer[k] \div 2
          /\ proof'[k] = [hash |-> Sibling(levels'[k], longer[k]),
                          side |-> SideOf(longer[k])]
    BY <1>1, <1>4, <1>8
  <2>5. Len(proof') <= Len(levels') - 1 /\ Len(longer) = Len(proof') + 1
    BY <1>1, <1>3, <1>4, <1>5
  <2> QED
    BY <1>4, <1>5, <2>1, <2>2, <2>3, <2>4, <2>5 DEF Notes
<1>10. TreeInv' /\ Len(Top') = 1
  <2>1. TreeInv'
    BY <1>1, TreeStays
  <2>2. Top' = Top
    BY <1>1 DEF Top
  <2> QED
    BY <1>1, <2>1, <2>2
<1> QED
  BY <1>1, <1>9, <1>10 DEF WalkInv, Phases

(* verify_proof begins at the claimed leaf. *)
LEMMA ProvedKeeps ==
    ASSUME WalkInv, Proved
    PROVE  WalkInv'
<1>1. /\ TreeInv /\ phase = "prove" /\ climbed = 0 /\ Len(Top) = 1
      /\ Len(proof) >= Len(levels) - 1
      /\ phase' = "verify"
      /\ computed' = LeafHash(claim)
      /\ UNCHANGED << leaves, index, claim, levels, here, proof, climbed >>
  BY DEF WalkInv, Proved
<1>2. PICK path : Notes(path)
  BY <1>1 DEF WalkInv
<1>3. Notes(path)'
  BY <1>1, <1>2 DEF Notes
<1>4. /\ Len(proof) \in Nat /\ Len(levels) \in Nat
      /\ Len(proof) = Len(levels) - 1
  <2>1. /\ Len(proof) \in Nat /\ Len(levels) \in Nat
        /\ Len(proof) <= Len(levels) - 1
    BY <1>1, <1>2 DEF Notes, TreeInv, IsSequence
  <2> QED
    BY <1>1, <2>1, Between
<1>5. levels[1][path[1] + 1] = LeafHash(leaves[index + 1])
  <2>1. path[1] = index /\ index + 1 \in 1 .. Len(leaves)
    BY <1>1, <1>2 DEF Notes, TreeInv
  <2>2. levels[1] = [k \in 1 .. Len(leaves) |-> LeafHash(leaves[k])]
    BY <1>1 DEF TreeInv, HashedLeaves
  <2> QED
    BY <2>1, <2>2
<1>6. LeafHash(claim) = LeafHash(leaves[index + 1]) <=> claim = leaves[index + 1]
  BY LeavesDiffer
<1>7. Follows(path)'
  <2>1. /\ Len(proof') = Len(levels') - 1
        /\ climbed' \in 0 .. Len(proof') /\ climbed' + 1 = 1
    BY <1>1, <1>4
  <2>2. computed' = levels'[1][path[1] + 1] <=> claim' = leaves'[index' + 1]
    BY <1>1, <1>5, <1>6
  <2> QED
    BY <2>1, <2>2 DEF Follows
<1>8. TreeInv' /\ Len(Top') = 1
  <2>1. TreeInv'
    BY <1>1, TreeStays
  <2>2. Top' = Top
    BY <1>1 DEF Top
  <2> QED
    BY <1>1, <2>1, <2>2
<1> QED
  BY <1>1, <1>3, <1>7, <1>8 DEF WalkInv, Phases

(* A round of verify_proof stays on the path if it was, and off it *)
(* otherwise.                                                      *)
LEMMA FoldKeeps ==
    ASSUME WalkInv, Fold
    PROVE  WalkInv'
<1> DEFINE c == climbed + 1
<1>1. /\ TreeInv /\ phase = "verify" /\ Len(Top) = 1
      /\ climbed < Len(proof)
      /\ computed' = Climb(computed, proof[c])
      /\ climbed' = c
      /\ UNCHANGED << phase, leaves, index, claim, levels, here, proof >>
  BY DEF WalkInv, Fold
<1>2. PICK path : Notes(path) /\ Follows(path)
  BY <1>1 DEF WalkInv
<1>3. /\ Len(proof) \in Nat /\ Len(levels) \in Nat
      /\ Len(proof) = Len(levels) - 1 /\ Len(path) = Len(proof) + 1
      /\ c \in 1 .. Len(proof) /\ c \in 1 .. Len(levels) - 1
      /\ c \in 1 .. Len(path)
  BY <1>1, <1>2 DEF Notes, Follows, TreeInv, IsSequence
<1>4. Notes(path)'
  BY <1>1, <1>2 DEF Notes
<1>5. /\ path[c] \in 0 .. Len(levels[c]) - 1
      /\ path[c + 1] = path[c] \div 2
      /\ proof[c] = [hash |-> Sibling(levels[c], path[c]), side |-> SideOf(path[c])]
  BY <1>2, <1>3 DEF Notes
<1>6. IsSequence(levels[c]) /\ levels[c + 1] = Above(levels[c])
  BY <1>1, <1>3 DEF TreeInv
<1>7. computed' = levels[c + 1][path[c + 1] + 1] <=> computed = levels[c][path[c] + 1]
  <2> DEFINE step == [hash |-> Sibling(levels[c], path[c]), side |-> SideOf(path[c])]
  <2>1. Climb(computed, step) = Above(levels[c])[path[c] \div 2 + 1]
          <=> computed = levels[c][path[c] + 1]
    BY <1>5, <1>6, StepUp
  <2>2. computed' = Climb(computed, step)
    BY <1>1, <1>5
  <2> QED
    BY <1>5, <1>6, <2>1, <2>2
<1>8. computed = levels[c][path[c] + 1] <=> claim = leaves[index + 1]
  BY <1>2 DEF Follows
<1>9. Follows(path)'
  <2>1. Len(proof') = Len(levels') - 1 /\ climbed' \in 0 .. Len(proof')
    BY <1>1, <1>3
  <2>2. computed' = levels'[climbed' + 1][path[climbed' + 1] + 1]
          <=> claim' = leaves'[index' + 1]
    BY <1>1, <1>7, <1>8
  <2> QED
    BY <2>1, <2>2 DEF Follows
<1>10. TreeInv' /\ Len(Top') = 1
  <2>1. TreeInv'
    BY <1>1, TreeStays
  <2>2. Top' = Top
    BY <1>1 DEF Top
  <2> QED
    BY <1>1, <2>1, <2>2
<1> QED
  BY <1>1, <1>4, <1>9, <1>10 DEF WalkInv, Phases

(* verify_proof has folded the whole proof. *)
LEMMA VerifiedKeeps ==
    ASSUME WalkInv, Verified
    PROVE  WalkInv'
<1>1. /\ TreeInv /\ phase = "verify" /\ Len(Top) = 1
      /\ climbed >= Len(proof)
      /\ phase' = "answered"
      /\ UNCHANGED << leaves, index, claim, levels, here, proof, climbed, computed >>
  BY DEF WalkInv, Verified
<1>2. PICK path : Notes(path) /\ Follows(path)
  BY <1>1 DEF WalkInv
<1>3. Notes(path)' /\ Follows(path)'
  BY <1>1, <1>2 DEF Notes, Follows
<1>4. climbed' = Len(proof')
  BY <1>1, <1>2 DEF Notes, Follows, IsSequence
<1>5. TreeInv' /\ Len(Top') = 1
  <2>1. TreeInv'
    BY <1>1, TreeStays
  <2>2. Top' = Top
    BY <1>1 DEF Top
  <2> QED
    BY <1>1, <2>1, <2>2
<1> QED
  BY <1>1, <1>3, <1>4, <1>5 DEF WalkInv, Phases

(* A request leaves nothing behind. *)
LEMMA ForgetKeeps ==
    ASSUME WalkInv, Forget
    PROVE  WalkInv'
BY DEF Forget, WalkInv, Phases

(* Nothing happens to the request. *)
LEMMA StutterKeeps ==
    ASSUME WalkInv, UNCHANGED walkVars
    PROVE  WalkInv'
<1>1. /\ phase' = phase /\ leaves' = leaves /\ index' = index /\ claim' = claim
      /\ levels' = levels /\ here' = here /\ proof' = proof
      /\ climbed' = climbed /\ computed' = computed
  BY DEF walkVars
<1>2. phase # "idle" => TreeInv'
  BY <1>1, TreeStays DEF WalkInv
<1>3. Top' = Top
  BY <1>1 DEF Top
<1>4. \A path : (Notes(path) => Notes(path)') /\ (Follows(path) => Follows(path)')
  BY <1>1 DEF Notes, Follows
<1> QED
  BY <1>1, <1>2, <1>3, <1>4 DEF WalkInv

(* The invariant of a request, in whichever loop it is. *)
THEOREM WalkInvariant == WalkSpec => []WalkInv
<1>1. WalkInv /\ [WalkNext]_walkVars => WalkInv'
  BY AskKeeps, BuildKeeps, BuiltKeeps, NoteKeeps, ProvedKeeps, FoldKeeps,
     VerifiedKeeps, ForgetKeeps, StutterKeeps DEF WalkNext, Walk
<1> QED
  BY WalkStarts, <1>1, PTL DEF WalkSpec

(* merkle.py: a proof verifies against the root of its tree for the leaf it *)
(* was made for and for no other, in a batch of any length.                 *)
THEOREM ProofsAreRight == WalkSpec => []VerdictIsRight
<1>1. WalkInv => VerdictIsRight
  <2> SUFFICES ASSUME WalkInv, phase = "answered"
               PROVE  Valid <=> claim = leaves[index + 1]
    BY DEF VerdictIsRight
  <2>1. TreeInv /\ Len(Top) = 1 /\ climbed = Len(proof)
    BY DEF WalkInv
  <2>2. PICK path : Notes(path) /\ Follows(path)
    BY DEF WalkInv
  <2>3. /\ Len(levels) \in Nat /\ Len(levels) >= 1
        /\ climbed + 1 = Len(levels) /\ Len(path) = Len(levels)
    BY <2>1, <2>2 DEF Notes, Follows, TreeInv, IsSequence
  <2>4. path[Len(levels)] \in 0 .. Len(Top) - 1
    BY <2>2, <2>3 DEF Notes, Top
  <2>5. path[Len(levels)] = 0
    BY <2>1, <2>4
  <2>6. computed = levels[Len(levels)][1] <=> claim = leaves[index + 1]
    BY <2>2, <2>3, <2>5 DEF Follows
  <2> QED
    BY <2>6 DEF Valid, Top
<1> QED
  BY WalkInvariant, <1>1, PTL
-----------------------------------------------------------------------------
(* The tree that a request builds in a loop is the tree that Root folds.    *)
(* The fold is a function of the set of rounds done: it exists by induction *)
(* on their number, and it is followed round by round.                      *)

(* One round more than the rounds of s, which are those of g and the last. *)
Round(base, g, s) == IF s = {} THEN base ELSE Grown(g[s \ {Max(s)}])

(* g grows the levels from base, by the rounds of each set of F. *)
Grows(g, base, F) == g = [s \in F |-> Round(base, g, s)]

GrowthOf(base, n) == CHOOSE g : Grows(g, base, SUBSET (1 .. n))

(* Levels is the fold. *)
LEMMA LevelsAre ==
    ASSUME NEW batch
    PROVE  Levels(batch) =
             (CHOOSE g : Grows(g, << HashedLeaves(batch) >>, SUBSET DOMAIN batch))[DOMAIN batch]
BY DEF Levels, FoldLeft, MapThenFoldSet, Grows, Round

(* The last of the rounds is one of them. *)
LEMMA LastRound ==
    ASSUME NEW n \in Nat, NEW s \in SUBSET (1 .. n), s # {}
    PROVE  Max(s) \in s /\ \A k \in s : k <= Max(s)
<1>1. IsFiniteSet(s) /\ s \in SUBSET Nat
  BY UpToFinite, FS_Subset
<1>2. PICK m \in s : \A k \in s : k <= m
  BY <1>1, GreatestOf
<1>3. \A k \in s : m >= k
  BY <1>1, <1>2
<1>4. Max(s) \in s /\ \A k \in s : Max(s) >= k
  BY <1>3 DEF Max
<1> QED
  BY <1>1, <1>4

(* The fold exists. *)
LEMMA GrowthExists ==
    ASSUME NEW n \in Nat, NEW base
    PROVE  Grows(GrowthOf(base, n), base, SUBSET (1 .. n))
<1> DEFINE S == 1 .. n
           T == {c \in Nat : \E g : Grows(g, base, UpTo(S, c))}
<1>0. IsFiniteSet(S) /\ \A s \in SUBSET S : s # {} => Max(s) \in s
  BY UpToFinite, LastRound
<1> HIDE DEF S
<1>1. 0 \in T
  <2>1. UpTo(S, 0) = {{}}
    BY <1>0, UpToNone
  <2>2. Grows([s \in UpTo(S, 0) |-> base], base, UpTo(S, 0))
    BY <2>1 DEF Grows, Round
  <2> QED
    BY <2>2
<1>2. ASSUME NEW c \in Nat, c \in T PROVE c + 1 \in T
  <2>1. PICK g : Grows(g, base, UpTo(S, c))
    BY <1>2
  <2> DEFINE h == [s \in UpTo(S, c + 1) |-> Round(base, g, s)]
  <2>2. ASSUME NEW s \in UpTo(S, c + 1) PROVE Round(base, h, s) = Round(base, g, s)
    <3>1. CASE s = {}
      BY <3>1 DEF Round
    <3>2. CASE s # {}
      <4> DEFINE r == s \ {Max(s)}
      <4>1. Max(s) \in s
        BY <1>0, <3>2 DEF UpTo
      <4>2. r \in UpTo(S, c) /\ r \in UpTo(S, c + 1)
        BY <1>0, <4>1, UpToLess
      <4>3. h[r] = Round(base, g, r) /\ g[r] = Round(base, g, r)
        BY <2>1, <4>2 DEF Grows
      <4> QED
        BY <3>2, <4>3 DEF Round
    <3> QED
      BY <3>1, <3>2
  <2>3. h = [s \in UpTo(S, c + 1) |-> Round(base, h, s)]
    BY <2>2
  <2>4. Grows(h, base, UpTo(S, c + 1))
    BY <2>3 DEF Grows
  <2> QED
    BY <2>4
<1> HIDE DEF T
<1>3. Cardinality(S) \in T
  BY <1>0, <1>1, <1>2, Induction, FS_CardinalityType
<1>4. PICK g : Grows(g, base, UpTo(S, Cardinality(S)))
  BY <1>3 DEF T
<1>5. UpTo(S, Cardinality(S)) = SUBSET S
  BY <1>0, UpToAll
<1> QED
  BY <1>4, <1>5 DEF GrowthOf, S

(* The fold begins with the base and goes on round by round. *)
LEMMA GrowthRounds ==
    ASSUME NEW n \in Nat, NEW base
    PROVE  /\ GrowthOf(base, n)[1 .. 0] = base
           /\ \A k \in 0 .. n - 1 :
                GrowthOf(base, n)[1 .. k + 1] = Grown(GrowthOf(base, n)[1 .. k])
<1> DEFINE g == GrowthOf(base, n)
<1>1. g = [s \in SUBSET (1 .. n) |-> Round(base, g, s)]
  BY GrowthExists DEF Grows
<1> HIDE DEF g
<1>2. g[1 .. 0] = base
  BY <1>1 DEF Round
<1>3. ASSUME NEW k \in 0 .. n - 1 PROVE g[1 .. k + 1] = Grown(g[1 .. k])
  <2>1. 1 .. k + 1 \in SUBSET (1 .. n) /\ k + 1 \in 1 .. k + 1
    OBVIOUS
  <2>2. Max(1 .. k + 1) \in 1 .. k + 1 /\ k + 1 <= Max(1 .. k + 1)
    BY <2>1, LastRound
  <2>3. Max(1 .. k + 1) = k + 1
    BY <2>2
  <2>4. (1 .. k + 1) \ {k + 1} = 1 .. k
    OBVIOUS
  <2>5. g[1 .. k + 1] = Round(base, g, 1 .. k + 1)
    BY <1>1, <2>1
  <2> QED
    BY <2>1, <2>3, <2>4, <2>5 DEF Round
<1> QED
  BY <1>2, <1>3 DEF g

(* The levels up to the k-th. *)
FirstOf(k, tree) == [i \in 1 .. k |-> tree[i]]

(* The levels up to the k-th and the next one. *)
LEMMA FirstAppended ==
    ASSUME NEW tree, NEW k \in Nat
    PROVE  Append(FirstOf(k + 1, tree), tree[k + 2]) = FirstOf(k + 2, tree)
<1> DEFINE s == FirstOf(k + 1, tree)
           x == tree[k + 2]
           t == Append(s, x)
<1>1. IsSequence(s) /\ Len(s) = k + 1 /\ \A i \in 1 .. k + 1 : s[i] = tree[i]
  BY DEF IsSequence, FirstOf
<1> HIDE DEF s, x
<1>2. /\ IsSequence(t) /\ Len(t) = k + 1 + 1
      /\ \A i \in 1 .. k + 1 : t[i] = s[i]
      /\ t[k + 1 + 1] = x
  BY <1>1, Appended
<1> HIDE DEF t
<1>3. k + 1 + 1 = k + 2 /\ \A i \in 1 .. k + 2 : i \in 1 .. k + 1 \/ i = k + 2
  OBVIOUS
<1>4. \A i \in 1 .. k + 2 : t[i] = tree[i]
  BY <1>1, <1>2, <1>3 DEF x
<1>5. t = [i \in 1 .. k + 2 |-> t[i]]
  BY <1>2, <1>3 DEF IsSequence
<1> QED
  BY <1>4, <1>5 DEF FirstOf, s, x, t

(* Levels that stand on each other, of which only the top has no more than *)
(* one node, are the ones that the fold grows, in rounds enough.           *)
LEMMA FoldIsTree ==
    ASSUME NEW tree, IsSequence(tree), NEW m \in Nat, m = Len(tree), m >= 1,
           \A k \in 1 .. m - 1 : tree[k + 1] = Above(tree[k]) /\ Len(tree[k]) > 1,
           Len(tree[m]) = 1,
           NEW n \in Nat, m <= n + 1
    PROVE  GrowthOf(<< tree[1] >>, n)[1 .. n] = tree
<1> DEFINE g == GrowthOf(<< tree[1] >>, n)
           upTo(k) == IF k + 1 <= m THEN k + 1 ELSE m
           T == {k \in Nat : k <= n => g[1 .. k] = FirstOf(upTo(k), tree)}
<1>0. /\ g[1 .. 0] = << tree[1] >>
      /\ \A k \in 0 .. n - 1 : g[1 .. k + 1] = Grown(g[1 .. k])
  BY GrowthRounds
<1> HIDE DEF g
<1>1. 0 \in T
  <2>1. upTo(0) = 1
    OBVIOUS
  <2>2. FirstOf(1, tree) = << tree[1] >>
    BY DEF FirstOf
  <2> QED
    BY <1>0, <2>1, <2>2
<1>2. ASSUME NEW k \in Nat, k \in T PROVE k + 1 \in T
  <2> SUFFICES ASSUME k + 1 <= n PROVE g[1 .. k + 1] = FirstOf(upTo(k + 1), tree)
    OBVIOUS
  <2>1. g[1 .. k] = FirstOf(upTo(k), tree) /\ g[1 .. k + 1] = Grown(g[1 .. k])
    BY <1>0, <1>2
  <2> HIDE DEF T
  <2>2. CASE k + 1 < m
    <3>1. upTo(k) = k + 1 /\ upTo(k + 1) = k + 2
      BY <2>2
    <3>2. Last(FirstOf(k + 1, tree)) = tree[k + 1]
      BY DEF Last, FirstOf
    <3>3. tree[k + 2] = Above(tree[k + 1]) /\ Len(tree[k + 1]) > 1
      BY <2>2
    <3>4. Grown(FirstOf(k + 1, tree)) = Append(FirstOf(k + 1, tree), tree[k + 2])
      BY <3>2, <3>3 DEF Grown
    <3>5. Append(FirstOf(k + 1, tree), tree[k + 2]) = FirstOf(k + 2, tree)
      BY FirstAppended
    <3> QED
      BY <2>1, <3>1, <3>4, <3>5
  <2>3. CASE ~(k + 1 < m)
    <3>1. upTo(k) = m /\ upTo(k + 1) = m
      BY <2>3
    <3>2. Last(FirstOf(m, tree)) = tree[m]
      BY DEF Last, FirstOf
    <3>3. Len(Last(FirstOf(m, tree))) = 1
      BY <3>2, Zenon
    <3>4. Grown(FirstOf(m, tree)) = FirstOf(m, tree)
      BY <3>3 DEF Grown
    <3> QED
      BY <2>1, <3>1, <3>4
  <2> QED
    BY <2>2, <2>3
<1>3. n \in T /\ upTo(n) = m
  <2> HIDE DEF T
  <2>1. n \in T
    BY <1>1, <1>2, Induction
  <2> QED
    BY <2>1
<1>4. FirstOf(m, tree) = tree
  BY DEF FirstOf, IsSequence
<1> QED
  BY <1>3, <1>4 DEF g

(* Only the top of the tree can have one node, and a level has fewer nodes *)
(* than the one below: there are no more levels than leaves.               *)
Halving ==
    /\ \A k \in 1 .. Len(levels) - 1 : Len(levels[k]) > 1
    /\ \A k \in 1 .. Len(levels) : Len(levels[k]) + k <= Len(leaves) + 1

HalvingInv == phase # "idle" => Halving

(* A batch that is not halved yet has as many nodes as leaves. *)
LEMMA AskHalves ==
    ASSUME NEW batch \in Batches, NEW i \in 0 .. Len(batch) - 1,
           NEW leaf \in Leaf, Ask(batch, i, leaf)
    PROVE  Halving'
<1>1. batch \in Seq(Leaf) /\ Len(batch) \in Nat
  BY BatchesAssumption
<1>2. /\ leaves' = batch /\ levels' = << HashedLeaves(batch) >>
      /\ Len(levels') = 1 /\ levels'[1] = HashedLeaves(batch)
  BY DEF Ask
<1>3. Len(HashedLeaves(batch)) = Len(batch)
  BY <1>1 DEF HashedLeaves
<1> QED
  BY <1>1, <1>2, <1>3 DEF Halving

(* The loop of _build goes on only above a level of two nodes or more. *)
LEMMA BuildHalves ==
    ASSUME TreeInv, Halving, Build
    PROVE  Halving'
<1> DEFINE n == Len(levels)
<1>1. /\ leaves' = leaves /\ levels' = Append(levels, Above(Top))
      /\ Len(Top) > 1 /\ Top = levels[n]
  BY DEF Build, Top
<1>2. /\ n \in Nat /\ n >= 1 /\ IsSequence(levels)
      /\ Len(leaves) \in Nat
      /\ \A k \in 1 .. n : Len(levels[k]) \in Nat
      /\ IsSequence(Top) /\ Len(Top) \in Nat /\ Len(Top) >= 1
  BY <1>1 DEF TreeInv, IsSequence
<1>3. /\ Len(levels') = n + 1
      /\ \A k \in 1 .. n : levels'[k] = levels[k]
      /\ levels'[n + 1] = Above(Top)
  BY <1>1, <1>2, Appended
<1>4. Len(Above(Top)) = (Len(Top) + 1) \div 2
  BY <1>2, AboveIsLevel
<1>5. Len(Above(Top)) <= Len(Top) - 1 /\ Len(Top) + n <= Len(leaves) + 1
  <2>1. \A l \in Nat : l > 1 => (l + 1) \div 2 <= l - 1
    OBVIOUS
  <2>2. n \in 1 .. n
    BY <1>2
  <2>3. Len(Top) + n <= Len(leaves) + 1
    BY <1>1, <2>2 DEF Halving
  <2> QED
    BY <1>1, <1>2, <1>4, <2>1, <2>3
<1>6. ASSUME NEW k \in 1 .. n PROVE Len(levels'[k]) > 1
  <2>1. CASE k = n
    BY <1>1, <1>3, <2>1
  <2>2. CASE k \in 1 .. n - 1
    BY <1>3, <2>2 DEF Halving
  <2> QED
    BY <1>2, <2>1, <2>2
<1>7. ASSUME NEW k \in 1 .. n + 1 PROVE Len(levels'[k]) + k <= Len(leaves) + 1
  <2>1. CASE k = n + 1
    BY <1>2, <1>3, <1>4, <1>5, <2>1
  <2>2. CASE k \in 1 .. n
    BY <1>3, <2>2 DEF Halving
  <2> QED
    BY <1>2, <2>1, <2>2
<1> QED
  BY <1>1, <1>2, <1>3, <1>6, <1>7 DEF Halving

(* The tree is no higher than its batch is long. *)
THEOREM TreesHalve == WalkSpec => []HalvingInv
<1>1. Idle => HalvingInv
  BY DEF Idle, HalvingInv
<1>2. WalkInv /\ HalvingInv /\ [WalkNext]_walkVars => HalvingInv'
  <2> SUFFICES ASSUME WalkInv, HalvingInv, [WalkNext]_walkVars, phase' # "idle"
               PROVE  Halving'
    BY DEF HalvingInv
  <2>1. CASE \E batch \in Batches : \E i \in 0 .. Len(batch) - 1 :
                 \E leaf \in Leaf : Ask(batch, i, leaf)
    BY <2>1, AskHalves
  <2>2. CASE Build
    BY <2>2, BuildHalves DEF WalkInv, HalvingInv, Build
  <2>3. CASE phase # "idle" /\ UNCHANGED << leaves, levels >>
    BY <2>3 DEF HalvingInv, Halving
  <2> QED
    BY <2>1, <2>2, <2>3 DEF WalkNext, Walk, Built, Note, Proved, Fold, Verified,
       Forget, walkVars
<1> QED
  BY <1>1, <1>2, WalkInvariant, PTL DEF WalkSpec

(* What the loop has built is what Levels folds. *)
LEMMA TreeIsFolded ==
    ASSUME TreeInv, Halving, Len(Top) = 1
    PROVE  Levels(leaves) = levels
<1> DEFINE m == Len(levels)
           n == Len(leaves)
<1>1. /\ IsSequence(levels) /\ m \in Nat /\ m >= 1 /\ n \in Nat
      /\ DOMAIN leaves = 1 .. n /\ levels[1] = HashedLeaves(leaves)
  BY DEF TreeInv, IsSequence
<1>2. \A k \in 1 .. m - 1 : levels[k + 1] = Above(levels[k]) /\ Len(levels[k]) > 1
  BY DEF TreeInv, Halving
<1>3. Len(levels[m]) = 1
  BY DEF Top
<1>4. m <= n + 1
  <2>1. Len(levels[m]) + m <= n + 1
    BY <1>1 DEF Halving
  <2> QED
    BY <1>1, <1>3, <2>1
<1>5. GrowthOf(<< levels[1] >>, n)[1 .. n] = levels
  BY <1>1, <1>2, <1>3, <1>4, FoldIsTree
<1> HIDE DEF n
<1>6. Levels(leaves) = GrowthOf(<< levels[1] >>, n)[1 .. n]
  BY <1>1, LevelsAre DEF GrowthOf
<1> QED
  BY <1>5, <1>6

(* A tree that is built has the root of its batch on top. *)
RootOnTop == phase \in {"prove", "verify", "answered"} => Top[1] = Root(leaves)

(* MerkleTree.root is Root, in a batch of any length. *)
THEOREM TopIsRoot == WalkSpec => []RootOnTop
<1>1. WalkInv /\ HalvingInv => RootOnTop
  <2> SUFFICES ASSUME WalkInv, HalvingInv, phase \in {"prove", "verify", "answered"}
               PROVE  Top[1] = Root(leaves)
    BY DEF RootOnTop
  <2>1. TreeInv /\ Halving /\ Len(Top) = 1
    BY DEF WalkInv, HalvingInv
  <2>2. Levels(leaves) = levels
    BY <2>1, TreeIsFolded
  <2> QED
    BY <2>2 DEF Root, Last, Top
<1> QED
  BY <1>1, WalkInvariant, TreesHalve, PTL
=============================================================================
