--------------------------- MODULE MCCreditLedger ---------------------------
(***************************************************************************)
(* Instances of CreditLedger for TLC: which calls the sessions may be      *)
(* asked to make.                                                          *)
(***************************************************************************)
EXTENDS CreditLedger, TLC

CONSTANTS s1, s2, s3, alice, bob, node, r1, r2, r3, r4

Credit(u, r, a) == [dir |-> "CREDIT", user |-> u, ref |-> r, amount |-> a]
Debit(u, r, a) == [dir |-> "DEBIT", user |-> u, ref |-> r, amount |-> a]

One(calls) == {<<c>> : c \in calls}

(* One call per request, any session any request: a top-up (which may be
   delivered twice), debits that fit once but not twice, one of them reusing
   the credit's reference, and two credits under one reference, one of them
   booked under an edge node's id, which is no user's. *)
Requests == One({Credit(alice, r1, 2), Debit(alice, r1, 2), Debit(alice, r3, 2),
                 Credit(bob, r2, 1), Credit(node, r2, 1)})
SharedPrograms == [s \in Sessions |-> Requests]

(* A request of at most two racing users' calls, for the lost update. *)
RacingPrograms ==
  [s \in Sessions |-> One({Credit(alice, r1, 2), Credit(alice, r2, 1), Debit(alice, r3, 2)})]

(* No user is ever served by two sessions at once; the references are shared,
   and a free job's charge is refused. *)
AliceCalls == {Credit(alice, r1, 2), Debit(alice, r2, 1), Debit(alice, r3, 2)}
BobCalls == {Credit(bob, r1, 2), Credit(bob, r3, 1), Debit(bob, r2, 2), Debit(bob, r4, 0)}
AlicePrograms == One(AliceCalls)
                 \cup {<<Credit(alice, r1, 2), Debit(alice, r2, 1)>>,
                       <<Debit(alice, r3, 2), Credit(alice, r1, 2)>>}
BobPrograms == One(BobCalls) \cup {<<Credit(bob, r1, 2), Credit(bob, r3, 1)>>}
DisjointPrograms == (s1 :> AlicePrograms) @@ (s2 :> BobPrograms)

(* execute_payouts run twice for a month: the second run finds a node the
   first did not yet have. *)
PayBob == Credit(bob, r1, 1)
PayAlice == Credit(alice, r2, 1)
PayoutPrograms == [s \in Sessions |-> {<<PayBob>>, <<PayAlice, PayBob>>}]

(* execute_payouts of two months, one of them run in both orders the database
   may list its nodes in. *)
CrossingPrograms ==
  [s \in Sessions |->
     {<<Credit(alice, r1, 1), Credit(bob, r2, 1)>>,
      <<Credit(alice, r3, 1), Credit(bob, r4, 1)>>, <<Credit(bob, r4, 1), Credit(alice, r3, 1)>>}]

SessionSymmetry == Permutations(Sessions)
=============================================================================
