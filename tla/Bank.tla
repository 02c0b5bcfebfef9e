-------------------------------- MODULE Bank --------------------------------
(***************************************************************************)
(* What the credit ledger promises, with no rows, sessions or locks: a set *)
(* of entries that only grows, in which a reference counts once in each    *)
(* direction and no user's debits ever exceed the credits.                 *)
(***************************************************************************)
EXTENDS Integers, FiniteSets, FiniteSetsExt

CONSTANT Users          \* the account holders

VARIABLE entries        \* [user, dir, ref, amount] records, applied for good

Amounts(E) == MapThenSumSet(LAMBDA e : e.amount, E)

Total(E, u, d) == Amounts({e \in E : e.user = u /\ e.dir = d})

(* A user's balance as an accountant would compute it. *)
Balance(E, u) == Total(E, u, "CREDIT") - Total(E, u, "DEBIT")

OncePerReference(E) ==
  \A e, f \in E : e.ref = f.ref /\ e.dir = f.dir => e = f

Init == entries = {}

(* Entries are added, none is lost and none is applied twice. *)
Adds == entries \subseteq entries' /\ OncePerReference(entries')

(* The step leaves u's debits within u's credits. *)
Bears(u) == Balance(entries', u) >= 0

Apply == Adds /\ \A u \in Users : Bears(u)

Spec == Init /\ [][Apply]_entries
=============================================================================
