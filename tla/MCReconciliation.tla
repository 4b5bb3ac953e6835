-------------------------- MODULE MCReconciliation --------------------------
(* Instances of Reconciliation for TLC. *)
EXTENDS Reconciliation, TLC

E(key, tax) == [key |-> key, taxable |-> 5, tax |-> tax]

K == CHOOSE k \in Keys : TRUE

\* Two invoices of one key.
MCBookEntry == [i \in Invoices |-> E(K, IF i = 1 THEN 4 ELSE 2)]

MCNoRecord == <<0, 0>>

\* One record of the key and one that has no number.
MCFile == {<<E(K, 1), E(NoKey, 1)>>}

Symmetry == Permutations(Sources)
=============================================================================
