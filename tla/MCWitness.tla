---------------------------- MODULE MCWitness ----------------------------
(***************************************************************************)
(* Small instances of Witness.                                             *)
(***************************************************************************)
EXTENDS Witness, TLC

CONSTANTS alias, batch1, p1, p2, x1, x2

\* Both processes and contracts on the alias store.
ProcsOfOne == [p \in Proc |-> alias]
ContractsOfOne == [x \in Contract |-> alias]

\* The alias runtime and the Batch-1 runtime, each with its own store.
ProcsOfTwo == [p \in Proc |-> IF p = p1 THEN alias ELSE batch1]
ContractsOfTwo == [x \in Contract |-> IF x = x1 THEN alias ELSE batch1]

Interchangeable == Permutations(Proc) \cup Permutations(Contract)
=============================================================================
