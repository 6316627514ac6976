---------------------------- MODULE MCExecutor ----------------------------
(***************************************************************************)
(* Small appliances and contract sets for model checking Executor.         *)
(***************************************************************************)
EXTENDS Executor, TLC

CONSTANTS c1, c2, s1, s2, a, b, d0, d1, d2

\* Two contracts that want different descriptions of the same alias.
SameAlias == [c \in Contract |-> a]
Wants == [c \in Contract |-> IF c = c1 THEN d1 ELSE d2]

\* The target alias and a neighbour it may trade places with.
TwoAliases == <<[name |-> a, descr |-> d0, other |-> FALSE],
                [name |-> b, descr |-> d0, other |-> FALSE]>>
OneAlias == <<[name |-> a, descr |-> d0, other |-> FALSE]>>

ServersAlike == Permutations(Server)
=============================================================================
