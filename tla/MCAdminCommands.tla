---------------------------- MODULE MCAdminCommands ----------------------------
EXTENDS AdminCommands, TLC

CONSTANTS p1, p2

MCSymmetry == Permutations({p1, p2})

MCAccounts ==
  {[id |-> <<>>, priv |-> {}, owned |-> FALSE],
   [id |-> <<0>>, priv |-> {"extra"}, owned |-> TRUE],
   [id |-> <<0>>, priv |-> {"expected"}, owned |-> TRUE]}
=============================================================================
