----------------------------- MODULE MCPosture ------------------------------
(* PostureLifecycle on small instances: two commands in flight at a time.  *)
EXTENDS PostureLifecycle

CONSTANTS p1, p2, f1, f2, i1, i2

MCProcesses == {p1, p2}
MCPaths == {f1, f2}
MCIntents == {i1, i2}
MCTargets ==
    { [capability |-> "write_protected", anchor |-> "hardware_witness"],
      [capability |-> "read_only", anchor |-> "none"],
      [capability |-> "write_protected", anchor |-> "software"] }
MCSymmetry == Permutations(MCProcesses) \cup Permutations(MCPaths)
              \cup Permutations(MCIntents)
=============================================================================
