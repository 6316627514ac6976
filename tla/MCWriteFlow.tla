---------------------------- MODULE MCWriteFlow ----------------------------
(***************************************************************************)
(* Small instances of WriteFlow; the alias starts with any description.    *)
(***************************************************************************)
EXTENDS WriteFlow, TLC

CONSTANTS s1, s2, d0, d1, d2

\* Servers are interchangeable, and so are the descriptions clients ask for
\* and those they do not.
Interchangeable ==
  Permutations(Server) \cup Permutations(Wanted) \cup Permutations(Descr \ Wanted)
=============================================================================
