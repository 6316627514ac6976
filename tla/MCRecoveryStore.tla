-------------------------- MODULE MCRecoveryStore --------------------------
(* Instances of RecoveryStore for TLC. *)
EXTENDS RecoveryStore, TLC

CONSTANTS c1, c2, k1, k2, t1, t2, p1, p2, r1

\* Two keys of one target: contention for the reservation.
OneTarget == [k \in IdemKey |-> t1]

\* Two keys of two targets.
TwoTargets == (k1 :> t1) @@ (k2 :> t2)

ProcSymmetry == Permutations({p1, p2})
=============================================================================
