--------------------------- MODULE MCRunLifecycle ---------------------------
(* Instances of RunLifecycle for TLC: two runs that compete for one thread. *)
EXTENDS RunLifecycle, TLC

OneThread == [r \in Run |-> CHOOSE t \in Thread : TRUE]

\* Runs of a web thread, or of an external one, are interchangeable.
RunSymmetry == Permutations(Run)
=============================================================================
