-------------------------- MODULE MCThreadDeletion --------------------------
(* Instance of ThreadDeletion for TLC: threads are interchangeable.         *)
EXTENDS ThreadDeletion, TLC

ThreadSymmetry == Permutations(Thread)
=============================================================================
