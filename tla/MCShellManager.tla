--------------------------- MODULE MCShellManager ---------------------------
(* Instance of ShellManager for TLC: commands are interchangeable.          *)
EXTENDS ShellManager, TLC

CommandSymmetry == Permutations(Command)
=============================================================================
