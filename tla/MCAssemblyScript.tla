-------------------------- MODULE MCAssemblyScript --------------------------
(* Small instances of AssemblyScript for TLC.                              *)
EXTENDS AssemblyScript, TLC

ScriptSymmetry == Permutations(Labels \ Scanned) \cup Permutations(Sites)
=============================================================================
