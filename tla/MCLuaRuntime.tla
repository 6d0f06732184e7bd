---------------------------- MODULE MCLuaRuntime ----------------------------
(* Small instances of LuaRuntime for TLC.                                  *)
EXTENDS LuaRuntime, TLC

\* Callers and references are interchangeable; scripts are, but for Global.
RuntimeSymmetry == Permutations(Callers) \cup Permutations(Refs)
                     \cup Permutations(Scripts \ {Global})
=============================================================================
