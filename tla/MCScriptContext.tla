--------------------------- MODULE MCScriptContext ---------------------------
(* Small instances of ScriptContext for TLC.                               *)
EXTENDS ScriptContext, TLC

\* Contexts are interchangeable; names are not, their order matters.
ContextSymmetry == Permutations(Contexts) \cup Permutations(Blocks)
=============================================================================
