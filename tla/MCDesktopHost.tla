--------------------------- MODULE MCDesktopHost ---------------------------
(* Instances of the desktop shell. The bundle is the one App.jsx and        *)
(* main.jsx make: they import no style sheet and nothing dynamically.       *)
EXTENDS DesktopHost

MCInputs == {[kind |-> "entry", name |-> "main"]}
=============================================================================
