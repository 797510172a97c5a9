----------------------------- MODULE MCTideLoop -----------------------------
(* Two stylesheets and a source document: the facts of the first stylesheet *)
(* reach everything, those of the second only itself.                       *)
EXTENDS TideLoop, TLC

CONSTANTS f1, f2, s

MCFiles == {f1, f2}
MCSources == {s}
MCDependents == (f1 :> {f1, f2, s}) @@ (f2 :> {f2})
=============================================================================
