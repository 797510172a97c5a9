--------------------------- MODULE MCTideLoopSmall -------------------------
(* One stylesheet and one source document that depends on it.               *)
EXTENDS TideLoop, TLC

CONSTANTS f1, s

MCFiles == {f1}
MCSources == {s}
MCDependents == f1 :> {f1, s}
=============================================================================
