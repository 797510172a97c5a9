-------------------------- MODULE MCEditTransaction --------------------------
(* Two command line processes.  In the first plan they replace the same    *)
(* two files, named in opposite orders; in the second one of them replaces *)
(* a file the other replaces too, and reads the one it leaves alone.       *)
EXTENDS EditTransaction

MCFiles == {1, 2}
MCTxns  == {"format", "migrate"}

Plan(edits, expected) == [edits |-> edits, expected |-> expected]

MCPlans ==
  { [t \in MCTxns |-> IF t = "format" THEN Plan(<<1, 2>>, <<1, 2>>)
                                      ELSE Plan(<<2, 1>>, <<2, 1>>)],
    [t \in MCTxns |-> IF t = "format" THEN Plan(<<1, 2>>, <<1, 2>>)
                                      ELSE Plan(<<2>>, <<1, 2>>)] }

MCWorkspaces == { <<"original", Absent>> }
=============================================================================
