---------------------------- MODULE MCWatchDaemon ----------------------------
(* A watched check, and a watched lint or check, over one workspace, and   *)
(* two daemon processes to start.                                          *)
EXTENDS WatchDaemon

MCClients  == {"c1", "c2"}
MCDaemons  == {"d1", "d2"}
MCCommands ==
  {[c \in MCClients |-> IF c = "c1" THEN "check" ELSE op] : op \in {"check", "lint"}}
=============================================================================
