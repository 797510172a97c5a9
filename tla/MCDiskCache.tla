----------------------------- MODULE MCDiskCache -----------------------------
(* Two servers on one cache directory.  A always imports b, b may be       *)
(* missing or import c, and c may use a: closures, cycles and users come   *)
(* and go with one edit each.                                              *)
EXTENDS DiskCache

Alike == Permutations(Servers) \cup Permutations(Builds)

MCTargets == {"a", "b"}
MCFiles   == {"a", "b", "c"}

Text(imports) == [imports |-> imports, text |-> "text"]

MCContents == [f \in MCFiles |->
  CASE f = "a" -> {Text({"b"})}
    [] f = "b" -> {Absent, Text({}), Text({"c"})}
    [] f = "c" -> {Text({}), Text({"a"})}]
=============================================================================
