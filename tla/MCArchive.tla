----------------------------- MODULE MCArchive -----------------------------
(* Three paths, files of one to three bytes, and limits that some bundles   *)
(* meet exactly and others exceed by one: in total, in the number of        *)
(* entries, in depth.  Any archive of up to three entries may be there.     *)
EXTENDS ArchiveSafety

MCPaths == 1 .. 3
MCContents == {"a", "b", "c"}
MCSize == [c \in MCContents |-> IF c = "a" THEN 1 ELSE IF c = "b" THEN 2 ELSE 3]
MCDepth == [p \in MCPaths |-> p]

Holding(x, y, z) == <<x, y, z>>

Within == {Holding("a", "c", Absent), Holding("b", "b", Absent), Holding("a", "b", Absent)}
Beyond == {Holding("b", "c", Absent), Holding("a", Absent, "b"), Holding("a", "a", "a")}
MCBundles == Within \cup Beyond
MCFailing == {Holding("b", "b", Absent)}
MCPassing == MCBundles \ MCFailing

File(p, c, d) == [path |-> p, kind |-> "file", content |-> c, declared |-> d]
Other(p, k) == [path |-> p, kind |-> k, content |-> "a", declared |-> 1]

Complete == {File(1, "a", 1), File(1, "b", 2), File(2, "c", 3), Other(2, "skipped"), Other(3, "refused")}
Ends == Complete \cup {File(2, "b", 3)}

MCFound ==
  {[entries |-> e, cut |-> c] :
     e \in {<<>>} \cup {<<x>> : x \in Ends} \cup {<<x, y>> : x \in Complete, y \in Ends}
             \cup {<<x, y, z>> : x \in Complete, y \in Complete, z \in Ends},
     c \in BOOLEAN}
=============================================================================
