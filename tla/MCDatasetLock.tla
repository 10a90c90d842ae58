--------------------------- MODULE MCDatasetLock -----------------------------
(* Two cases out of three, one direct and one transitive. *)
EXTENDS DatasetLock

CONSTANTS c1, c2, c3

Sound(t, text) == [type |-> t, same |-> t = "DIRECT", split |-> "FINAL",
                   provenance |-> TRUE, sound |-> TRUE, text |-> text]

MCCases == {c1, c2, c3}
MCContents == {Sound("DIRECT", "v1"), Sound("TRANSITIVE", "v1"), Sound("TRANSITIVE", "v2"),
               [Sound("TRANSITIVE", "v1") EXCEPT !.same = TRUE]}
MCLists == {<<c1, c2>>, <<c3, c2>>}
MCConfigs == {"p", "q"}
=============================================================================
