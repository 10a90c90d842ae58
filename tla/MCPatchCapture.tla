--------------------------- MODULE MCPatchCapture ---------------------------
(***************************************************************************)
(* PatchCapture on a project with one file of each kind.  Target.java is a *)
(* source of a package that happens to be named target.                    *)
(***************************************************************************)
EXTENDS PatchCapture

Paths == {"Main.java", "New.java", "MainTest.java", "pom.xml", "target/Target.java", "notes"}
PathsJava == {"Main.java", "New.java", "MainTest.java", "target/Target.java"}
PathsTest == {"MainTest.java"}
PathsManifest == {"pom.xml"}
PathsGenerated == {"target/Target.java"}
PathsIgnored == {"notes"}
PathsEvidenced == {"Main.java", "MainTest.java"}

MCContents == {"plain", "other", "marked"}
MCMarkers == [c \in MCContents |-> IF c = "marked" THEN 1 ELSE 0]
=============================================================================
