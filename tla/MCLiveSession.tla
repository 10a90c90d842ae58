---------------------------- MODULE MCLiveSession ----------------------------
(* Two upgrades, the default directory and one other. *)
EXTENDS LiveSession
CONSTANTS a, b, dir1, default
MCTasks == {a, b}
MCDirectories == {dir1, default}
=============================================================================
