------------------------------- MODULE MCPfind -------------------------------
(***************************************************************************)
(* Instances of Pfind for TLC: a root with two subdirectories, one of them *)
(* with a subdirectory of its own, and two files, one matching.            *)
(***************************************************************************)
EXTENDS Pfind, TLC

CONSTANTS r, a, b, c, f, g

MCDirs == {r, a, b}
MCFiles == {f, g}
MCContents == r :> {a, b} @@ a :> {f, g} @@ b :> {}
MCMatching == {f, b}

\* One matching file that lstat classifies, and one it may not.
MCMatchingFaults == {f, g, b}

MCDirsDeep == {r, a, b, c}
MCContentsDeep == r :> {a, f} @@ a :> {b, c} @@ b :> {g} @@ c :> {}

ThreadSymmetry == Permutations(Threads)
==============================================================================
