------------------------------ MODULE MCServer ------------------------------
(***************************************************************************)
(* Small servers.  java needs a compiler and mounts, python only mounts,   *)
(* and cobol is not supported.                                             *)
(***************************************************************************)
EXTENDS SandboxServer, TLC

CONSTANTS r1, r2

MCRequests   == {r1, r2}
MCLanguages  == {"java", "py", "cobol"}
MCAllFaults  == SetupFaults \cup CleanupFaults
MCLiveFaults == SetupFaults \ {"kill"}

Symmetry == Permutations(Requests)
=============================================================================
