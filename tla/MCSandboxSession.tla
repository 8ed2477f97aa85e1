-------------------------- MODULE MCSandboxSession --------------------------
(***************************************************************************)
(* Instances of SandboxSession for TLC.                                    *)
(***************************************************************************)
EXTENDS SandboxSession, TLC

\* Nothing orders the workers.
Symmetry == Permutations(Workers)
============================================================================
