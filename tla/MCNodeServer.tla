---------------------------- MODULE MCNodeServer ----------------------------
(* NodeServer on one or two volumes and two handlers.                        *)
EXTENDS NodeServer, TLC

CallSymmetry == Permutations(Calls)
=============================================================================
