---------------------------- MODULE MCCudaGraphs ----------------------------
(* Instances of CudaGraphs.                                                  *)
EXTENDS CudaGraphs, TLC

MC_Symmetry == Permutations(Requests)
(* Alone, or another rank with a decode batch of two rows or a mixed one.    *)
MC_Peers == {NoPeer, [tokens |-> 4, mode |-> "FULL"], [tokens |-> 4, mode |-> "PIECEWISE"]}
(* The other rank's drafter agrees, or cannot use a graph.                   *)
MC_DraftPeers == {NoPeer, [tokens |-> 5, mode |-> "NONE"]}
=============================================================================
