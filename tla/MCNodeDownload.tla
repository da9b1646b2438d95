---------------------------- MODULE MCNodeDownload ----------------------------
(* Instances of NodeDownload for TLC. *)
EXTENDS NodeDownload, TLC

Symmetry == Permutations(Handlers) \cup Permutations(Workers)

===============================================================================
