------------------------------ MODULE MCRetrieval ------------------------------
(* Instances of Retrieval for TLC. *)
EXTENDS Retrieval, TLC

Symmetry == Permutations(Recipients) \cup Permutations(Uploads)
                \cup Permutations(Sessions) \cup Permutations(Reservations)

===============================================================================
