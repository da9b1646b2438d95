------------------------------- MODULE MCAccount -------------------------------
(* Instance of Account for TLC. *)
EXTENDS Account, TLC

CONSTANTS b1, b2, k1, k2, h1, h2, h3

MCBatchOf == (k1 :> b1) @@ (k2 :> b2)
MCUserOf == (h1 :> Me) @@ (h2 :> Me) @@ (h3 :> Other)
MCDuration == ("monthly" :> 1) @@ ("yearly" :> 2)
MCOffers == {[kind |-> "monthly", expires |-> 2], [kind |-> "yearly", expires |-> 0],
             [kind |-> "lifetime", expires |-> 0], [kind |-> "traffic", expires |-> 2]}

\* Handlers of one kind and one user are interchangeable, and so are the batches
\* together with their codes.
Interchangeable ==
    Permutations(Requests) \cup Permutations(CheckIns) \cup Permutations({h1, h2})
        \cup {(b1 :> b2) @@ (b2 :> b1) @@ (k1 :> k2) @@ (k2 :> k1)}

===============================================================================
