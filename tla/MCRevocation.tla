------------------------------ MODULE MCRevocation -----------------------------
(***************************************************************************)
(* Retrieval with the owner's view of a revocation: the handler answers    *)
(* 204 to every authorised revoke request, whether or not RevokeTransfer   *)
(* changed a row, and the page then reports the transfer as revoked.       *)
(***************************************************************************)
EXTENDS Retrieval, TLC

VARIABLE revokeAcked  \* a revoke request has been answered with 204

Symmetry == Permutations(Recipients) \cup Permutations(Uploads)
                \cup Permutations(Sessions) \cup Permutations(Reservations)

AcknowledgeRevoke ==
    /\ RevokeTransfer \/ (status # "active" /\ UNCHANGED vars)
    /\ revokeAcked' = TRUE

RevocationSpec ==
    /\ Init /\ revokeAcked = FALSE
    /\ [][\/ Next /\ ~RevokeTransfer /\ UNCHANGED revokeAcked
          \/ AcknowledgeRevoke]_<<vars, revokeAcked>>

\* What the page promises when it asks to confirm a revocation: afterwards the
\* link and all files are unavailable, so no download of the transfer begins.
RevokedIsUnavailable ==
    [][revokeAcked => \A r \in Reservations :
         reservation[r].status = "reserved" => reservation'[r].status # "consuming"]_vars

===============================================================================
