---------------------------- MODULE DownloadLedger ----------------------------
(***************************************************************************)
(* What the two planes promise together about one download ticket: it opens *)
(* at most once, no byte leaves before it is open, and what is recorded for *)
(* it only grows and never exceeds what was delivered.                      *)
(***************************************************************************)
EXTENDS Integers

CONSTANT Length

VARIABLES
    phase,      \* "unused", "open", "closed", or "void" if it never opened
    delivered,  \* chunks handed to the client
    recorded    \* chunks the control plane has on record

vars == <<phase, delivered, recorded>>

Init == phase = "unused" /\ delivered = 0 /\ recorded = 0

Open == phase = "unused" /\ phase' = "open" /\ UNCHANGED <<delivered, recorded>>

Void == phase = "unused" /\ phase' = "void" /\ UNCHANGED <<delivered, recorded>>

\* A stream may run on for a moment after its record is closed.
Deliver ==
    /\ phase \in {"open", "closed"} /\ delivered < Length
    /\ delivered' = delivered + 1
    /\ UNCHANGED <<phase, recorded>>

Record ==
    /\ phase = "open"
    /\ recorded' \in recorded..delivered
    /\ phase' \in {"open", "closed"}
    /\ UNCHANGED delivered

Next == Open \/ Void \/ Deliver \/ Record

Spec == Init /\ [][Next]_vars

===============================================================================
