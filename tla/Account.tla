-------------------------------- MODULE Account --------------------------------
(***************************************************************************)
(* An account's identity and its benefits together: a session opens the    *)
(* benefit handlers, a login brings the member's daily traffic in the same *)
(* transaction, one clock and one restart stop both.                       *)
(***************************************************************************)
EXTENDS Benefits

CONSTANT MaxOperations   \* bound on requests that clients and administrators start

ASSUME AccountAssumption == MaxOperations \in Nat

VARIABLE operations      \* requests started so far

vars == <<identityVars, benefitVars, operations>>

TypeOK == IdentityTypeOK /\ BenefitsTypeOK /\ operations \in 0 .. MaxOperations

Init == IdentityInit /\ BenefitsInit /\ operations = 0

Starts == operations < MaxOperations /\ operations' = operations + 1
Continues == UNCHANGED operations

BenefitStarts ==
    \/ \E b \in Batches, o \in Offers : CreateRedemptionBatch(b, o)
    \/ \E b \in Batches : DisableRedemptionBatch(b)
    \/ \E h \in Redeemers, c \in Codes : RedeemCheck(h, c)
    \/ \E h \in CheckIns : CheckInRead(h)

BenefitContinues ==
    \/ \E h \in Redeemers : RedeemRedemptionCode(h) \/ RedeemAnswers(h)
    \/ \E h \in CheckIns : ClaimDailyCheckIn(h)

\* login, second half: CreateLoginSessionWithAuditAndVIPDailyGrant.
Login == CreateUserSession("checked") /\ GrantVIPDailyLogin

Restart == IdentityRestart /\ Fault /\ BenefitsRestart

Next ==
    \/ Starts /\ IdentityStarts /\ UNCHANGED benefitVars
    \/ Starts /\ BenefitStarts /\ UNCHANGED identityVars
    \/ Continues /\ (IdentityContinues \/ Tick) /\ UNCHANGED benefitVars
    \/ Continues /\ BenefitContinues /\ UNCHANGED identityVars
    \/ Continues /\ (Login \/ Restart)

Spec == Init /\ [][Next]_vars

-----------------------------------------------------------------------------

\* Nothing belongs to an account that is not there: CleanupIdentity, which deletes
\* accounts by the age of their registration, never takes one that has a session, a
\* redeemed code, a membership or traffic, and an account that is there was welcomed
\* once, however often its address was registered, deleted and verified before.
AccountIsWhole ==
    /\ user.status = "active" => points = Welcome
    /\ user.status # "active" =>
           /\ points = 0 /\ sessions = <<>> /\ vip.plan = "none" /\ claimed = {}
           /\ \A c \in Codes : paid[c][Me] = 0

===============================================================================
