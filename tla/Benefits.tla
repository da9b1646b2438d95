------------------------------- MODULE Benefits -------------------------------
(***************************************************************************)
(* What an account is given: redemption codes that an administrator prints *)
(* in batches and can withdraw, the membership (VIP) some of them extend,  *)
(* and the traffic that a daily check-in and a member's login bring. Each  *)
(* handler reads before its transaction, so two requests of one user, or   *)
(* of two users with one code, may both have seen "not yet".               *)
(***************************************************************************)
EXTENDS Identity

CONSTANTS
    Batches,      \* redemption batches that may be created
    Codes,        \* redemption codes
    BatchOf,      \* the batch each code is printed in
    Offers,       \* what an administrator prints: a kind and an expires_at, 0 for never
    Duration,     \* length of the monthly and of the yearly plan
    Redeemers,    \* redeemCode handlers
    UserOf,       \* who calls each of them: the account of Identity, or another one
    Me, Other,
    CheckIns,     \* claimDailyCheckIn handlers of the account
    DayLength     \* length of a business day

Plans == {"monthly", "yearly", "lifetime"}
Kinds == Plans \cup {"traffic"}
Users == {Me, Other}

ASSUME BenefitsAssumption ==
    /\ BatchOf \in [Codes -> Batches] /\ UserOf \in [Redeemers -> Users] /\ Me # Other
    /\ Duration \in [{"monthly", "yearly"} -> Nat \ {0}]
    /\ Offers \subseteq [kind : Kinds, expires : Nat] /\ DayLength \in Nat \ {0}

VARIABLES
    batch,     \* redemption_batches
    code,      \* redemption_codes: status and redeemed_by
    redeem,    \* the code of a handler between its first read and its transaction
    paid,      \* how often each code's benefit went to each user
    vip,       \* vip_plan and vip_expires_at of the account
    checkin,   \* the dates the check-in handlers carry, None before they start
    claimed,   \* daily_checkins: dates with a row
    granted,   \* vip_daily_login_grants: dates with a row
    gifts      \* traffic entitlements per source and date

benefitVars == <<batch, code, redeem, paid, vip, checkin, claimed, granted, gifts>>
codeVars == <<batch, code, redeem, paid>>
dailyVars == <<checkin, claimed, granted, gifts>>

\* welfareDate
Today == now \div DayLength
Dates == 0 .. (MaxTime \div DayLength)

BenefitsTypeOK ==
    /\ batch \in [Batches -> [status : {"none", "active", "disabled"}, kind : Kinds \cup {None}, expires : Nat]]
    /\ code \in [Codes -> [status : {"none", "active", "redeemed", "disabled"}, by : Users \cup {None}]]
    /\ redeem \in [Redeemers -> Codes \cup {None}]
    /\ paid \in [Codes -> [Users -> Nat]]
    /\ vip \in [plan : Plans \cup {"none"}, expires : Nat]
    /\ checkin \in [CheckIns -> Dates \cup {None}]
    /\ claimed \subseteq Dates /\ granted \subseteq Dates
    /\ gifts \in [{"checkin", "login"} -> [Dates -> Nat]]

BenefitsInit ==
    /\ batch = [b \in Batches |-> [status |-> "none", kind |-> None, expires |-> 0]]
    /\ code = [c \in Codes |-> [status |-> "none", by |-> None]]
    /\ redeem = [h \in Redeemers |-> None]
    /\ paid = [c \in Codes |-> [u \in Users |-> 0]]
    /\ vip = [plan |-> "none", expires |-> 0]
    /\ checkin = [h \in CheckIns |-> None]
    /\ claimed = {} /\ granted = {}
    /\ gifts = [s \in {"checkin", "login"} |-> [d \in Dates |-> 0]]

-----------------------------------------------------------------------------
(* Membership. *)

Rank(plan) == CASE plan = "monthly" -> 1 [] plan = "yearly" -> 2 [] plan = "lifetime" -> 3 [] OTHER -> 0

\* activeVIPPlan
ActivePlan(v, at) == IF v.plan = "lifetime" \/ v.expires > at THEN v.plan ELSE "none"

\* Mutant: a new term starts today even when the old one is not over.
ExtendFromToday(v, plan) ==
    IF v.plan = "lifetime" THEN v
    ELSE IF plan = "lifetime" THEN [plan |-> plan, expires |-> 0]
    ELSE [plan |-> plan, expires |-> now + Duration[plan]]

\* applyVIPBenefitTx
ApplyVIPBenefit(v, plan) ==
    IF v.plan = "lifetime" THEN v
    ELSE IF plan = "lifetime" THEN [plan |-> plan, expires |-> 0]
    ELSE LET active == v.expires > now
         IN  [plan    |-> IF active /\ Rank(v.plan) > Rank(plan) THEN v.plan ELSE plan,
              expires |-> (IF active THEN v.expires ELSE now) + Duration[plan]]

-----------------------------------------------------------------------------
(* Redemption codes. *)

SetCodes(b, from, to) ==
    [c \in Codes |-> IF BatchOf[c] = b /\ code[c].status = from THEN [code[c] EXCEPT !.status = to] ELSE code[c]]

\* adminCreateRedemptionBatch: a batch that expires must expire later than now.
CreateRedemptionBatch(b, offer) ==
    /\ batch[b].status = "none" /\ (offer.expires # 0 => offer.expires > now)
    /\ batch' = [batch EXCEPT ![b] = [status |-> "active", kind |-> offer.kind, expires |-> offer.expires]]
    /\ code' = SetCodes(b, "none", "active")
    /\ UNCHANGED <<redeem, paid, vip, dailyVars>>

\* A second call finds the batch disabled and changes nothing.
DisableRedemptionBatch(b) ==
    /\ batch[b].status = "active"
    /\ batch' = [batch EXCEPT ![b].status = "disabled"]
    /\ code' = SetCodes(b, "active", "disabled")
    /\ UNCHANGED <<redeem, paid, vip, dailyVars>>

\* RedeemedRedemptionForUser
RedeemedBy(c, u) == code[c].status = "redeemed" /\ code[c].by = u

BatchOpen(b) == batch[b].status = "active" /\ (batch[b].expires = 0 \/ batch[b].expires > now)

\* Mutants: the transaction trusts the first read for the code, or for the batch.
WhileBatchOpen(c) == BatchOpen(BatchOf[c])
OnlyUnredeemed(c) == code[c].status # "redeemed"

\* What RedeemRedemptionCode asks inside its transaction.
Redeemable(c) == code[c].status = "active" /\ BatchOpen(BatchOf[c])

\* redeemCode up to the human verification. A user who already has the benefit gets
\* the same answer again here.
RedeemCheck(h, c) ==
    /\ redeem[h] = None /\ code[c].status # "none"
    /\ UserOf[h] = Me => SignedIn
    /\ ~RedeemedBy(c, UserOf[h])
    /\ redeem' = [redeem EXCEPT ![h] = c]
    /\ UNCHANGED <<batch, code, paid, vip, dailyVars>>

EndRedeem(h) == redeem' = [redeem EXCEPT ![h] = None]

\* RedeemRedemptionCode claims the code and applies its benefit in one transaction.
RedeemRedemptionCode(h) ==
    LET c == redeem[h]
        u == UserOf[h]
        kind == batch[BatchOf[c]].kind
    IN  /\ c # None /\ Redeemable(c)
        /\ code' = [code EXCEPT ![c] = [status |-> "redeemed", by |-> u]]
        /\ paid' = [paid EXCEPT ![c][u] = @ + 1]
        /\ vip' = IF u = Me /\ kind \in Plans THEN ApplyVIPBenefit(vip, kind) ELSE vip
        /\ EndRedeem(h)
        /\ UNCHANGED <<batch, dailyVars>>

\* The verification failed, the code is not available, or a retry finds its own
\* redemption: the handler answers and changes nothing.
RedeemAnswers(h) ==
    /\ redeem[h] # None
    /\ EndRedeem(h)
    /\ UNCHANGED <<batch, code, paid, vip, dailyVars>>

-----------------------------------------------------------------------------
(* Daily traffic. *)

\* claimDailyCheckIn takes the date, and ClaimDailyCheckIn finds no row of that date.
CheckInRead(h) ==
    /\ checkin[h] = None /\ SignedIn /\ Today \notin claimed
    /\ checkin' = [checkin EXCEPT ![h] = Today]
    /\ UNCHANGED <<codeVars, vip, claimed, granted, gifts>>

\* INSERT OR IGNORE affects a row only when there is none of that date.
Unclaimed(d) == d \notin claimed

\* ClaimDailyCheckIn's transaction: the row and its entitlement, or neither.
ClaimDailyCheckIn(h) ==
    LET d == checkin[h]
    IN  /\ d # None
        /\ claimed' = claimed \cup {d}
        /\ gifts' = IF Unclaimed(d) THEN [gifts EXCEPT !["checkin"][d] = @ + 1] ELSE gifts
        /\ checkin' = [checkin EXCEPT ![h] = None]
        /\ UNCHANGED <<codeVars, vip, granted>>

\* grantVIPDailyLoginTrafficTx, in the transaction of a login's session.
GrantVIPDailyLogin ==
    LET due == ActivePlan(vip, now) # "none" /\ Today \notin granted
    IN  /\ granted' = IF due THEN granted \cup {Today} ELSE granted
        /\ gifts' = IF due THEN [gifts EXCEPT !["login"][Today] = @ + 1] ELSE gifts
        /\ UNCHANGED <<codeVars, vip, checkin, claimed>>

\* The handlers of a server that stops.
BenefitsRestart ==
    /\ redeem' = [h \in Redeemers |-> None]
    /\ checkin' = [h \in CheckIns |-> None]
    /\ UNCHANGED <<batch, code, paid, vip, claimed, granted, gifts>>

-----------------------------------------------------------------------------
(* Properties. *)

\* Every benefit is given once. A code pays exactly the user recorded as its redeemer,
\* however many requests of one or of two users had seen it open (RedeemRedemptionCode);
\* a business day has one check-in and one membership grant with one traffic entitlement
\* each, although two check-ins may both have seen none and a member logs in often
\* (ClaimDailyCheckIn, grantVIPDailyLoginTrafficTx).
BenefitsOnce ==
    /\ \A c \in Codes, u \in Users : paid[c][u] = IF RedeemedBy(c, u) THEN 1 ELSE 0
    /\ \A d \in Dates : /\ gifts["checkin"][d] = IF d \in claimed THEN 1 ELSE 0
                       /\ gifts["login"][d] = IF d \in granted THEN 1 ELSE 0

\* Once DisableRedemptionBatch has returned, no code of the batch pays any more, also
\* not to a request that had seen it open, and the batch never opens again.
DisabledIsFinal ==
    [][\A c \in Codes : batch[BatchOf[c]].status = "disabled"
           => paid'[c] = paid[c] /\ batch'[BatchOf[c]].status = "disabled"]_<<batch, paid>>

\* A redeemed plan never costs an active membership anything: its rank does not fall,
\* its end does not come earlier, and a plan with an end adds its full duration to
\* what was left (applyVIPBenefitTx), whatever was redeemed in whatever order.
Remaining(v) == IF v.expires > now THEN v.expires - now ELSE 0
VipIsKept ==
    [][/\ Rank(ActivePlan(vip', now)) >= Rank(ActivePlan(vip, now))
       /\ vip'.plan # "lifetime" => \E p \in DOMAIN Duration : Remaining(vip') = Remaining(vip) + Duration[p]]_vip

===============================================================================
