------------------------------- MODULE Identity -------------------------------
(***************************************************************************)
(* The account of one email address on the control plane: its users row,   *)
(* the verification codes sent to it, and its sessions. A code is written  *)
(* to the database, mailed, and taken back when the mail fails, in         *)
(* separate steps of a request handler; handlers of the same address run   *)
(* at the same time. Every database action is one SQLite transaction.      *)
(***************************************************************************)
EXTENDS Integers, Sequences, FiniteSets

CONSTANTS
    Requests,         \* handlers of register and requestPasswordReset
    CodeTTL,          \* VerificationCodeTTL
    Cooldown,         \* EmailCooldownSeconds, at least 60 seconds
    DeliveryTimeout,  \* what a handler takes at most; the mail alone 12 seconds
    MaxAttempts,      \* wrong codes before a code is dead
    PendingLifetime,  \* how long an unverified account is kept
    SessionLifetime,
    Welcome,          \* points for completing the verification
    None,
    MaxCodes,         \* bound on codes
    MaxSessions,      \* bound on sessions
    MaxFaults,        \* bound on failed mails and restarts
    MaxTime           \* bound on the clock

ASSUME IdentityAssumption ==
    /\ {CodeTTL, Cooldown, MaxAttempts, PendingLifetime, SessionLifetime} \subseteq Nat \ {0}
    /\ {DeliveryTimeout, Welcome, MaxCodes, MaxSessions, MaxFaults, MaxTime} \subseteq Nat
    /\ DeliveryTimeout < Cooldown
    /\ None \notin Nat

VARIABLES
    now,
    user,      \* the users row: status and created_at
    points,    \* points_balance
    codes,     \* verification_codes, oldest first; used: consumed on purpose
    lastSent,  \* last_sent_at of the address in verification_delivery_limits
    request,   \* the handlers that send codes
    asked,     \* when the last request of each purpose was accepted
    sessions,  \* user_sessions, oldest first
    login,     \* the handler that is about to start a session
    change,    \* the changePassword handler
    faults     \* failures so far

userVars == <<user, points>>
mailVars == <<codes, lastSent, request, asked>>
sessionVars == <<sessions, login, change>>
identityVars == <<now, user, points, codes, lastSent, request, asked, sessions, login, change, faults>>

Purposes == {"verify", "reset"}
Times == 0 .. MaxTime
NoRequest == [pc |-> "idle", purpose |-> None, known |-> FALSE, since |-> 0, code |-> 0]

Rows == [purpose : Purposes, at : Times, since : Times, attempts : 0 .. MaxAttempts,
         consumed : BOOLEAN, mail : {"sending", "delivered", "failed"}, used : BOOLEAN]
Handlers == [pc : {"idle", "reserved", "invalidated", "sending"}, purpose : Purposes \cup {None},
             known : BOOLEAN, since : Times, code : 0 .. MaxCodes]

IdentityTypeOK ==
    /\ now \in Times /\ faults \in 0 .. MaxFaults
    /\ user \in [status : {"none", "pending", "active"}, created : Times]
    /\ points \in Nat
    /\ codes \in Seq(Rows) /\ Len(codes) <= MaxCodes
    /\ lastSent \in Times \cup {None}
    /\ request \in [Requests -> Handlers]
    /\ asked \in [Purposes -> Times \cup {None}]
    /\ sessions \in Seq([at : Times, revoked : BOOLEAN]) /\ Len(sessions) <= MaxSessions
    /\ login \in {"idle", "activated", "checked"}
    /\ change \in {"idle", "verified"}

IdentityInit ==
    /\ now = 0 /\ faults = 0
    /\ user = [status |-> "none", created |-> 0] /\ points = 0
    /\ codes = <<>> /\ lastSent = None
    /\ request = [r \in Requests |-> NoRequest]
    /\ asked = [p \in Purposes |-> None]
    /\ sessions = <<>> /\ login = "idle" /\ change = "idle"

Fault == faults < MaxFaults /\ faults' = faults + 1

-----------------------------------------------------------------------------
(* Codes. *)

Live(p) == {i \in DOMAIN codes : codes[i].purpose = p /\ ~codes[i].consumed}

\* The row VerifyUser and ResetPassword look at: the newest that is not consumed.
Latest(p) == CHOOSE i \in Live(p) : \A j \in Live(p) : j <= i

\* InvalidateVerificationCodes, also the first half of RefreshPendingUser.
Invalidate(rows, p) ==
    [i \in DOMAIN rows |-> IF rows[i].purpose = p THEN [rows[i] EXCEPT !.consumed = TRUE] ELSE rows[i]]

NewCode(p, since) ==
    [purpose |-> p, at |-> now, since |-> since, attempts |-> 0, consumed |-> FALSE,
     mail |-> "sending", used |-> FALSE]

\* Mutant: the address may be written to at any time.
AlwaysReservable == TRUE

\* ReserveVerificationDelivery for the address: the cooldown. The hourly and daily
\* counts, and the limits of the network and the domain, refuse more.
Reservable == lastSent # None => lastSent <= now - Cooldown

Reserve(r, p) ==
    /\ request[r].pc = "idle" /\ Reservable
    /\ Len(codes) + Cardinality({s \in Requests : request[s].pc \in {"reserved", "invalidated"}}) < MaxCodes
    /\ lastSent' = now
    /\ asked' = [asked EXCEPT ![p] = now]
    /\ request' = [request EXCEPT ![r] =
                      [NoRequest EXCEPT !.pc = "reserved", !.purpose = p,
                                        !.known = (user.status = "pending"), !.since = now]]
    /\ UNCHANGED <<now, userVars, codes, sessionVars, faults>>

EndRequest(r) == request' = [request EXCEPT ![r] = NoRequest]

Sending(r, rows) ==
    /\ codes' = Append(rows, NewCode(request[r].purpose, request[r].since))
    /\ request' = [request EXCEPT ![r].pc = "sending", ![r].code = Len(rows) + 1]

\* register: an address that is taken gets an answer and nothing else.
Register(r) == user.status # "active" /\ Reserve(r, "verify")

\* register, second half, for an address it did not know: CreatePendingUser inserts the
\* row, its code and its account, or finds that the address has been taken meanwhile.
CreatePendingUser(r) ==
    /\ request[r].pc = "reserved" /\ request[r].purpose = "verify" /\ ~request[r].known
    /\ user.status = "none"
    /\ user' = [status |-> "pending", created |-> now] /\ points' = 0
    /\ Sending(r, codes)
    /\ UNCHANGED <<now, lastSent, asked, sessionVars, faults>>

\* register, second half, for a pending address: RefreshPendingUser. created_at stays.
RefreshPendingUser(r) ==
    /\ request[r].pc = "reserved" /\ request[r].purpose = "verify" /\ request[r].known
    /\ user.status = "pending"
    /\ Sending(r, Invalidate(codes, "verify"))
    /\ UNCHANGED <<now, userVars, lastSent, asked, sessionVars, faults>>

\* requestPasswordReset looks the address up after the reservation, and takes the old
\* codes back in a statement of its own, whose failure it ignores.
InvalidateReset(r) ==
    /\ request[r].pc = "reserved" /\ request[r].purpose = "reset" /\ user.status = "active"
    /\ \/ codes' = Invalidate(codes, "reset") /\ UNCHANGED faults
       \/ Fault /\ UNCHANGED codes
    /\ request' = [request EXCEPT ![r].pc = "invalidated"]
    /\ UNCHANGED <<now, userVars, lastSent, asked, sessionVars>>

CreatePasswordReset(r) ==
    /\ request[r].pc = "invalidated"
    /\ Sending(r, codes)
    /\ UNCHANGED <<now, userVars, lastSent, asked, sessionVars, faults>>

\* The account has changed since the handler looked, or there is none.
RequestConflicts(r) ==
    /\ request[r].pc = "reserved"
    /\ user.status # CASE request[r].purpose = "reset" -> "active"
                       [] request[r].known -> "pending"
                       [] OTHER -> "none"
    /\ EndRequest(r)
    /\ UNCHANGED <<now, userVars, codes, lastSent, asked, sessionVars, faults>>

\* No random code, no hash, or no row: the handler answers with an error.
RequestFails(r) ==
    /\ request[r].pc \in {"reserved", "invalidated"} /\ Fault
    /\ EndRequest(r)
    /\ UNCHANGED <<now, userVars, codes, lastSent, asked, sessionVars>>

MailDelivered(r) ==
    /\ request[r].pc = "sending"
    /\ codes' = [codes EXCEPT ![request[r].code].mail = "delivered"]
    /\ EndRequest(r)
    /\ UNCHANGED <<now, userVars, lastSent, asked, sessionVars, faults>>

Failed(r) == [codes EXCEPT ![request[r].code].mail = "failed"]

\* A mail that fails takes back every open code of its purpose, not only its own. A
\* client that is gone takes the request's context with it: then the code stays open.
MailFails(r) ==
    /\ request[r].pc = "sending" /\ Fault
    /\ codes' \in {Failed(r), Invalidate(Failed(r), request[r].purpose)}
    /\ EndRequest(r)
    /\ UNCHANGED <<now, userVars, lastSent, asked, sessionVars>>

\* Mutant: a code may be tried any number of times.
UsableForever(p) == Live(p) # {} /\ now < codes[Latest(p)].at + CodeTTL

\* The client sends the code in its mail, which may arrive before the handler knows and
\* although the handler saw an error, or a wrong one.
Usable(p) ==
    Live(p) # {} /\ now < codes[Latest(p)].at + CodeTTL /\ codes[Latest(p)].attempts < MaxAttempts

Consume(p) == [codes EXCEPT ![Latest(p)].consumed = TRUE, ![Latest(p)].used = TRUE]

\* VerifyUser: activation and welcome points in one transaction; verifyRegistration
\* then starts a session in another.
VerifyUser ==
    /\ login = "idle" /\ user.status = "pending" /\ Usable("verify")
    /\ codes' = Consume("verify")
    /\ user' = [user EXCEPT !.status = "active"]
    /\ points' = points + Welcome
    /\ login' = "activated"
    /\ UNCHANGED <<now, lastSent, request, asked, sessions, change, faults>>

\* ResetPassword: the password changes and every session ends.
RevokedSessions == [i \in DOMAIN sessions |-> [sessions[i] EXCEPT !.revoked = TRUE]]

ResetPassword ==
    /\ Usable("reset")
    /\ codes' = Consume("reset")
    /\ sessions' = RevokedSessions
    /\ UNCHANGED <<now, userVars, lastSent, request, asked, login, change, faults>>

WrongCode(p) ==
    /\ Usable(p) /\ (p = "verify" => user.status = "pending")
    /\ codes' = [codes EXCEPT ![Latest(p)].attempts = @ + 1]
    /\ UNCHANGED <<now, userVars, lastSent, request, asked, sessionVars, faults>>

-----------------------------------------------------------------------------
(* Sessions. *)

\* UserBySession and the check of the status: what requireUser accepts.
LiveSession(i) ==
    user.status = "active" /\ ~sessions[i].revoked /\ now < sessions[i].at + SessionLifetime
SignedIn == \E i \in DOMAIN sessions : LiveSession(i)

NewSession(rows) ==
    /\ Len(rows) < MaxSessions
    /\ sessions' = Append(rows, [at |-> now, revoked |-> FALSE])

\* login up to the password check.
LoginCheck ==
    /\ login = "idle" /\ user.status = "active" /\ Len(sessions) < MaxSessions
    /\ login' = "checked"
    /\ UNCHANGED <<now, userVars, mailVars, sessions, change, faults>>

\* createUserSession after a login or after VerifyUser.
CreateUserSession(from) ==
    /\ login = from
    /\ NewSession(sessions)
    /\ login' = "idle"
    /\ UNCHANGED <<now, userVars, mailVars, change, faults>>

\* session_failed: the activated account signs in later.
SessionFails ==
    /\ login # "idle" /\ Fault
    /\ login' = "idle"
    /\ UNCHANGED <<now, userVars, mailVars, sessions, change>>

Logout(i) ==
    /\ LiveSession(i)
    /\ sessions' = [sessions EXCEPT ![i].revoked = TRUE]
    /\ UNCHANGED <<now, userVars, mailVars, login, change, faults>>

\* changePassword checks the session and the old password, then hashes the new one.
ChangeCheck ==
    /\ change = "idle" /\ SignedIn /\ Len(sessions) < MaxSessions
    /\ change' = "verified"
    /\ UNCHANGED <<now, userVars, mailVars, sessions, login, faults>>

\* ChangeUserPassword: the other sessions end, a new one starts, and every open code
\* of the account is consumed, whatever its purpose.
ChangeUserPassword ==
    /\ change = "verified" /\ user.status = "active"
    /\ NewSession(RevokedSessions)
    /\ codes' = [i \in DOMAIN codes |-> [codes[i] EXCEPT !.consumed = TRUE, !.used = @ \/ ~codes[i].consumed]]
    /\ change' = "idle"
    /\ UNCHANGED <<now, userVars, lastSent, request, asked, login, faults>>

-----------------------------------------------------------------------------
(* Maintenance, time and failures. *)

\* Mutant: every old account goes.
OldAccount == user.status # "none" /\ user.created < now - PendingLifetime

Abandoned == user.status = "pending" /\ user.created < now - PendingLifetime

\* CleanupIdentity: an old pending account goes with its codes. Sessions and codes go
\* a week after they could last be used; it also closes orders (UploadTraffic).
CleanupIdentity ==
    /\ Abandoned
    /\ user' = [status |-> "none", created |-> 0] /\ points' = 0
    /\ codes' = [i \in DOMAIN codes |-> [codes[i] EXCEPT !.consumed = TRUE, !.used = TRUE]]
    /\ UNCHANGED <<now, lastSent, request, asked, sessionVars, faults>>

\* A handler ends within DeliveryTimeout of its reservation.
MayTick ==
    now < MaxTime /\ \A r \in Requests : request[r].pc # "idle" => now < request[r].since + DeliveryTimeout

Tick ==
    /\ MayTick
    /\ now' = now + 1
    /\ UNCHANGED <<userVars, mailVars, sessionVars, faults>>

\* The server stops; what its handlers were doing is lost.
IdentityRestart ==
    /\ request' = [r \in Requests |-> NoRequest]
    /\ login' = "idle" /\ change' = "idle"
    /\ UNCHANGED <<now, userVars, codes, lastSent, asked, sessions>>

\* What clients start, and what the server does with it.
IdentityStarts ==
    \/ \E r \in Requests : Register(r) \/ Reserve(r, "reset")
    \/ VerifyUser \/ ResetPassword \/ \E p \in Purposes : WrongCode(p)
    \/ LoginCheck \/ ChangeCheck \/ \E i \in DOMAIN sessions : Logout(i)

IdentityContinues ==
    \/ \E r \in Requests :
           \/ CreatePendingUser(r) \/ RefreshPendingUser(r)
           \/ InvalidateReset(r) \/ CreatePasswordReset(r) \/ RequestConflicts(r) \/ RequestFails(r)
           \/ MailDelivered(r) \/ MailFails(r)
    \/ CreateUserSession("activated") \/ SessionFails
    \/ ChangeUserPassword
    \/ CleanupIdentity

-----------------------------------------------------------------------------
(* Properties. *)

\* The code in the newest mail is the one the database accepts: whatever other requests
\* for the address did, and although a failed mail takes back every open code of its
\* purpose, a delivered code that has not been used, given up by a password change or
\* superseded by a later request is still the row VerifyUser or ResetPassword finds.
DeliveredCodeIsCurrent ==
    \A i \in DOMAIN codes :
        codes[i].mail = "delivered" /\ ~codes[i].used /\ codes[i].since = asked[codes[i].purpose]
            => i \in Live(codes[i].purpose) /\ Latest(codes[i].purpose) = i

===============================================================================
