----------------------------- MODULE AccountProofs -----------------------------
(***************************************************************************)
(* Proofs about Account, for any handlers, codes, batches, plans and       *)
(* durations.                                                              *)
(***************************************************************************)
EXTENDS Account, SequenceTheorems, FiniteSetTheorems, TLAPS

-----------------------------------------------------------------------------
(* Types. *)

\* ReserveVerificationDelivery makes the handlers of an address take turns: a handler
\* ends within DeliveryTimeout, and the next one starts a Cooldown later at the earliest.
RequestsTakeTurns ==
    /\ \A r \in Requests : request[r].pc # "idle" =>
           /\ request[r].purpose \in Purposes
           /\ lastSent # None /\ request[r].since <= lastSent
           /\ now <= request[r].since + DeliveryTimeout
    /\ \A r, s \in Requests : request[r].pc # "idle" /\ request[s].pc # "idle" => r = s
    /\ \A r \in Requests : request[r].pc \in {"reserved", "invalidated"} => Len(codes) < MaxCodes

IdentityTypeInv == IdentityTypeOK /\ RequestsTakeTurns

\* A table whose rows are rewritten in place keeps its length.
LEMMA RewrittenTable ==
    ASSUME NEW S, NEW rows \in Seq(S), NEW new \in [DOMAIN rows -> S]
    PROVE  new \in Seq(S) /\ Len(new) = Len(rows)
  OBVIOUS

LEMMA IdleHandler == NoRequest \in Handlers /\ NoRequest.pc = "idle"
BY IdentityAssumption DEF NoRequest, Handlers, Times

LEMMA InitIdentityTypes == IdentityInit => IdentityTypeInv
BY IdentityAssumption DEF IdentityInit, IdentityTypeInv, IdentityTypeOK, RequestsTakeTurns,
   Rows, Handlers, Times, NoRequest

\* The business day of the clock is one of the days the tables know.
LEMMA TodayIsADate == now \in Times => Today \in Dates
BY IdentityAssumption, BenefitsAssumption DEF Times, Today, Dates

\* No handler is under way when one is accepted.
LEMMA ReserveFindsIdle ==
    ASSUME IdentityTypeInv, NEW r \in Requests, NEW p \in Purposes, Reserve(r, p)
    PROVE  /\ \A s \in Requests : request[s].pc = "idle"
           /\ Len(codes) < MaxCodes
<1>1. \A s \in Requests : request[s].pc = "idle"
  <2> SUFFICES ASSUME NEW s \in Requests, request[s].pc # "idle" PROVE FALSE
    OBVIOUS
  <2>1. /\ lastSent # None /\ request[s].since <= lastSent
        /\ now <= request[s].since + DeliveryTimeout
    BY DEF IdentityTypeInv, RequestsTakeTurns
  <2>2. lastSent <= now - Cooldown
    BY <2>1 DEF Reserve, Reservable
  <2>3. lastSent \in Int /\ now \in Int /\ request[s].since \in Int
    BY <2>1, IdentityAssumption DEF IdentityTypeInv, IdentityTypeOK, Handlers, Times
  <2> QED
    BY <2>1, <2>2, <2>3, IdentityAssumption
<1>2. {s \in Requests : request[s].pc \in {"reserved", "invalidated"}} = {}
  BY <1>1
<1>3. Len(codes) + 0 < MaxCodes
  BY <1>2, FS_EmptySet DEF Reserve
<1>4. Len(codes) \in Nat
  BY LenProperties DEF IdentityTypeInv, IdentityTypeOK
<1> QED
  BY <1>1, <1>3, <1>4

LEMMA ReserveKeepsTypes ==
    ASSUME IdentityTypeInv, NEW r \in Requests, NEW p \in Purposes, Reserve(r, p)
    PROVE  IdentityTypeInv'
<1>1. /\ \A s \in Requests : request[s].pc = "idle"
      /\ Len(codes) < MaxCodes
  BY ReserveFindsIdle
<1> DEFINE known == user.status = "pending"
           new == [NoRequest EXCEPT !.pc = "reserved", !.purpose = p,
                                    !.known = known, !.since = now]
<1>2. /\ new \in Handlers
      /\ new.pc = "reserved" /\ new.purpose = p /\ new.since = now
  <2>1. known \in BOOLEAN
    OBVIOUS
  <2> HIDE DEF known
  <2>2. now \in Times
    BY DEF IdentityTypeInv, IdentityTypeOK
  <2> QED
    BY <2>1, <2>2, IdleHandler DEF Handlers
<1>3. request' = [request EXCEPT ![r] = new]
  BY DEF Reserve
<1> HIDE DEF known, new
<1>4. IdentityTypeOK'
  <2>1. asked' \in [Purposes -> Times \cup {None}]
    BY DEF IdentityTypeInv, IdentityTypeOK, Reserve
  <2>2. request' \in [Requests -> Handlers]
    BY <1>2, <1>3 DEF IdentityTypeInv, IdentityTypeOK
  <2> QED
    BY <2>1, <2>2 DEF IdentityTypeInv, IdentityTypeOK, Reserve, userVars, sessionVars
<1>5. now \in Nat /\ DeliveryTimeout \in Nat /\ now # None
  BY SMTT(30), IdentityAssumption DEF IdentityTypeInv, IdentityTypeOK, Times
<1>6. lastSent' = now /\ now' = now /\ codes' = codes
  BY DEF Reserve
<1>7. \A s \in Requests : request'[s].pc # "idle" => s = r /\ request'[s] = new
  BY <1>1, <1>3 DEF IdentityTypeInv, IdentityTypeOK
<1>8. RequestsTakeTurns'
  BY <1>1, <1>2, <1>5, <1>6, <1>7 DEF RequestsTakeTurns
<1> QED
  BY <1>4, <1>8 DEF IdentityTypeInv

\* Every step that appends a code: its handler is the only one.
LEMMA SendingKeepsTypes ==
    ASSUME IdentityTypeInv, NEW r \in Requests, NEW rows \in Seq(Rows), Len(rows) = Len(codes),
           request[r].pc \in {"reserved", "invalidated"}, Sending(r, rows)
    PROVE  /\ codes' \in Seq(Rows) /\ Len(codes') = Len(codes) + 1 /\ Len(codes') <= MaxCodes
           /\ request' \in [Requests -> Handlers]
           /\ request'[r] = [request[r] EXCEPT !.pc = "sending", !.code = Len(codes) + 1]
           /\ \A s \in Requests \ {r} : request'[s] = request[s] /\ request[s].pc = "idle"
           /\ request[r].purpose \in Purposes
<1>1. /\ request[r].purpose \in Purposes /\ Len(codes) < MaxCodes
      /\ \A s \in Requests \ {r} : request[s].pc = "idle"
  BY DEF IdentityTypeInv, RequestsTakeTurns
<1>2. request[r].since \in Times /\ now \in Times
  BY DEF IdentityTypeInv, IdentityTypeOK, Handlers
<1>3. NewCode(request[r].purpose, request[r].since) \in Rows
  BY <1>1, <1>2, IdentityAssumption DEF NewCode, Rows
<1>4. codes' \in Seq(Rows) /\ Len(codes') = Len(rows) + 1
  BY <1>3, AppendProperties DEF Sending
<1>5. Len(codes) \in Nat /\ MaxCodes \in Nat
  BY LenProperties, IdentityAssumption DEF IdentityTypeInv, IdentityTypeOK
<1>6. request' = [request EXCEPT ![r].pc = "sending", ![r].code = Len(codes) + 1]
  BY DEF Sending
<1>7. request \in [Requests -> Handlers]
  BY DEF IdentityTypeInv, IdentityTypeOK
<1>8. Len(codes) + 1 \in 0 .. MaxCodes
  BY <1>1, <1>5
<1>9. [request[r] EXCEPT !.pc = "sending", !.code = Len(codes) + 1]
          \in Handlers
  BY <1>7, <1>8 DEF Handlers
<1> QED
  BY <1>1, <1>4, <1>5, <1>6, <1>7, <1>9

LEMMA InvalidateKeepsRows ==
    ASSUME NEW rows \in Seq(Rows), NEW p
    PROVE  Invalidate(rows, p) \in Seq(Rows) /\ Len(Invalidate(rows, p)) = Len(rows)
<1>1. \A i \in DOMAIN rows : rows[i] \in Rows
  BY ElementOfSeq
<1>2. \A i \in DOMAIN rows : [rows[i] EXCEPT !.consumed = TRUE] \in Rows
  BY <1>1 DEF Rows
<1>3. Invalidate(rows, p) \in [DOMAIN rows -> Rows]
  BY <1>1, <1>2 DEF Invalidate
<1> QED
  BY <1>3, RewrittenTable

\* A step that accepts no handler keeps them in turn.
LEMMA TurnsAreKept ==
    ASSUME IdentityTypeInv, now' = now, lastSent' = lastSent,
           \A r \in Requests : request'[r].pc # "idle" =>
               /\ request[r].pc # "idle" /\ request'[r].purpose = request[r].purpose
               /\ request'[r].since = request[r].since,
           \A r \in Requests : request'[r].pc \in {"reserved", "invalidated"} =>
               request[r].pc \in {"reserved", "invalidated"} /\ Len(codes') = Len(codes)
    PROVE  RequestsTakeTurns'
BY DEF IdentityTypeInv, RequestsTakeTurns

\* Steps of a handler that sends a code.
LEMMA RequestKeepsTypes ==
    ASSUME IdentityTypeInv, NEW r \in Requests,
           \/ CreatePendingUser(r) \/ RefreshPendingUser(r)
           \/ InvalidateReset(r) \/ CreatePasswordReset(r) \/ RequestConflicts(r) \/ RequestFails(r)
           \/ MailDelivered(r) \/ MailFails(r)
    PROVE  IdentityTypeInv'
<1> USE DEF IdentityTypeInv
<1>t. /\ now \in Times /\ request \in [Requests -> Handlers]
      /\ codes \in Seq(Rows) /\ Len(codes) \in Nat /\ Len(codes) <= MaxCodes
      /\ \A s \in Requests, p \in {"reserved", "invalidated", "sending"} : request[s].pc = p =>
             request[s].pc # "idle"
  BY LenProperties DEF IdentityTypeOK
<1>f. Fault => faults' \in 0 .. MaxFaults
  BY IdentityAssumption DEF Fault, IdentityTypeOK
<1>i. \A p \in Purposes : Invalidate(codes, p) \in Seq(Rows) /\ Len(Invalidate(codes, p)) = Len(codes)
  BY <1>t, InvalidateKeepsRows
<1>e. ASSUME EndRequest(r)
      PROVE  /\ request' \in [Requests -> Handlers]
             /\ \A s \in Requests : request'[s].pc # "idle" => request'[s] = request[s] /\ s # r
  BY <1>t, <1>e, IdleHandler DEF EndRequest
<1>a. ASSUME NEW rows \in Seq(Rows), Len(rows) = Len(codes), now' = now, lastSent' = lastSent,
             request[r].pc \in {"reserved", "invalidated"}, Sending(r, rows)
      PROVE  RequestsTakeTurns'
  <2>1. /\ request'[r] = [request[r] EXCEPT !.pc = "sending", !.code = Len(codes) + 1]
        /\ \A s \in Requests \ {r} : request'[s] = request[s] /\ request[s].pc = "idle"
    BY <1>a, SendingKeepsTypes
  <2>2. request'[r].pc = "sending" /\ request'[r].purpose = request[r].purpose
        /\ request'[r].since = request[r].since
    BY <2>1, <1>t DEF Handlers
  <2> QED
    BY <1>a, <2>1, <2>2, TurnsAreKept
<1>1. CASE CreatePendingUser(r)
  <2>1. /\ codes' \in Seq(Rows) /\ Len(codes') <= MaxCodes /\ request' \in [Requests -> Handlers]
    BY <1>1, <1>t, SendingKeepsTypes DEF CreatePendingUser
  <2>2. RequestsTakeTurns'
    BY <1>1, <1>a, <1>t DEF CreatePendingUser
  <2> QED
    BY <1>1, <1>t, <2>1, <2>2 DEF CreatePendingUser, IdentityTypeOK, sessionVars
<1>2. CASE RefreshPendingUser(r)
  <2>1. /\ codes' \in Seq(Rows) /\ Len(codes') <= MaxCodes /\ request' \in [Requests -> Handlers]
    BY <1>2, <1>i, SendingKeepsTypes DEF RefreshPendingUser, Purposes
  <2>2. RequestsTakeTurns'
    BY <1>2, <1>a, <1>i DEF RefreshPendingUser, Purposes
  <2> QED
    BY <1>2, <2>1, <2>2 DEF RefreshPendingUser, IdentityTypeOK, sessionVars, userVars
<1>3. CASE InvalidateReset(r)
  <2>1. codes' \in Seq(Rows) /\ Len(codes') = Len(codes) /\ faults' \in 0 .. MaxFaults
    BY <1>3, <1>t, <1>i, <1>f DEF InvalidateReset, Purposes, IdentityTypeOK
  <2>2. /\ request' \in [Requests -> Handlers] /\ request'[r].pc = "invalidated"
        /\ request'[r].purpose = request[r].purpose /\ request'[r].since = request[r].since
        /\ \A s \in Requests \ {r} : request'[s] = request[s]
    BY <1>3, <1>t DEF InvalidateReset, Handlers
  <2>3. RequestsTakeTurns'
    BY <1>3, <2>1, <2>2, TurnsAreKept DEF InvalidateReset
  <2> QED
    BY <1>3, <1>t, <2>1, <2>2, <2>3 DEF InvalidateReset, IdentityTypeOK, sessionVars, userVars
<1>4. CASE CreatePasswordReset(r)
  <2>1. /\ codes' \in Seq(Rows) /\ Len(codes') <= MaxCodes /\ request' \in [Requests -> Handlers]
    BY <1>4, <1>t, SendingKeepsTypes DEF CreatePasswordReset
  <2>2. RequestsTakeTurns'
    BY <1>4, <1>a, <1>t DEF CreatePasswordReset
  <2> QED
    BY <1>4, <2>1, <2>2 DEF CreatePasswordReset, IdentityTypeOK, sessionVars, userVars
<1>5. CASE RequestConflicts(r)
  <2>1. RequestsTakeTurns'
    BY <1>5, <1>e, TurnsAreKept DEF RequestConflicts
  <2> QED
    BY <1>5, <1>e, <2>1 DEF RequestConflicts, IdentityTypeOK, sessionVars, userVars
<1>6. CASE RequestFails(r)
  <2>1. RequestsTakeTurns'
    BY <1>6, <1>e, TurnsAreKept DEF RequestFails
  <2> QED
    BY <1>6, <1>e, <1>f, <2>1 DEF RequestFails, IdentityTypeOK, sessionVars, userVars
<1>m. \A m \in {"delivered", "failed"} :
          /\ [codes EXCEPT ![request[r].code].mail = m] \in Seq(Rows)
          /\ Len([codes EXCEPT ![request[r].code].mail = m]) = Len(codes)
  <2> TAKE m \in {"delivered", "failed"}
  <2>1. \A i \in DOMAIN codes : codes[i] \in Rows
    BY <1>t, ElementOfSeq
  <2>2. \A i \in DOMAIN codes : [codes[i] EXCEPT !.mail = m] \in Rows
    BY <2>1 DEF Rows
  <2>3. [codes EXCEPT ![request[r].code].mail = m] \in [DOMAIN codes -> Rows]
    BY <2>1, <2>2, <1>t
  <2> QED
    BY <2>3, <1>t, RewrittenTable
<1>7. CASE MailDelivered(r)
  <2>1. RequestsTakeTurns'
    BY <1>7, <1>e, <1>m, TurnsAreKept DEF MailDelivered
  <2>2. codes' \in Seq(Rows) /\ Len(codes') = Len(codes)
    BY <1>7, <1>m DEF MailDelivered
  <2> QED
    BY <1>7, <1>e, <1>t, <2>1, <2>2 DEF MailDelivered, IdentityTypeOK, sessionVars, userVars
<1>8. CASE MailFails(r)
  <2>1. Failed(r) \in Seq(Rows) /\ Len(Failed(r)) = Len(codes)
    BY <1>m DEF Failed
  <2>2. codes' \in Seq(Rows) /\ Len(codes') = Len(codes)
    BY <1>8, <2>1, InvalidateKeepsRows DEF MailFails
  <2>3. RequestsTakeTurns'
    BY <1>8, <1>e, <2>2, TurnsAreKept DEF MailFails
  <2> QED
    BY <1>8, <1>e, <1>f, <1>t, <2>2, <2>3 DEF MailFails, IdentityTypeOK, sessionVars, userVars
<1> QED
  BY <1>1, <1>2, <1>3, <1>4, <1>5, <1>6, <1>7, <1>8

\* Using a code, or trying one, rewrites one row.
LEMMA CodeUseKeepsRows ==
    ASSUME codes \in Seq(Rows), NEW p \in Purposes
    PROVE  /\ Consume(p) \in Seq(Rows) /\ Len(Consume(p)) = Len(codes)
           /\ Usable(p) =>
                  LET tried == [codes EXCEPT ![Latest(p)].attempts = @ + 1]
                  IN  tried \in Seq(Rows) /\ Len(tried) = Len(codes)
<1>1. \A i \in DOMAIN codes : codes[i] \in Rows
  BY ElementOfSeq
<1>2. \A i \in DOMAIN codes : [codes[i] EXCEPT !.consumed = TRUE, !.used = TRUE] \in Rows
  BY <1>1 DEF Rows
<1>3. Consume(p) \in [DOMAIN codes -> Rows]
  BY <1>1, <1>2 DEF Consume
<1>4. ASSUME Usable(p)
      PROVE  [codes EXCEPT ![Latest(p)].attempts = @ + 1] \in [DOMAIN codes -> Rows]
  <2>1. \A i \in DOMAIN codes : i = Latest(p) =>
            codes[i].attempts \in 0 .. MaxAttempts /\ codes[i].attempts < MaxAttempts
    BY <1>1, <1>4 DEF Usable, Rows
  <2>2. \A n \in 0 .. MaxAttempts : n < MaxAttempts => n + 1 \in 0 .. MaxAttempts
    BY IdentityAssumption
  <2>3. \A i \in DOMAIN codes : i = Latest(p) =>
            [codes[i] EXCEPT !.attempts = codes[i].attempts + 1] \in Rows
    BY <1>1, <2>1, <2>2 DEF Rows
  <2> QED
    BY <1>1, <2>3
<1> QED
  BY <1>3, <1>4, RewrittenTable

SessionRows == [at : Times, revoked : BOOLEAN]

LEMMA RevokedKeepsRows ==
    ASSUME sessions \in Seq(SessionRows)
    PROVE  RevokedSessions \in Seq(SessionRows) /\ Len(RevokedSessions) = Len(sessions)
<1>1. \A i \in DOMAIN sessions : sessions[i] \in SessionRows
  BY ElementOfSeq
<1>2. RevokedSessions \in [DOMAIN sessions -> SessionRows]
  BY <1>1 DEF RevokedSessions, SessionRows
<1> QED
  BY <1>2, RewrittenTable

\* A new session is one row more, and there is room for it.
LEMMA NewSessionKeepsRows ==
    ASSUME now \in Times, NEW rows \in Seq(SessionRows), NewSession(rows)
    PROVE  sessions' \in Seq(SessionRows) /\ Len(sessions') <= MaxSessions
<1>1. [at |-> now, revoked |-> FALSE] \in SessionRows
  BY DEF SessionRows
<1>2. sessions' \in Seq(SessionRows) /\ Len(sessions') = Len(rows) + 1
  BY <1>1, AppendProperties DEF NewSession
<1>3. Len(rows) \in Nat
  BY LenProperties
<1> QED
  BY <1>2, <1>3, IdentityAssumption DEF NewSession

\* The steps of the account that no sending handler takes.
LEMMA AccountStepKeepsTypes ==
    ASSUME IdentityTypeInv,
           \/ VerifyUser \/ ResetPassword \/ \E p \in Purposes : WrongCode(p)
           \/ LoginCheck \/ ChangeCheck \/ \E i \in DOMAIN sessions : Logout(i)
           \/ \E f \in {"activated", "checked"} : CreateUserSession(f)
           \/ SessionFails \/ ChangeUserPassword \/ CleanupIdentity
    PROVE  IdentityTypeInv'
<1> USE DEF IdentityTypeInv
<1>t. /\ now \in Times /\ request \in [Requests -> Handlers]
      /\ codes \in Seq(Rows) /\ Len(codes) \in Nat /\ Len(codes) <= MaxCodes
      /\ sessions \in Seq(SessionRows) /\ Len(sessions) \in Nat /\ Len(sessions) <= MaxSessions
  BY LenProperties DEF IdentityTypeOK, SessionRows
<1>u. \A i \in DOMAIN codes : codes[i] \in Rows
  BY <1>t, ElementOfSeq
<1>k. ASSUME now' = now, lastSent' = lastSent, request' = request, Len(codes') = Len(codes)
      PROVE  RequestsTakeTurns'
  BY <1>k DEF RequestsTakeTurns
<1>1. CASE VerifyUser
  <2>1. codes' \in Seq(Rows) /\ Len(codes') = Len(codes)
    BY <1>1, <1>t, CodeUseKeepsRows DEF VerifyUser, Purposes
  <2>2. RequestsTakeTurns'
    BY <1>1, <1>k, <2>1 DEF VerifyUser
  <2>3. points' \in Nat
    BY SMTT(30), <1>1, IdentityAssumption DEF VerifyUser, IdentityTypeOK
  <2>4. user' \in [status : {"none", "pending", "active"}, created : Times]
    BY <1>1 DEF VerifyUser, IdentityTypeOK
  <2> QED
    BY <1>1, <1>t, <2>1, <2>2, <2>3, <2>4 DEF VerifyUser, IdentityTypeOK
<1>2. CASE ResetPassword
  <2>1. codes' \in Seq(Rows) /\ Len(codes') = Len(codes)
    BY <1>2, <1>t, CodeUseKeepsRows DEF ResetPassword, Purposes
  <2>2. RequestsTakeTurns'
    BY <1>2, <1>k, <2>1 DEF ResetPassword
  <2>3. sessions' \in Seq(SessionRows) /\ Len(sessions') = Len(sessions)
    BY <1>2, <1>t, RevokedKeepsRows DEF ResetPassword
  <2> QED
    BY <1>2, <1>t, <2>1, <2>2, <2>3 DEF ResetPassword, IdentityTypeOK, userVars, SessionRows
<1>3. CASE \E p \in Purposes : WrongCode(p)
  <2> PICK p \in Purposes : WrongCode(p)
    BY <1>3
  <2>1. codes' \in Seq(Rows) /\ Len(codes') = Len(codes)
    BY <1>t, CodeUseKeepsRows DEF WrongCode
  <2>2. RequestsTakeTurns'
    BY <1>k, <2>1 DEF WrongCode
  <2> QED
    BY <1>t, <2>1, <2>2 DEF WrongCode, IdentityTypeOK, userVars, sessionVars
<1>4. CASE LoginCheck \/ ChangeCheck \/ SessionFails
  <2>1. RequestsTakeTurns'
    BY <1>4, <1>k DEF LoginCheck, ChangeCheck, SessionFails, mailVars
  <2>2. faults' \in 0 .. MaxFaults
    BY <1>4, IdentityAssumption DEF LoginCheck, ChangeCheck, SessionFails, Fault, IdentityTypeOK
  <2>3. /\ login' \in {"idle", "activated", "checked"} /\ change' \in {"idle", "verified"}
        /\ UNCHANGED <<now, user, points, codes, lastSent, request, asked, sessions>>
    BY <1>4 DEF LoginCheck, ChangeCheck, SessionFails, IdentityTypeOK, mailVars, userVars
  <2> QED
    BY <2>1, <2>2, <2>3 DEF IdentityTypeOK
<1>5. CASE \E i \in DOMAIN sessions : Logout(i)
  <2> PICK i \in DOMAIN sessions : Logout(i)
    BY <1>5
  <2>1. \A j \in DOMAIN sessions : sessions[j] \in SessionRows
    BY <1>t, ElementOfSeq
  <2>2. [sessions[i] EXCEPT !.revoked = TRUE] \in SessionRows
    BY <2>1 DEF SessionRows
  <2>3. sessions' \in [DOMAIN sessions -> SessionRows]
    BY <2>1, <2>2 DEF Logout
  <2>4. sessions' \in Seq(SessionRows) /\ Len(sessions') = Len(sessions)
    BY <1>t, <2>3, RewrittenTable
  <2>5. RequestsTakeTurns'
    BY <1>k DEF Logout, mailVars
  <2> QED
    BY <1>t, <2>4, <2>5 DEF Logout, IdentityTypeOK, mailVars, userVars, SessionRows
<1>6. CASE \E f \in {"activated", "checked"} : CreateUserSession(f)
  <2>1. sessions' \in Seq(SessionRows) /\ Len(sessions') <= MaxSessions
    BY <1>6, <1>t, NewSessionKeepsRows DEF CreateUserSession
  <2>2. RequestsTakeTurns'
    BY <1>6, <1>k DEF CreateUserSession, mailVars
  <2> QED
    BY <1>6, <1>t, <2>1, <2>2 DEF CreateUserSession, IdentityTypeOK, mailVars, userVars, SessionRows
<1>7. CASE ChangeUserPassword
  <2>1. sessions' \in Seq(SessionRows) /\ Len(sessions') <= MaxSessions
    BY <1>7, <1>t, NewSessionKeepsRows, RevokedKeepsRows DEF ChangeUserPassword
  <2>2. \A i \in DOMAIN codes :
            [codes[i] EXCEPT !.consumed = TRUE, !.used = @ \/ ~codes[i].consumed] \in Rows
    BY <1>u DEF Rows
  <2>3. codes' \in [DOMAIN codes -> Rows]
    BY <1>7, <2>2 DEF ChangeUserPassword
  <2>4. codes' \in Seq(Rows) /\ Len(codes') = Len(codes)
    BY <1>t, <2>3, RewrittenTable
  <2>5. RequestsTakeTurns'
    BY <1>7, <1>k, <2>4 DEF ChangeUserPassword
  <2> QED
    BY <1>7, <1>t, <2>1, <2>4, <2>5 DEF ChangeUserPassword, IdentityTypeOK, userVars, SessionRows
<1>8. CASE CleanupIdentity
  <2>2. \A i \in DOMAIN codes : [codes[i] EXCEPT !.consumed = TRUE, !.used = TRUE] \in Rows
    BY <1>u DEF Rows
  <2>3. codes' \in [DOMAIN codes -> Rows]
    BY <1>8, <2>2 DEF CleanupIdentity
  <2>4. codes' \in Seq(Rows) /\ Len(codes') = Len(codes)
    BY <1>t, <2>3, RewrittenTable
  <2>5. RequestsTakeTurns'
    BY <1>8, <1>k, <2>4 DEF CleanupIdentity
  <2>6. 0 \in Times
    BY IdentityAssumption DEF Times
  <2> QED
    BY <1>8, <1>t, <2>4, <2>5, <2>6 DEF CleanupIdentity, IdentityTypeOK, sessionVars
<1> QED
  BY <1>1, <1>2, <1>3, <1>4, <1>5, <1>6, <1>7, <1>8

LEMMA TickKeepsTypes == ASSUME IdentityTypeInv, Tick PROVE IdentityTypeInv'
<1>1. now \in Int /\ MaxTime \in Nat
  BY IdentityAssumption DEF IdentityTypeInv, IdentityTypeOK, Times
<1>2. \A r \in Requests : request[r].since \in Int /\ DeliveryTimeout \in Int
  BY IdentityAssumption DEF IdentityTypeInv, IdentityTypeOK, Times, Handlers
<1>3. RequestsTakeTurns'
  BY <1>1, <1>2 DEF IdentityTypeInv, RequestsTakeTurns, Tick, MayTick, mailVars
<1> QED
  BY <1>1, <1>3 DEF IdentityTypeInv, IdentityTypeOK, Tick, MayTick, Times, mailVars, userVars, sessionVars

LEMMA RestartKeepsTypes == ASSUME IdentityTypeInv, IdentityRestart, Fault PROVE IdentityTypeInv'
<1>1. request' \in [Requests -> Handlers] /\ \A r \in Requests : request'[r].pc = "idle"
  BY IdleHandler DEF IdentityRestart
<1>2. faults' \in 0 .. MaxFaults
  BY IdentityAssumption DEF Fault, IdentityTypeInv, IdentityTypeOK
<1>3. RequestsTakeTurns'
  BY <1>1 DEF RequestsTakeTurns
<1> QED
  BY <1>1, <1>2, <1>3 DEF IdentityTypeInv, IdentityTypeOK, IdentityRestart, userVars

LEMMA InitBenefitTypes == BenefitsInit => BenefitsTypeOK
BY DEF BenefitsInit, BenefitsTypeOK, Plans, Kinds, Users

LEMMA SetCodesType ==
    ASSUME BenefitsTypeOK, NEW b, NEW from, NEW to \in {"none", "active", "redeemed", "disabled"}
    PROVE  SetCodes(b, from, to) \in
               [Codes -> [status : {"none", "active", "redeemed", "disabled"}, by : Users \cup {None}]]
<1> DEFINE T == [status : {"none", "active", "redeemed", "disabled"}, by : Users \cup {None}]
<1>1. \A x \in T : [x EXCEPT !.status = to] \in T
  OBVIOUS
<1>2. \A c \in Codes : [code[c] EXCEPT !.status = to] \in T
  BY <1>1 DEF BenefitsTypeOK
<1> QED
  BY <1>2 DEF SetCodes, BenefitsTypeOK

LEMMA BenefitType ==
    ASSUME now \in Times, NEW v \in [plan : Plans \cup {"none"}, expires : Nat], NEW plan \in Plans
    PROVE  ApplyVIPBenefit(v, plan) \in [plan : Plans \cup {"none"}, expires : Nat]
<1>1. now \in Nat
  BY IdentityAssumption DEF Times
<1>2. CASE v.plan = "lifetime" \/ plan = "lifetime"
  BY <1>2 DEF ApplyVIPBenefit
<1>3. CASE v.plan # "lifetime" /\ plan # "lifetime"
  <2>1. Duration[plan] \in Nat
    BY <1>3, BenefitsAssumption DEF Plans
  <2> DEFINE w == ApplyVIPBenefit(v, plan)
  <2>2. w = [plan    |-> IF v.expires > now /\ Rank(v.plan) > Rank(plan) THEN v.plan ELSE plan,
             expires |-> (IF v.expires > now THEN v.expires ELSE now) + Duration[plan]]
    BY <1>3 DEF ApplyVIPBenefit
  <2> QED
    BY <1>1, <2>1, <2>2
<1> QED
  BY <1>2, <1>3

\* Steps of the benefit handlers.
BenefitSteps ==
    \/ BenefitStarts \/ BenefitContinues \/ GrantVIPDailyLogin \/ BenefitsRestart

LEMMA BenefitStepKeepsTypes ==
    ASSUME BenefitsTypeOK, now \in Times, BenefitSteps
    PROVE  BenefitsTypeOK'
<1> USE DEF codeVars, dailyVars
<1>d. Today \in Dates /\ Dates' = Dates
  BY TodayIsADate DEF Dates
<1>1. ASSUME NEW b \in Batches, NEW o \in Offers, CreateRedemptionBatch(b, o)
      PROVE  BenefitsTypeOK'
  <2>1. o.kind \in Kinds /\ o.expires \in Nat
    BY BenefitsAssumption
  <2>2. batch' \in [Batches -> [status : {"none", "active", "disabled"}, kind : Kinds \cup {None}, expires : Nat]]
    BY <1>1, <2>1 DEF CreateRedemptionBatch, BenefitsTypeOK
  <2> QED
    BY <1>1, <1>d, <2>2, SetCodesType DEF CreateRedemptionBatch, BenefitsTypeOK
<1>2. ASSUME NEW b \in Batches, DisableRedemptionBatch(b)
      PROVE  BenefitsTypeOK'
  <2>1. batch' \in [Batches -> [status : {"none", "active", "disabled"}, kind : Kinds \cup {None}, expires : Nat]]
    BY ZenonT(40), <1>2 DEF DisableRedemptionBatch, BenefitsTypeOK
  <2> QED
    BY <1>2, <1>d, <2>1, SetCodesType DEF DisableRedemptionBatch, BenefitsTypeOK
<1>3. ASSUME NEW h \in Redeemers, NEW c \in Codes, RedeemCheck(h, c)
      PROVE  BenefitsTypeOK'
  BY <1>3, <1>d DEF RedeemCheck, BenefitsTypeOK
<1>4. ASSUME NEW h \in CheckIns, CheckInRead(h)
      PROVE  BenefitsTypeOK'
  BY <1>4, <1>d DEF CheckInRead, BenefitsTypeOK
<1>5. ASSUME NEW h \in Redeemers, RedeemRedemptionCode(h)
      PROVE  BenefitsTypeOK'
  <2> DEFINE c == redeem[h]
             kind == batch[BatchOf[c]].kind
  <2>1. c \in Codes /\ UserOf[h] \in Users
    BY <1>5, BenefitsAssumption DEF RedeemRedemptionCode, BenefitsTypeOK
  <2>2. /\ code' = [code EXCEPT ![c] = [status |-> "redeemed", by |-> UserOf[h]]]
        /\ paid' = [paid EXCEPT ![c][UserOf[h]] = @ + 1]
        /\ vip' = IF UserOf[h] = Me /\ kind \in Plans THEN ApplyVIPBenefit(vip, kind) ELSE vip
        /\ redeem' = [redeem EXCEPT ![h] = None]
        /\ UNCHANGED <<batch, checkin, claimed, granted, gifts>>
    BY <1>5 DEF RedeemRedemptionCode, EndRedeem
  <2> HIDE DEF c, kind
  <2>3. vip' \in [plan : Plans \cup {"none"}, expires : Nat]
    BY <2>2, BenefitType DEF BenefitsTypeOK
  <2>4. code' \in [Codes -> [status : {"none", "active", "redeemed", "disabled"}, by : Users \cup {None}]]
    BY <2>1, <2>2 DEF BenefitsTypeOK
  <2>5. paid' \in [Codes -> [Users -> Nat]]
    BY <2>1, <2>2 DEF BenefitsTypeOK
  <2> QED
    BY <1>d, <2>2, <2>3, <2>4, <2>5 DEF BenefitsTypeOK
<1>6. ASSUME NEW h \in Redeemers, RedeemAnswers(h)
      PROVE  BenefitsTypeOK'
  BY <1>6, <1>d DEF RedeemAnswers, EndRedeem, BenefitsTypeOK
<1>7. ASSUME NEW h \in CheckIns, ClaimDailyCheckIn(h)
      PROVE  BenefitsTypeOK'
  <2>1. checkin[h] \in Dates
    BY <1>7 DEF ClaimDailyCheckIn, BenefitsTypeOK
  <2>2. gifts' \in [{"checkin", "login"} -> [Dates -> Nat]]
    BY <1>7, <2>1 DEF ClaimDailyCheckIn, BenefitsTypeOK
  <2> QED
    BY <1>7, <1>d, <2>1, <2>2 DEF ClaimDailyCheckIn, BenefitsTypeOK
<1>8. CASE GrantVIPDailyLogin
  <2>2. gifts' \in [{"checkin", "login"} -> [Dates -> Nat]]
    BY <1>8, <1>d DEF GrantVIPDailyLogin, BenefitsTypeOK
  <2> QED
    BY <1>8, <1>d, <2>2 DEF GrantVIPDailyLogin, BenefitsTypeOK
<1>9. CASE BenefitsRestart
  BY <1>9, <1>d DEF BenefitsRestart, BenefitsTypeOK
<1> QED
  BY <1>1, <1>2, <1>3, <1>4, <1>5, <1>6, <1>7, <1>8, <1>9 DEF BenefitSteps, BenefitStarts, BenefitContinues

\* The steps of the account, of its benefits and of both, as the proofs below take them.
IdentitySteps == IdentityStarts \/ IdentityContinues \/ Tick \/ CreateUserSession("checked")
                     \/ (IdentityRestart /\ Fault)

LEMMA StepsSplit ==
    ASSUME [Next]_vars
    PROVE  /\ IdentitySteps \/ UNCHANGED identityVars
           /\ BenefitSteps \/ UNCHANGED benefitVars
BY DEF Next, vars, IdentitySteps, BenefitSteps, Login, Restart

TypeInv == IdentityTypeInv /\ BenefitsTypeOK /\ operations \in 0 .. MaxOperations

LEMMA IdentityStepKeepsTypes ==
    ASSUME IdentityTypeInv, IdentitySteps
    PROVE  IdentityTypeInv'
BY ReserveKeepsTypes, RequestKeepsTypes, AccountStepKeepsTypes, TickKeepsTypes, RestartKeepsTypes
   DEF IdentitySteps, IdentityStarts, IdentityContinues, Register, Purposes

LEMMA NextTypeInv == TypeInv /\ [Next]_vars => TypeInv'
<1> SUFFICES ASSUME TypeInv, [Next]_vars PROVE TypeInv'
  OBVIOUS
<1>1. IdentityTypeInv'
  <2>1. ASSUME UNCHANGED identityVars PROVE IdentityTypeInv'
    BY <2>1 DEF TypeInv, IdentityTypeInv, IdentityTypeOK, RequestsTakeTurns, identityVars
  <2> QED
    BY <2>1, StepsSplit, IdentityStepKeepsTypes DEF TypeInv
<1>2. BenefitsTypeOK'
  <2>1. ASSUME UNCHANGED benefitVars PROVE BenefitsTypeOK'
    BY <2>1 DEF TypeInv, BenefitsTypeOK, benefitVars, Dates
  <2>2. now \in Times
    BY DEF TypeInv, IdentityTypeInv, IdentityTypeOK
  <2> QED
    BY <2>1, <2>2, StepsSplit, BenefitStepKeepsTypes DEF TypeInv
<1>3. operations' \in 0 .. MaxOperations
  BY AccountAssumption DEF TypeInv, Next, Starts, Continues, vars
<1> QED
  BY <1>1, <1>2, <1>3 DEF TypeInv

LEMMA TypeInvInvariant == Spec => []TypeInv
<1>1. Init => TypeInv
  BY InitIdentityTypes, InitBenefitTypes, AccountAssumption DEF Init, TypeInv
<1> QED
  BY <1>1, NextTypeInv, PTL DEF Spec

\* The rows, the handlers and the clock have their types; a code that is to be inserted
\* always finds room, because handlers of one address never overlap.
THEOREM Typing == Spec => []TypeOK
<1>1. TypeInv => TypeOK
  BY DEF TypeInv, IdentityTypeInv, TypeOK
<1> QED
  BY <1>1, TypeInvInvariant, PTL

-----------------------------------------------------------------------------
(* Benefits are given once. *)

LEMMA NextBenefitsOnce == TypeInv /\ BenefitsOnce /\ [Next]_vars => BenefitsOnce'
<1> SUFFICES ASSUME TypeInv, BenefitsOnce, [Next]_vars PROVE BenefitsOnce'
  OBVIOUS
<1> USE DEF codeVars, dailyVars, RedeemedBy
<1>t. BenefitsTypeOK /\ Today \in Dates /\ Dates' = Dates
  BY TodayIsADate DEF TypeInv, IdentityTypeInv, IdentityTypeOK, Dates
<1>d. ASSUME UNCHANGED <<claimed, granted, gifts, paid>>,
             \A c \in Codes : code'[c].by = code[c].by
                                  /\ (code'[c].status = "redeemed" <=> code[c].status = "redeemed")
      PROVE  BenefitsOnce'
  BY <1>d, <1>t DEF BenefitsOnce
<1>s. ASSUME NEW b, NEW from \in {"none", "active"}, NEW to \in {"active", "disabled"},
             code' = SetCodes(b, from, to), UNCHANGED <<claimed, granted, gifts, paid>>
      PROVE  BenefitsOnce'
  <2>1. \A c \in Codes : code'[c].by = code[c].by
                             /\ (code'[c].status = "redeemed" <=> code[c].status = "redeemed")
    BY <1>s, <1>t DEF SetCodes, BenefitsTypeOK
  <2> QED
    BY <1>s, <1>d, <2>1
<1>1. ASSUME NEW b \in Batches, NEW o \in Offers, CreateRedemptionBatch(b, o) PROVE BenefitsOnce'
  BY <1>1, <1>s DEF CreateRedemptionBatch
<1>2. ASSUME NEW b \in Batches, DisableRedemptionBatch(b) PROVE BenefitsOnce'
  BY <1>2, <1>s DEF DisableRedemptionBatch
<1>3. ASSUME NEW h \in Redeemers, NEW c \in Codes, RedeemCheck(h, c) PROVE BenefitsOnce'
  BY <1>3, <1>d DEF RedeemCheck
<1>4. ASSUME NEW h \in CheckIns, CheckInRead(h) PROVE BenefitsOnce'
  BY <1>4, <1>d DEF CheckInRead
<1>5. ASSUME NEW h \in Redeemers, RedeemRedemptionCode(h) PROVE BenefitsOnce'
  <2> DEFINE c == redeem[h]
             u == UserOf[h]
  <2>1. c \in Codes /\ u \in Users /\ code[c].status = "active"
    BY <1>5, <1>t, BenefitsAssumption DEF RedeemRedemptionCode, Redeemable, BenefitsTypeOK
  <2>2. /\ code' = [code EXCEPT ![c] = [status |-> "redeemed", by |-> u]]
        /\ paid' = [paid EXCEPT ![c][u] = @ + 1]
        /\ UNCHANGED <<claimed, granted, gifts>>
    BY <1>5 DEF RedeemRedemptionCode
  <2> HIDE DEF c, u
  <2>3. \A k \in Codes, w \in Users :
            paid'[k][w] = IF code'[k].status = "redeemed" /\ code'[k].by = w THEN 1 ELSE 0
    BY <1>t, <2>1, <2>2 DEF BenefitsOnce, BenefitsTypeOK
  <2> QED
    BY <1>t, <2>2, <2>3 DEF BenefitsOnce
<1>6. ASSUME NEW h \in Redeemers, RedeemAnswers(h) PROVE BenefitsOnce'
  BY <1>6, <1>d DEF RedeemAnswers
<1>7. ASSUME NEW h \in CheckIns, ClaimDailyCheckIn(h) PROVE BenefitsOnce'
  <2>1. checkin[h] \in Dates
    BY <1>7, <1>t DEF ClaimDailyCheckIn, BenefitsTypeOK
  <2>2. \A d \in Dates : /\ gifts'["checkin"][d] = IF d \in claimed' THEN 1 ELSE 0
                         /\ gifts'["login"][d] = IF d \in granted' THEN 1 ELSE 0
    BY <1>7, <1>t, <2>1 DEF ClaimDailyCheckIn, Unclaimed, BenefitsTypeOK, BenefitsOnce
  <2> QED
    BY <1>7, <1>t, <2>2 DEF ClaimDailyCheckIn, BenefitsOnce
<1>8. CASE GrantVIPDailyLogin
  <2>1. \A d \in Dates : /\ gifts'["checkin"][d] = IF d \in claimed' THEN 1 ELSE 0
                         /\ gifts'["login"][d] = IF d \in granted' THEN 1 ELSE 0
    BY <1>8, <1>t DEF GrantVIPDailyLogin, BenefitsTypeOK, BenefitsOnce
  <2> QED
    BY <1>8, <1>t, <2>1 DEF GrantVIPDailyLogin, BenefitsOnce
<1>9. CASE BenefitsRestart \/ UNCHANGED benefitVars
  BY <1>9, <1>d DEF BenefitsRestart, benefitVars
<1> QED
  BY StepsSplit, <1>1, <1>2, <1>3, <1>4, <1>5, <1>6, <1>7, <1>8, <1>9
     DEF BenefitSteps, BenefitStarts, BenefitContinues

\* A code pays its recorded redeemer and nobody else, and once; a day has one check-in
\* and one membership grant, with one entitlement each.
THEOREM BenefitsAreGivenOnce == Spec => []BenefitsOnce
<1>1. Init => BenefitsOnce
  BY DEF Init, BenefitsInit, BenefitsOnce, RedeemedBy
<1> QED
  BY <1>1, NextBenefitsOnce, TypeInvInvariant, PTL DEF Spec

\* Withdrawing a batch is final: RedeemRedemptionCode asks for the batch's status inside
\* its transaction, so a request that had seen the code open pays nothing any more.
THEOREM DisablingIsFinal == Spec => DisabledIsFinal
<1> DEFINE Final == \A c \in Codes : batch[BatchOf[c]].status = "disabled"
                        => paid'[c] = paid[c] /\ batch'[BatchOf[c]].status = "disabled"
<1>1. TypeInv /\ [Next]_vars => [Final]_<<batch, paid>>
  <2> SUFFICES ASSUME TypeInv, [Next]_vars, NEW c \in Codes, batch[BatchOf[c]].status = "disabled"
               PROVE  \/ paid'[c] = paid[c] /\ batch'[BatchOf[c]].status = "disabled"
                      \/ UNCHANGED <<batch, paid>>
    OBVIOUS
  <2> USE DEF codeVars, dailyVars
  <2>t. BenefitsTypeOK /\ BatchOf[c] \in Batches
    BY BenefitsAssumption DEF TypeInv
  <2>1. ASSUME NEW b \in Batches, NEW o \in Offers, CreateRedemptionBatch(b, o)
        PROVE  paid'[c] = paid[c] /\ batch'[BatchOf[c]].status = "disabled"
    BY <2>1, <2>t DEF CreateRedemptionBatch, BenefitsTypeOK
  <2>2. ASSUME NEW b \in Batches, DisableRedemptionBatch(b)
        PROVE  paid'[c] = paid[c] /\ batch'[BatchOf[c]].status = "disabled"
    BY <2>2, <2>t DEF DisableRedemptionBatch, BenefitsTypeOK
  <2>3. ASSUME NEW h \in Redeemers, RedeemRedemptionCode(h)
        PROVE  paid'[c] = paid[c] /\ batch'[BatchOf[c]].status = "disabled"
    <3>1. redeem[h] \in Codes /\ redeem[h] # c
      BY <2>3, <2>t DEF RedeemRedemptionCode, Redeemable, BatchOpen, BenefitsTypeOK
    <3> QED
      BY <2>3, <2>t, <3>1 DEF RedeemRedemptionCode, BenefitsTypeOK
  <2>4. CASE \/ \E h \in Redeemers, k \in Codes : RedeemCheck(h, k)
             \/ \E h \in Redeemers : RedeemAnswers(h)
             \/ \E h \in CheckIns : CheckInRead(h) \/ ClaimDailyCheckIn(h)
             \/ GrantVIPDailyLogin \/ BenefitsRestart \/ UNCHANGED benefitVars
    BY <2>4 DEF RedeemCheck, RedeemAnswers, CheckInRead, ClaimDailyCheckIn, GrantVIPDailyLogin,
                BenefitsRestart, benefitVars
  <2> QED
    BY StepsSplit, <2>1, <2>2, <2>3, <2>4 DEF BenefitSteps, BenefitStarts, BenefitContinues
<1> QED
  BY <1>1, TypeInvInvariant, PTL DEF Spec, DisabledIsFinal

-----------------------------------------------------------------------------
(* The membership. *)

VipRows == [plan : Plans \cup {"none"}, expires : Nat]

\* The benefit is the membership itself, a lifetime, or a term added to what was left.
LEMMA BenefitExtends ==
    ASSUME now \in Times, NEW v \in VipRows, NEW plan \in Plans
    PROVE  LET w == ApplyVIPBenefit(v, plan)
           IN  \/ w = v
               \/ /\ Rank(ActivePlan(w, now)) >= Rank(ActivePlan(v, now))
                  /\ w.plan # "lifetime" =>
                         \E p \in DOMAIN Duration : Remaining(w) = Remaining(v) + Duration[p]
<1> DEFINE w == ApplyVIPBenefit(v, plan)
<1>1. now \in Nat /\ v.expires \in Nat /\ v.plan \in Plans \cup {"none"}
  BY IdentityAssumption DEF Times, VipRows
<1>2. CASE v.plan = "lifetime"
  BY <1>2 DEF ApplyVIPBenefit
<1>3. CASE v.plan # "lifetime" /\ plan = "lifetime"
  <2>1. w = [plan |-> "lifetime", expires |-> 0]
    BY <1>3 DEF ApplyVIPBenefit
  <2>2. Rank(ActivePlan(w, now)) = 3
    BY <2>1 DEF Rank, ActivePlan
  <2>3. Rank(ActivePlan(v, now)) \in {0, 1, 2}
    BY <1>1, <1>3 DEF Rank, ActivePlan, Plans
  <2> QED
    BY <2>1, <2>2, <2>3
<1>4. CASE v.plan # "lifetime" /\ plan # "lifetime"
  <2> DEFINE active == v.expires > now
  <2>1. plan \in DOMAIN Duration /\ Duration[plan] \in Nat \ {0}
    BY <1>4, BenefitsAssumption DEF Plans
  <2>2. /\ w.plan = IF active /\ Rank(v.plan) > Rank(plan) THEN v.plan ELSE plan
        /\ w.expires = (IF active THEN v.expires ELSE now) + Duration[plan]
    BY <1>4 DEF ApplyVIPBenefit
  <2> HIDE DEF w
  <2>3. w.expires > now
    BY <1>1, <2>1, <2>2
  <2>4. Remaining(w) = Remaining(v) + Duration[plan]
    BY <1>1, <2>1, <2>2, <2>3 DEF Remaining
  <2>5. Rank(plan) \in Nat /\ Rank(v.plan) \in Nat
    BY <1>1 DEF Rank, Plans
  <2>6. Rank(ActivePlan(w, now)) >= Rank(ActivePlan(v, now))
    <3>1. ActivePlan(w, now) = w.plan
      BY <2>3 DEF ActivePlan
    <3>2. CASE active
      BY <1>4, <2>2, <2>5, <3>1, <3>2 DEF ActivePlan
    <3>3. CASE ~active
      <4>1. Rank(ActivePlan(v, now)) = 0
        BY <1>4, <3>3 DEF ActivePlan, Rank
      <4> QED
        BY <2>2, <2>5, <3>1, <3>3, <4>1
    <3> QED
      BY <3>2, <3>3
  <2>7. \E p \in DOMAIN Duration : Remaining(w) = Remaining(v) + Duration[p]
    BY <2>1, <2>4
  <2> QED
    BY <2>6, <2>7 DEF w
<1> QED
  BY <1>2, <1>3, <1>4

\* Whatever is redeemed in whatever order, a membership loses neither rank nor time.
THEOREM MembershipIsKept == Spec => VipIsKept
<1> DEFINE Kept == /\ Rank(ActivePlan(vip', now)) >= Rank(ActivePlan(vip, now))
                   /\ vip'.plan # "lifetime" =>
                          \E p \in DOMAIN Duration : Remaining(vip') = Remaining(vip) + Duration[p]
<1>1. TypeInv /\ [Next]_vars => [Kept]_vip
  <2> SUFFICES ASSUME TypeInv, [Next]_vars, vip' # vip PROVE Kept
    OBVIOUS
  <2> USE DEF codeVars, dailyVars
  <2>1. \E h \in Redeemers : RedeemRedemptionCode(h)
    BY StepsSplit DEF BenefitSteps, BenefitStarts, BenefitContinues, CreateRedemptionBatch,
       DisableRedemptionBatch, RedeemCheck, CheckInRead, RedeemAnswers, ClaimDailyCheckIn,
       GrantVIPDailyLogin, BenefitsRestart, benefitVars
  <2>2. PICK plan \in Plans : vip' = ApplyVIPBenefit(vip, plan)
    BY <2>1 DEF RedeemRedemptionCode
  <2>3. now \in Times /\ vip \in VipRows
    BY DEF TypeInv, IdentityTypeInv, IdentityTypeOK, BenefitsTypeOK, VipRows
  <2> QED
    BY <2>2, <2>3, BenefitExtends
<1> QED
  BY <1>1, TypeInvInvariant, PTL DEF Spec, VipIsKept

-----------------------------------------------------------------------------
(* The account is whole. *)

\* What is under way for the account was let in by a session or a password of it.
HandlersHaveAccount ==
    user.status # "active" =>
        /\ login = "idle"
        /\ \A h \in Redeemers : UserOf[h] = Me => redeem[h] = None
        /\ \A h \in CheckIns : checkin[h] = None

WholeInv == AccountIsWhole /\ HandlersHaveAccount

LEMMA SignedInIsActive == SignedIn => user.status = "active"
BY DEF SignedIn, LiveSession

\* The account's own steps: only VerifyUser makes it active, and an active one stays.
LEMMA IdentityStepKeepsWhole ==
    ASSUME TypeInv, WholeInv, IdentitySteps,
           UNCHANGED <<vip, claimed, paid>>,
           UNCHANGED <<redeem, checkin>> \/ BenefitsRestart
    PROVE  WholeInv'
<1> USE DEF WholeInv, AccountIsWhole, HandlersHaveAccount
<1>t. /\ user \in [status : {"none", "pending", "active"}, created : Times]
      /\ Welcome \in Nat
  BY IdentityAssumption DEF TypeInv, IdentityTypeInv, IdentityTypeOK
<1>b. \/ UNCHANGED <<redeem, checkin>>
      \/ /\ \A h \in Redeemers : redeem'[h] = None
         /\ \A h \in CheckIns : checkin'[h] = None
  BY DEF BenefitsRestart
<1>1. ASSUME user'.status = user.status, points' = points, user'.status = "active"
      PROVE  WholeInv'
  BY <1>1
<1>2. ASSUME user'.status # "active", user.status # "active", points' = 0, sessions' = sessions, login' = "idle"
      PROVE  WholeInv'
  BY <1>2, <1>b
<1>3. CASE VerifyUser
  BY <1>3, <1>t DEF VerifyUser
<1>4. CASE CleanupIdentity
  BY <1>4, <1>2, <1>t DEF CleanupIdentity, Abandoned, sessionVars
<1>5. CASE \E r \in Requests : CreatePendingUser(r)
  BY <1>5, <1>2, <1>t DEF CreatePendingUser, sessionVars
<1>6. CASE ResetPassword \/ \E i \in DOMAIN sessions : Logout(i)
  <2>1. CASE user.status = "active"
    BY <1>6, <2>1, <1>1 DEF ResetPassword, Logout, userVars
  <2>2. CASE user.status # "active"
    <3>1. sessions = <<>> /\ points = 0 /\ login = "idle"
      BY <2>2
    <3>2. ResetPassword
      BY <1>6, <2>2 DEF Logout, LiveSession
    <3>3. sessions' = <<>>
      <4>1. DOMAIN sessions = 1 .. 0
        BY <3>1
      <4>2. sessions' \in Seq({}) /\ Len(sessions') = 0
        BY <3>1, <3>2, <4>1, RewrittenTable, EmptySeq DEF ResetPassword, RevokedSessions
      <4> QED
        BY <4>2, EmptySeq
    <3> QED
      BY <2>2, <3>1, <3>2, <3>3, <1>2 DEF ResetPassword, userVars
  <2> QED
    BY <2>1, <2>2
<1>7. CASE \/ LoginCheck \/ ChangeCheck \/ SessionFails \/ ChangeUserPassword
           \/ \E f \in {"activated", "checked"} : CreateUserSession(f)
           \/ IdentityRestart
  <2>1. user.status # "active" => sessions' = sessions /\ login' = "idle"
    BY <1>7, SignedInIsActive
       DEF LoginCheck, ChangeCheck, SessionFails, ChangeUserPassword, CreateUserSession, IdentityRestart
  <2>2. user' = user /\ points' = points
    BY <1>7 DEF LoginCheck, ChangeCheck, SessionFails, ChangeUserPassword, CreateUserSession,
                IdentityRestart, userVars
  <2> QED
    BY <2>1, <2>2, <1>1, <1>2
<1>8. CASE \/ Tick \/ \E p \in Purposes : WrongCode(p)
           \/ \E r \in Requests :
                  \/ Register(r) \/ Reserve(r, "reset") \/ RefreshPendingUser(r) \/ InvalidateReset(r)
                  \/ CreatePasswordReset(r) \/ RequestConflicts(r) \/ RequestFails(r)
                  \/ MailDelivered(r) \/ MailFails(r)
  <2>1. UNCHANGED <<user, points, sessions, login>>
    BY <1>8 DEF Tick, WrongCode, Register, Reserve, RefreshPendingUser, InvalidateReset, CreatePasswordReset,
       RequestConflicts, RequestFails, MailDelivered, MailFails, userVars, sessionVars
  <2> QED
    BY <2>1, <1>1, <1>2
<1> QED
  BY <1>3, <1>4, <1>5, <1>6, <1>7, <1>8 DEF IdentitySteps, IdentityStarts, IdentityContinues

LEMMA BenefitStepKeepsWhole ==
    ASSUME TypeInv, WholeInv, BenefitStarts \/ BenefitContinues, UNCHANGED identityVars
    PROVE  WholeInv'
<1> USE DEF codeVars, dailyVars, WholeInv, AccountIsWhole, HandlersHaveAccount
<1>t. BenefitsTypeOK /\ UNCHANGED <<user, points, sessions, login>>
  BY DEF TypeInv, identityVars
<1>a. CASE user.status = "active"
  BY <1>a, <1>t
<1>b. CASE user.status # "active"
  <2>1. CASE \/ \E b \in Batches, o \in Offers : CreateRedemptionBatch(b, o)
             \/ \E b \in Batches : DisableRedemptionBatch(b)
    BY <2>1, <1>t, <1>b DEF CreateRedemptionBatch, DisableRedemptionBatch
  <2>2. CASE \E h \in Redeemers, c \in Codes : RedeemCheck(h, c)
    BY <2>2, <1>t, <1>b, SignedInIsActive DEF RedeemCheck, BenefitsTypeOK
  <2>3. CASE \E h \in CheckIns : CheckInRead(h)
    BY <2>3, <1>b, SignedInIsActive DEF CheckInRead
  <2>4. CASE \E h \in Redeemers : RedeemRedemptionCode(h)
    <3> PICK h \in Redeemers : RedeemRedemptionCode(h)
      BY <2>4
    <3> DEFINE c == redeem[h]
    <3>1. c \in Codes /\ UserOf[h] # Me /\ UserOf[h] \in Users
      BY <1>t, <1>b, BenefitsAssumption DEF RedeemRedemptionCode, BenefitsTypeOK
    <3>2. \A k \in Codes : paid'[k][Me] = paid[k][Me]
      BY <1>t, <3>1 DEF RedeemRedemptionCode, BenefitsTypeOK, Users
    <3>3. /\ vip' = vip /\ claimed' = claimed /\ checkin' = checkin
          /\ redeem' = [redeem EXCEPT ![h] = None]
      BY <3>1 DEF RedeemRedemptionCode, EndRedeem
    <3> HIDE DEF c
    <3> QED
      BY <1>t, <1>b, <3>1, <3>2, <3>3 DEF BenefitsTypeOK
  <2>5. CASE \E h \in Redeemers : RedeemAnswers(h)
    BY <2>5, <1>t, <1>b DEF RedeemAnswers, EndRedeem, BenefitsTypeOK
  <2>6. CASE \E h \in CheckIns : ClaimDailyCheckIn(h)
    BY <2>6, <1>t, <1>b DEF ClaimDailyCheckIn, BenefitsTypeOK
  <2> QED
    BY <2>1, <2>2, <2>3, <2>4, <2>5, <2>6 DEF BenefitStarts, BenefitContinues
<1> QED
  BY <1>a, <1>b

LEMMA NextWholeInv == TypeInv /\ WholeInv /\ [Next]_vars => WholeInv'
<1> SUFFICES ASSUME TypeInv, WholeInv, [Next]_vars PROVE WholeInv'
  OBVIOUS
<1>1. CASE (BenefitStarts \/ BenefitContinues) /\ UNCHANGED identityVars
  BY <1>1, BenefitStepKeepsWhole
<1>2. CASE UNCHANGED vars
  BY <1>2 DEF vars, identityVars, benefitVars, WholeInv, AccountIsWhole, HandlersHaveAccount
<1>3. CASE (IdentityStarts \/ IdentityContinues \/ Tick) /\ UNCHANGED benefitVars
  BY <1>3, IdentityStepKeepsWhole DEF IdentitySteps, benefitVars
<1>4. CASE Login
  BY <1>4, IdentityStepKeepsWhole DEF IdentitySteps, Login, GrantVIPDailyLogin, codeVars
<1>5. CASE Restart
  BY <1>5, IdentityStepKeepsWhole DEF IdentitySteps, Restart, BenefitsRestart
<1> QED
  BY <1>1, <1>2, <1>3, <1>4, <1>5 DEF Next

\* Nothing is ever left behind by, or given to, an account that is not there.
THEOREM AccountsAreWhole == Spec => []AccountIsWhole
<1>1. Init => WholeInv
  BY DEF Init, IdentityInit, BenefitsInit, WholeInv, AccountIsWhole, HandlersHaveAccount, Users
<1>2. WholeInv => AccountIsWhole
  BY DEF WholeInv
<1> QED
  BY <1>1, <1>2, NextWholeInv, TypeInvInvariant, PTL DEF Spec

-----------------------------------------------------------------------------
(* The code in the newest mail. *)

\* Row i is the newest of its purpose that is not consumed.
IsCurrent(i) ==
    /\ ~codes[i].consumed
    /\ \A j \in DOMAIN codes : j > i /\ codes[j].purpose = codes[i].purpose => codes[j].consumed

\* Every code was asked for, at the latest when the last reservation was made.
CodesAreReserved ==
    \A i \in DOMAIN codes : lastSent # None /\ codes[i].since <= lastSent

\* A handler under way is the newest request of its purpose. Its code, once inserted, is
\* the last row, and every other row belongs to an earlier request.
HandlerIsNewest ==
    \A r \in Requests :
        /\ request[r].pc # "idle" => request[r].since = asked[request[r].purpose]
        /\ request[r].pc \in {"reserved", "invalidated"} =>
               \A i \in DOMAIN codes : codes[i].since < request[r].since
        /\ request[r].pc = "sending" =>
               /\ request[r].code \in DOMAIN codes /\ request[r].code = Len(codes)
               /\ codes[request[r].code].purpose = request[r].purpose
               /\ codes[request[r].code].consumed => codes[request[r].code].used
               /\ \A i \in DOMAIN codes : i # request[r].code => codes[i].since < request[r].since

DeliveredIsNewest ==
    \A i \in DOMAIN codes :
        codes[i].mail = "delivered" /\ ~codes[i].used /\ codes[i].since = asked[codes[i].purpose]
            => IsCurrent(i)

DeliveryInv == CodesAreReserved /\ HandlerIsNewest /\ DeliveredIsNewest

\* What the proofs below use of the types.
LEMMA RowFacts ==
    ASSUME IdentityTypeInv
    PROVE  /\ codes \in Seq(Rows) /\ Len(codes) \in Nat /\ DOMAIN codes = 1 .. Len(codes)
           /\ \A i \in DOMAIN codes :
                  /\ codes[i] \in Rows /\ codes[i].since \in Nat /\ codes[i].purpose \in Purposes
                  /\ codes[i].consumed \in BOOLEAN /\ codes[i].used \in BOOLEAN
           /\ request \in [Requests -> Handlers]
           /\ \A r \in Requests : request[r].since \in Nat
           /\ now \in Nat /\ now # None
           /\ lastSent # None => lastSent \in Nat
<1>1. codes \in Seq(Rows) /\ request \in [Requests -> Handlers]
  BY DEF IdentityTypeInv, IdentityTypeOK
<1>2. \A i \in DOMAIN codes : codes[i] \in Rows
  BY <1>1, ElementOfSeq
<1>3. Times \subseteq Nat
  BY IdentityAssumption DEF Times
<1>4. \A i \in DOMAIN codes :
          /\ codes[i].since \in Nat /\ codes[i].purpose \in Purposes
          /\ codes[i].consumed \in BOOLEAN /\ codes[i].used \in BOOLEAN
  BY <1>2, <1>3 DEF Rows
<1>5. \A r \in Requests : request[r].since \in Nat
  BY <1>1, <1>3 DEF Handlers
<1>6. now \in Nat /\ now # None /\ (lastSent # None => lastSent \in Nat)
  BY <1>3, IdentityAssumption DEF IdentityTypeInv, IdentityTypeOK
<1> QED
  BY <1>1, <1>2, <1>4, <1>5, <1>6, LenProperties

\* Steps that rewrite rows without sending: a code is given up only on purpose.
LEMMA RewriteKeepsDelivery ==
    ASSUME IdentityTypeInv, DeliveryInv, UNCHANGED <<lastSent, request, asked>>,
           DOMAIN codes' = DOMAIN codes, Len(codes') = Len(codes),
           \A i \in DOMAIN codes :
               /\ codes'[i].purpose = codes[i].purpose /\ codes'[i].since = codes[i].since
               /\ codes'[i].mail = codes[i].mail
               /\ codes[i].used => codes'[i].used
               /\ codes[i].consumed => codes'[i].consumed
               /\ codes'[i].consumed => codes[i].consumed \/ codes'[i].used
    PROVE  DeliveryInv'
<1>1. CodesAreReserved'
  BY DEF DeliveryInv, CodesAreReserved
<1>2. HandlerIsNewest'
  BY DEF DeliveryInv, HandlerIsNewest
<1>3. DeliveredIsNewest'
  BY DEF DeliveryInv, DeliveredIsNewest, IsCurrent
<1> QED
  BY <1>1, <1>2, <1>3 DEF DeliveryInv

\* Using, trying or giving up codes.
LEMMA CodeStepKeepsDelivery ==
    ASSUME IdentityTypeInv, DeliveryInv,
           \/ VerifyUser \/ ResetPassword \/ \E p \in Purposes : WrongCode(p)
           \/ ChangeUserPassword \/ CleanupIdentity
    PROVE  DeliveryInv'
<1>t. /\ codes \in Seq(Rows) /\ \A i \in DOMAIN codes : codes[i] \in Rows
  BY RowFacts
<1>c. \A p \in Purposes, i \in DOMAIN codes :
          /\ Consume(p)[i].purpose = codes[i].purpose /\ Consume(p)[i].since = codes[i].since
          /\ Consume(p)[i].mail = codes[i].mail
          /\ codes[i].used => Consume(p)[i].used
          /\ codes[i].consumed => Consume(p)[i].consumed
          /\ Consume(p)[i].consumed => codes[i].consumed \/ Consume(p)[i].used
  BY <1>t DEF Consume, Rows
<1>1. CASE VerifyUser
  <2>1. DOMAIN codes' = DOMAIN codes /\ Len(codes') = Len(codes)
    BY <1>1, <1>t, CodeUseKeepsRows DEF VerifyUser, Consume, Purposes
  <2> QED
    BY <1>1, <1>c, <2>1, RewriteKeepsDelivery DEF VerifyUser, Purposes
<1>2. CASE ResetPassword
  <2>1. DOMAIN codes' = DOMAIN codes /\ Len(codes') = Len(codes)
    BY <1>2, <1>t, CodeUseKeepsRows DEF ResetPassword, Consume, Purposes
  <2> QED
    BY <1>2, <1>c, <2>1, RewriteKeepsDelivery DEF ResetPassword, Purposes
<1>3. CASE \E p \in Purposes : WrongCode(p)
  <2> PICK p \in Purposes : WrongCode(p)
    BY <1>3
  <2>1. DOMAIN codes' = DOMAIN codes /\ Len(codes') = Len(codes)
    BY <1>t, CodeUseKeepsRows DEF WrongCode
  <2>2. \A i \in DOMAIN codes :
            /\ codes'[i].purpose = codes[i].purpose /\ codes'[i].since = codes[i].since
            /\ codes'[i].mail = codes[i].mail /\ codes'[i].used = codes[i].used
            /\ codes'[i].consumed = codes[i].consumed
    BY <1>t DEF WrongCode, Rows
  <2>3. UNCHANGED <<lastSent, request, asked>>
    BY DEF WrongCode
  <2> QED
    BY <2>1, <2>2, <2>3, RewriteKeepsDelivery
<1>4. CASE ChangeUserPassword
  <2>1. codes' = [i \in DOMAIN codes |-> [codes[i] EXCEPT !.consumed = TRUE, !.used = @ \/ ~codes[i].consumed]]
    BY <1>4 DEF ChangeUserPassword
  <2>2. \A i \in DOMAIN codes :
            /\ codes'[i].purpose = codes[i].purpose /\ codes'[i].since = codes[i].since
            /\ codes'[i].mail = codes[i].mail
            /\ codes'[i].used = (codes[i].used \/ ~codes[i].consumed)
            /\ codes'[i].consumed
    BY <1>t, <2>1 DEF Rows
  <2>3. DOMAIN codes' = DOMAIN codes /\ Len(codes') = Len(codes)
    <3>1. codes' \in [DOMAIN codes -> Rows]
      BY <1>t, <2>1 DEF Rows
    <3> QED
      BY <1>t, <3>1, RewrittenTable
  <2>4. UNCHANGED <<lastSent, request, asked>>
    BY <1>4 DEF ChangeUserPassword
  <2> QED
    BY <2>2, <2>3, <2>4, RewriteKeepsDelivery
<1>5. CASE CleanupIdentity
  <2>1. codes' = [i \in DOMAIN codes |-> [codes[i] EXCEPT !.consumed = TRUE, !.used = TRUE]]
    BY <1>5 DEF CleanupIdentity
  <2>2. \A i \in DOMAIN codes :
            /\ codes'[i].purpose = codes[i].purpose /\ codes'[i].since = codes[i].since
            /\ codes'[i].mail = codes[i].mail /\ codes'[i].used /\ codes'[i].consumed
    BY <1>t, <2>1 DEF Rows
  <2>3. DOMAIN codes' = DOMAIN codes /\ Len(codes') = Len(codes)
    <3>1. codes' \in [DOMAIN codes -> Rows]
      BY <1>t, <2>1 DEF Rows
    <3> QED
      BY <1>t, <3>1, RewrittenTable
  <2>4. UNCHANGED <<lastSent, request, asked>>
    BY <1>5 DEF CleanupIdentity
  <2> QED
    BY <2>2, <2>3, <2>4, RewriteKeepsDelivery
<1> QED
  BY <1>1, <1>2, <1>3, <1>4, <1>5

\* A new request is newer than every code there is.
LEMMA ReserveKeepsDelivery ==
    ASSUME IdentityTypeInv, DeliveryInv, NEW r \in Requests, NEW p \in Purposes, Reserve(r, p)
    PROVE  DeliveryInv'
<1>1. \A s \in Requests : request[s].pc = "idle"
  BY ReserveFindsIdle
<1>2. \A i \in DOMAIN codes : codes[i].since < now
  BY SMTT(30), RowFacts, IdentityAssumption DEF DeliveryInv, CodesAreReserved, Reserve, Reservable
<1>3. UNCHANGED codes /\ lastSent' = now /\ asked' = [asked EXCEPT ![p] = now] /\ asked'[p] = now
  BY DEF Reserve, IdentityTypeInv, IdentityTypeOK
<1>4. /\ request'[r].pc = "reserved" /\ request'[r].purpose = p /\ request'[r].since = now
      /\ \A s \in Requests \ {r} : request'[s] = request[s]
  BY RowFacts DEF Reserve, NoRequest
<1>5. CodesAreReserved'
  BY <1>2, <1>3, RowFacts DEF CodesAreReserved
<1>6. HandlerIsNewest'
  BY <1>1, <1>2, <1>3, <1>4 DEF HandlerIsNewest
<1>7. DeliveredIsNewest'
  <2> SUFFICES ASSUME NEW i \in DOMAIN codes, codes[i].mail = "delivered", ~codes[i].used,
                      codes[i].since = asked'[codes[i].purpose]
               PROVE  IsCurrent(i)
    BY <1>3 DEF DeliveredIsNewest, IsCurrent
  <2>1. codes[i].since < now /\ codes[i].since \in Nat /\ now \in Nat /\ codes[i].purpose \in Purposes
    BY <1>2, RowFacts
  <2>2. codes[i].purpose # p
    BY <1>3, <2>1
  <2>3. asked \in [Purposes -> Times \cup {None}]
    BY DEF IdentityTypeInv, IdentityTypeOK
  <2>4. asked'[codes[i].purpose] = asked[codes[i].purpose]
    BY <1>3, <2>1, <2>2, <2>3
  <2> QED
    BY <2>4 DEF DeliveryInv, DeliveredIsNewest
<1> QED
  BY <1>5, <1>6, <1>7 DEF DeliveryInv

\* A step of the handler r, the only one under way: it ends or inserts its code.
LEMMA SendingKeepsDelivery ==
    ASSUME IdentityTypeInv, DeliveryInv, NEW r \in Requests, request[r].pc \in {"reserved", "invalidated"},
           UNCHANGED <<lastSent, asked>>,
           NEW rows \in Seq(Rows), Len(rows) = Len(codes),
           \A i \in DOMAIN codes : /\ rows[i].purpose = codes[i].purpose /\ rows[i].since = codes[i].since
                                   /\ rows[i].mail = codes[i].mail /\ rows[i].used = codes[i].used
                                   /\ rows[i] = codes[i] \/ rows[i].purpose = request[r].purpose,
           Sending(r, rows)
    PROVE  DeliveryInv'
<1> DEFINE n == Len(codes)
           row == NewCode(request[r].purpose, request[r].since)
<1>1. n \in Nat /\ DOMAIN codes = 1 .. n /\ DOMAIN rows = 1 .. n
  BY RowFacts, LenProperties
<1>2. /\ row.purpose = request[r].purpose /\ row.since = request[r].since
      /\ row.mail = "sending" /\ row.consumed = FALSE /\ row \in Rows
  <2>1. request[r].purpose \in Purposes /\ request[r].since \in Times /\ now \in Times
    BY RowFacts DEF IdentityTypeInv, IdentityTypeOK, RequestsTakeTurns, Handlers
  <2> QED
    BY <2>1, IdentityAssumption DEF NewCode, Rows
<1>3. /\ DOMAIN codes' = 1 .. n + 1 /\ Len(codes') = n + 1
      /\ codes'[n + 1] = row /\ \A i \in 1 .. n : codes'[i] = rows[i]
  BY <1>1, <1>2, AppendProperties DEF Sending
<1>4. /\ request'[r].pc = "sending" /\ request'[r].code = n + 1
      /\ request'[r].purpose = request[r].purpose /\ request'[r].since = request[r].since
      /\ \A s \in Requests \ {r} : request'[s] = request[s] /\ request[s].pc = "idle"
  BY ZenonT(40), SendingKeepsTypes, RowFacts DEF Handlers
<1>5. /\ \A i \in 1 .. n : codes[i].since < request[r].since
      /\ request[r].since = asked[request[r].purpose]
      /\ request[r].since <= lastSent /\ lastSent # None
  BY <1>1 DEF DeliveryInv, HandlerIsNewest, IdentityTypeInv, RequestsTakeTurns
<1> HIDE DEF n, row
<1>6. CodesAreReserved'
  BY <1>1, <1>2, <1>3, <1>5 DEF DeliveryInv, CodesAreReserved
<1>7. HandlerIsNewest'
  BY <1>1, <1>2, <1>3, <1>4, <1>5 DEF HandlerIsNewest
<1>8. DeliveredIsNewest'
  <2> SUFFICES ASSUME NEW i \in 1 .. n + 1, codes'[i].mail = "delivered", ~codes'[i].used,
                      codes'[i].since = asked[codes'[i].purpose]
               PROVE  IsCurrent(i)'
    BY <1>3 DEF DeliveredIsNewest
  <2>1. i \in 1 .. n
    BY <1>1, <1>2, <1>3
  <2>2. codes[i].since \in Nat /\ request[r].since \in Nat
    BY <1>1, <2>1, RowFacts
  <2>3. codes[i].purpose # request[r].purpose
    BY <1>1, <1>3, <1>5, <2>1, <2>2
  <2>4. codes'[i] = codes[i] /\ \A j \in 1 .. n : codes[j].purpose = codes[i].purpose => codes'[j] = codes[j]
    BY <1>1, <1>3, <2>1, <2>3
  <2>5. \A j \in 1 .. n : codes'[j].purpose = codes[j].purpose
    BY <1>1, <1>3
  <2>6. IsCurrent(i)
    BY <1>1, <2>1, <2>4 DEF DeliveryInv, DeliveredIsNewest
  <2> QED
    BY <1>1, <1>2, <1>3, <2>1, <2>3, <2>4, <2>5, <2>6 DEF IsCurrent
<1> QED
  BY <1>6, <1>7, <1>8 DEF DeliveryInv

LEMMA InvalidatedRows ==
    ASSUME NEW rows \in Seq(Rows), NEW p
    PROVE  /\ DOMAIN Invalidate(rows, p) = DOMAIN rows
           /\ \A i \in DOMAIN rows :
                  /\ Invalidate(rows, p)[i].purpose = rows[i].purpose
                  /\ Invalidate(rows, p)[i].since = rows[i].since
                  /\ Invalidate(rows, p)[i].mail = rows[i].mail
                  /\ Invalidate(rows, p)[i].used = rows[i].used
                  /\ Invalidate(rows, p)[i] = rows[i] \/ rows[i].purpose = p
<1>1. \A i \in DOMAIN rows : rows[i] \in Rows
  BY ElementOfSeq
<1> QED
  BY <1>1 DEF Invalidate, Rows

\* A row of the newest request of its purpose is not touched by the handler of another
\* request: that handler would be the newest of the purpose itself.
LEMMA OthersAreOlder ==
    ASSUME IdentityTypeInv, DeliveryInv, NEW r \in Requests, request[r].pc # "idle",
           NEW i \in DOMAIN codes, codes[i].since = asked[codes[i].purpose],
           request[r].pc = "sending" => i # request[r].code
    PROVE  codes[i].purpose # request[r].purpose
<1>1. request[r].pc \in {"reserved", "invalidated", "sending"}
  BY RowFacts DEF Handlers
<1>2. codes[i].since < request[r].since /\ request[r].since = asked[request[r].purpose]
  BY <1>1 DEF DeliveryInv, HandlerIsNewest
<1> QED
  BY <1>2, RowFacts

LEMMA EndKeepsHandlers ==
    ASSUME IdentityTypeInv, DeliveryInv, NEW r \in Requests, request[r].pc # "idle", EndRequest(r),
           lastSent' = lastSent, DOMAIN codes' = DOMAIN codes,
           \A i \in DOMAIN codes : codes'[i].since = codes[i].since
    PROVE  CodesAreReserved' /\ HandlerIsNewest'
<1>1. \A s \in Requests : request'[s].pc = "idle"
  BY IdleHandler, RowFacts DEF EndRequest, IdentityTypeInv, RequestsTakeTurns
<1> QED
  BY <1>1 DEF DeliveryInv, CodesAreReserved, HandlerIsNewest

\* Rows of another purpose than the handler's are as they were.
LEMMA OtherPurposeStays ==
    ASSUME IdentityTypeInv, DeliveryInv, NEW r \in Requests, request[r].pc # "idle",
           asked' = asked, DOMAIN codes' = DOMAIN codes,
           \A i \in DOMAIN codes : /\ codes'[i].purpose = codes[i].purpose
                                   /\ codes'[i] = codes[i] \/ codes[i].purpose = request[r].purpose,
           NEW i \in DOMAIN codes, codes[i].purpose # request[r].purpose,
           codes'[i].mail = "delivered", ~codes'[i].used, codes'[i].since = asked'[codes'[i].purpose]
    PROVE  IsCurrent(i)'
<1>1. codes'[i] = codes[i]
  OBVIOUS
<1>2. IsCurrent(i)
  BY <1>1 DEF DeliveryInv, DeliveredIsNewest
<1>3. \A j \in DOMAIN codes : codes[j].purpose = codes[i].purpose => codes'[j] = codes[j]
  OBVIOUS
<1> QED
  BY <1>1, <1>2, <1>3 DEF IsCurrent

LEMMA RequestKeepsDelivery ==
    ASSUME IdentityTypeInv, DeliveryInv, NEW r \in Requests,
           \/ CreatePendingUser(r) \/ RefreshPendingUser(r)
           \/ InvalidateReset(r) \/ CreatePasswordReset(r) \/ RequestConflicts(r) \/ RequestFails(r)
           \/ MailDelivered(r) \/ MailFails(r)
    PROVE  DeliveryInv'
<1>t. /\ codes \in Seq(Rows) /\ \A i \in DOMAIN codes : codes[i] \in Rows
      /\ DOMAIN codes = 1 .. Len(codes) /\ Len(codes) \in Nat
  BY RowFacts
<1>1. CASE CreatePendingUser(r) \/ CreatePasswordReset(r)
  <2>1. /\ Sending(r, codes) /\ request[r].pc \in {"reserved", "invalidated"}
        /\ UNCHANGED <<lastSent, asked>>
    BY <1>1 DEF CreatePendingUser, CreatePasswordReset
  <2> QED
    BY <2>1, <1>t, SendingKeepsDelivery
<1>2. CASE RefreshPendingUser(r)
  <2> DEFINE rows == Invalidate(codes, "verify")
  <2>1. rows \in Seq(Rows) /\ Len(rows) = Len(codes)
    BY <1>t, InvalidateKeepsRows
  <2>2. \A i \in DOMAIN codes : /\ rows[i].purpose = codes[i].purpose /\ rows[i].since = codes[i].since
                                /\ rows[i].mail = codes[i].mail /\ rows[i].used = codes[i].used
                                /\ rows[i] = codes[i] \/ rows[i].purpose = request[r].purpose
    BY <1>t, <1>2, InvalidatedRows DEF RefreshPendingUser
  <2>3. Sending(r, rows) /\ request[r].pc = "reserved" /\ UNCHANGED <<lastSent, asked>>
    BY <1>2 DEF RefreshPendingUser
  <2> HIDE DEF rows
  <2> QED
    BY <2>1, <2>2, <2>3, SendingKeepsDelivery
<1>3. CASE InvalidateReset(r)
  <2>1. /\ DOMAIN codes' = DOMAIN codes
        /\ \A i \in DOMAIN codes :
               /\ codes'[i].purpose = codes[i].purpose /\ codes'[i].since = codes[i].since
               /\ codes'[i].mail = codes[i].mail /\ codes'[i].used = codes[i].used
               /\ codes'[i] = codes[i] \/ codes[i].purpose = request[r].purpose
    BY <1>3, <1>t, InvalidatedRows DEF InvalidateReset
  <2>2. /\ request[r].pc = "reserved" /\ UNCHANGED <<lastSent, asked>>
        /\ request'[r].pc = "invalidated" /\ request'[r].purpose = request[r].purpose
        /\ request'[r].since = request[r].since
        /\ \A s \in Requests \ {r} : request'[s] = request[s] /\ request[s].pc = "idle"
    BY <1>3, RowFacts DEF InvalidateReset, Handlers, IdentityTypeInv, RequestsTakeTurns
  <2>3. CodesAreReserved' /\ HandlerIsNewest'
    BY <2>1, <2>2 DEF DeliveryInv, CodesAreReserved, HandlerIsNewest
  <2>4. DeliveredIsNewest'
    <3> SUFFICES ASSUME NEW i \in DOMAIN codes, codes'[i].mail = "delivered", ~codes'[i].used,
                        codes'[i].since = asked'[codes'[i].purpose]
                 PROVE  IsCurrent(i)'
      BY <2>1 DEF DeliveredIsNewest
    <3>1. codes[i].purpose # request[r].purpose
      BY <2>1, <2>2, OthersAreOlder
    <3> QED
      BY <2>1, <2>2, <3>1, OtherPurposeStays
  <2> QED
    BY <2>3, <2>4 DEF DeliveryInv
<1>4. CASE RequestConflicts(r) \/ RequestFails(r)
  <2>1. request[r].pc # "idle" /\ EndRequest(r) /\ UNCHANGED <<lastSent, asked, codes>>
    BY <1>4 DEF RequestConflicts, RequestFails
  <2>2. CodesAreReserved' /\ HandlerIsNewest'
    BY <2>1, EndKeepsHandlers
  <2>3. DeliveredIsNewest'
    BY <2>1 DEF DeliveryInv, DeliveredIsNewest, IsCurrent
  <2> QED
    BY <2>2, <2>3 DEF DeliveryInv
<1>o. ASSUME request[r].pc = "sending"
      PROVE  /\ request[r].code \in DOMAIN codes /\ request[r].code = Len(codes)
             /\ codes[request[r].code].purpose = request[r].purpose
             /\ codes[request[r].code].consumed => codes[request[r].code].used
  BY <1>o DEF DeliveryInv, HandlerIsNewest
<1>5. CASE MailDelivered(r)
  <2> DEFINE n == request[r].code
  <2>1. request[r].pc = "sending" /\ EndRequest(r) /\ UNCHANGED <<lastSent, asked>>
    BY <1>5 DEF MailDelivered
  <2>2. /\ DOMAIN codes' = DOMAIN codes
        /\ \A i \in DOMAIN codes :
               /\ codes'[i].purpose = codes[i].purpose /\ codes'[i].since = codes[i].since
               /\ codes'[i].used = codes[i].used /\ codes'[i].consumed = codes[i].consumed
               /\ i # n => codes'[i] = codes[i]
    BY <1>5, <1>t DEF MailDelivered, Rows
  <2>3. CodesAreReserved' /\ HandlerIsNewest'
    BY <2>1, <2>2, EndKeepsHandlers
  <2>4. DeliveredIsNewest'
    <3> SUFFICES ASSUME NEW i \in DOMAIN codes, codes'[i].mail = "delivered", ~codes'[i].used,
                        codes'[i].since = asked'[codes'[i].purpose]
                 PROVE  IsCurrent(i)'
      BY <2>2 DEF DeliveredIsNewest
    <3>1. CASE i = n
      BY <3>1, <1>o, <1>t, <2>1, <2>2 DEF IsCurrent
    <3>2. CASE i # n
      <4>1. codes[i].purpose # request[r].purpose
        BY <2>1, <2>2, <3>2, OthersAreOlder
      <4> QED
        BY <1>o, <2>1, <2>2, <4>1, OtherPurposeStays
    <3> QED
      BY <3>1, <3>2
  <2> QED
    BY <2>3, <2>4 DEF DeliveryInv
<1>6. CASE MailFails(r)
  <2> DEFINE n == request[r].code
  <2>1. request[r].pc = "sending" /\ EndRequest(r) /\ UNCHANGED <<lastSent, asked>>
    BY <1>6 DEF MailFails
  <2>2. /\ Failed(r) \in Seq(Rows) /\ DOMAIN Failed(r) = DOMAIN codes
        /\ \A i \in DOMAIN codes :
               /\ Failed(r)[i].purpose = codes[i].purpose /\ Failed(r)[i].since = codes[i].since
               /\ i # n => Failed(r)[i] = codes[i]
               /\ i = n => Failed(r)[i].mail = "failed"
    <3>1. Failed(r) \in [DOMAIN codes -> Rows]
      BY <1>t DEF Failed, Rows
    <3>2. Failed(r) \in Seq(Rows)
      BY <1>t, <3>1, RewrittenTable
    <3> QED
      BY <1>t, <3>1, <3>2 DEF Failed, Rows
  <2>3. /\ DOMAIN codes' = DOMAIN codes
        /\ \A i \in DOMAIN codes :
               /\ codes'[i].purpose = codes[i].purpose /\ codes'[i].since = codes[i].since
               /\ codes'[i] = codes[i] \/ codes[i].purpose = request[r].purpose
               /\ i = n => codes'[i].mail = "failed"
    <3>1. CASE codes' = Failed(r)
      BY <3>1, <2>1, <2>2, <1>o
    <3>2. CASE codes' = Invalidate(Failed(r), request[r].purpose)
      BY <3>2, <2>1, <2>2, <1>o, InvalidatedRows
    <3> QED
      BY <1>6, <3>1, <3>2 DEF MailFails
  <2>4. CodesAreReserved' /\ HandlerIsNewest'
    BY <2>1, <2>3, EndKeepsHandlers
  <2>5. DeliveredIsNewest'
    <3> SUFFICES ASSUME NEW i \in DOMAIN codes, codes'[i].mail = "delivered", ~codes'[i].used,
                        codes'[i].since = asked'[codes'[i].purpose]
                 PROVE  IsCurrent(i)'
      BY <2>3 DEF DeliveredIsNewest
    <3>1. i # n
      BY <2>3
    <3>2. codes[i].purpose # request[r].purpose
      BY <2>1, <2>3, <3>1, OthersAreOlder
    <3> QED
      BY <2>1, <2>3, <3>2, OtherPurposeStays
  <2> QED
    BY <2>4, <2>5 DEF DeliveryInv
<1> QED
  BY <1>1, <1>2, <1>3, <1>4, <1>5, <1>6

LEMMA NextDeliveryInv == TypeInv /\ DeliveryInv /\ [Next]_vars => DeliveryInv'
<1> SUFFICES ASSUME TypeInv, DeliveryInv, [Next]_vars PROVE DeliveryInv'
  OBVIOUS
<1>t. IdentityTypeInv
  BY DEF TypeInv
<1>1. ASSUME UNCHANGED mailVars PROVE DeliveryInv'
  BY <1>1 DEF mailVars, DeliveryInv, CodesAreReserved, HandlerIsNewest, DeliveredIsNewest, IsCurrent
<1>2. CASE IdentityStarts
  <2>1. CASE LoginCheck \/ ChangeCheck \/ \E i \in DOMAIN sessions : Logout(i)
    BY <2>1, <1>1 DEF LoginCheck, ChangeCheck, Logout
  <2> QED
    BY <1>2, <1>t, <2>1, ReserveKeepsDelivery, CodeStepKeepsDelivery DEF IdentityStarts, Register, Purposes
<1>3. CASE IdentityContinues
  <2>1. CASE CreateUserSession("activated") \/ SessionFails
    BY <2>1, <1>1 DEF CreateUserSession, SessionFails
  <2> QED
    BY <1>3, <1>t, <2>1, RequestKeepsDelivery, CodeStepKeepsDelivery DEF IdentityContinues
<1>4. CASE Tick \/ CreateUserSession("checked") \/ UNCHANGED identityVars
  BY <1>4, <1>1 DEF Tick, CreateUserSession, identityVars, mailVars
<1>5. CASE IdentityRestart
  <2>1. UNCHANGED <<codes, lastSent, asked>> /\ \A r \in Requests : request'[r].pc = "idle"
    BY <1>5, IdleHandler DEF IdentityRestart
  <2> QED
    BY <2>1 DEF DeliveryInv, CodesAreReserved, HandlerIsNewest, DeliveredIsNewest, IsCurrent
<1> QED
  BY StepsSplit, <1>2, <1>3, <1>4, <1>5 DEF IdentitySteps

\* A code that reached the mailbox and was neither used, given up nor superseded is the
\* one VerifyUser or ResetPassword looks at.
THEOREM DeliveredCodesAreCurrent == Spec => []DeliveredCodeIsCurrent
<1>1. Init => DeliveryInv
  BY DEF Init, IdentityInit, DeliveryInv, CodesAreReserved, HandlerIsNewest, DeliveredIsNewest, NoRequest
<1>2. TypeInv /\ DeliveryInv => DeliveredCodeIsCurrent
  <2> SUFFICES ASSUME TypeInv, DeliveryInv, NEW i \in DOMAIN codes, codes[i].mail = "delivered",
                      ~codes[i].used, codes[i].since = asked[codes[i].purpose]
               PROVE  i \in Live(codes[i].purpose) /\ Latest(codes[i].purpose) = i
    BY DEF DeliveredCodeIsCurrent
  <2> DEFINE p == codes[i].purpose
  <2>1. IsCurrent(i) /\ DOMAIN codes \subseteq Nat
    BY RowFacts DEF DeliveryInv, DeliveredIsNewest, TypeInv
  <2>2. i \in Live(p) /\ \A j \in Live(p) : j <= i
    BY <2>1 DEF IsCurrent, Live
  <2>3. \A k \in Live(p) : (\A j \in Live(p) : j <= k) => k = i
    BY <2>1, <2>2 DEF Live
  <2> HIDE DEF p
  <2>4. Latest(p) = i
    BY <2>2, <2>3 DEF Latest
  <2> QED
    BY <2>2, <2>4 DEF p
<1> QED
  BY <1>1, <1>2, NextDeliveryInv, TypeInvInvariant, PTL DEF Spec

===============================================================================
