------------------------------- MODULE Retrieval -------------------------------
(***************************************************************************)
(* The retrieval state machine of the control plane: one published         *)
(* transfer, its retrieval sessions, the download reservations behind its  *)
(* tickets, and the maintenance worker that expires and deletes.           *)
(*                                                                         *)
(* Every action that changes the database is one SQLite write transaction. *)
(* HTTP handlers and the worker run between transactions, so a handler is  *)
(* a sequence of actions that any other actor may interleave with. A       *)
(* handler reads the clock before it gets the write lock: a transaction    *)
(* runs with a timestamp that may be up to MaxDelay ticks old (Stamps).    *)
(*                                                                         *)
(* Tables are functions from identifiers to rows; a row whose status is    *)
(* "none" has not been inserted.                                           *)
(***************************************************************************)
EXTENDS Integers, FiniteSets

CONSTANTS
    Recipients,           \* recipient keys: user id, or address and user agent
    Uploads,              \* the files of the transfer, all of them ready at first
    Sessions,             \* identifiers of retrieval sessions
    Reservations,         \* identifiers of download reservations
    None,                 \* the empty identifier, such as retrieval_session_id ''
    TransferModes,        \* download_limit_mode values a transfer may have
    MaxDownloads,         \* max_downloads of the transfer
    FileLength,           \* length of every upload, in chunks
    ProvisionalLifetime,  \* retrievalSessionProvisionalLifetime
    SessionLifetime,      \* retrievalSessionLifetime
    ReservationLifetime,  \* the 5 minutes of a ticket
    MaxStream,            \* downloadReservationMaxDuration
    TransferLifetime,     \* expires_at of the transfer, created at time 0
    MaxDelay,             \* age of a timestamp when its transaction runs
    MaxTime,              \* bound on the clock
    MaxFaults             \* bound on failed worker steps and restarts

Modes == {"legacy_file", "retrieval_session_v1"}

ASSUME RetrievalAssumption ==
    /\ TransferModes \subseteq Modes
    /\ IsFiniteSet(Sessions) /\ IsFiniteSet(Reservations) /\ IsFiniteSet(Uploads)
    /\ None \notin Sessions \cup Reservations \cup Uploads \cup Recipients
    /\ MaxDownloads \in Nat \ {0}
    /\ FileLength \in Nat \ {0}
    /\ ProvisionalLifetime \in Nat \ {0} /\ SessionLifetime \in Nat
    /\ ProvisionalLifetime <= SessionLifetime
    /\ ReservationLifetime \in Nat \ {0}
    /\ MaxStream \in Nat \ {0}
    /\ TransferLifetime \in Nat \ {0}
    /\ MaxDelay \in Nat /\ MaxTime \in Nat /\ MaxFaults \in Nat

VARIABLES
    now,          \* the wall clock
    mode,         \* download_limit_mode of the transfer
    status,       \* status of the transfer
    downloads,    \* downloads of the transfer
    uploads,      \* status of each upload
    session,      \* table retrieval_sessions
    reservation,  \* tables download_reservations and download_reservation_runtime
    request,      \* the ticket request each recipient has in flight
    tickets,      \* reservations whose download ticket reached a client
    worker,       \* the maintenance worker between two of its steps
    faults        \* worker failures and restarts so far

vars == <<now, mode, status, downloads, uploads, session, reservation, request,
          tickets, worker, faults>>

transferVars == <<mode, status, downloads>>
clientVars == <<request, tickets>>

-----------------------------------------------------------------------------
(* Rows *)

TransferStatus == {"active", "exhausted", "revoked", "expired"}
SessionStatus == {"none", "provisional", "active", "closed", "released"}
ReservationStatus == {"none", "reserved", "consuming", "settled", "released"}
WorkerSteps == {"idle", "streams", "candidates", "deleting"}

EmptySession == [status |-> "none", key |-> None, expires |-> 0, hard |-> 0]
SessionRow ==
    [status: SessionStatus, key: Recipients \cup {None}, expires: Nat, hard: Nat]

\* hard is 0 until a runtime row exists, that is until the download began.
EmptyReservation == [status |-> "none", upload |-> None, session |-> None, key |-> None,
                     expires |-> 0, hard |-> 0, actual |-> 0]
ReservationRow ==
    [status: ReservationStatus, upload: Uploads \cup {None},
     session: Sessions \cup {None}, key: Recipients \cup {None}, expires: Nat, hard: Nat, actual: 0..FileLength]

\* A request is idle, has passed the handler's checks, or has its reservation.
IdleRequest == [phase |-> "idle", upload |-> None, token |-> None,
                reservation |-> None, created |-> FALSE]
RequestRow ==
    [phase: {"idle", "checked", "committed"}, upload: Uploads \cup {None},
     token: Sessions \cup {None}, reservation: Reservations \cup {None},
     created: BOOLEAN]

IdleWorker == [step |-> "idle", now |-> 0, streams |-> {}, list |-> {}]
WorkerState ==
    [step: WorkerSteps, now: Nat,
     streams: SUBSET [id: Reservations, actual: 0..FileLength],
     list: SUBSET Uploads]

TypeOK ==
    /\ now \in Nat
    /\ mode \in Modes
    /\ status \in TransferStatus
    /\ downloads \in Nat
    /\ uploads \in [Uploads -> {"ready", "deleted"}]
    /\ session \in [Sessions -> SessionRow]
    /\ reservation \in [Reservations -> ReservationRow]
    /\ request \in [Recipients -> RequestRow]
    /\ tickets \subseteq Reservations
    /\ worker \in WorkerState
    /\ faults \in Nat

\* The updates of a row: what an INSERT or UPDATE statement leaves in it.
Reserved(u, s, key, expires) ==
    [status |-> "reserved", upload |-> u, session |-> s, key |-> key,
     expires |-> expires, hard |-> 0, actual |-> 0]
Prolonged(row, expires) == [row EXCEPT !.expires = expires]
Released(row) == [row EXCEPT !.status = "released"]
Begun(row, hard) == [row EXCEPT !.status = "consuming", !.expires = hard, !.hard = hard]
Progressed(row, actual) == [row EXCEPT !.actual = actual]
Settled(row, actual) == [row EXCEPT !.status = "settled", !.actual = actual]
SessionAs(row, state, expires) == [row EXCEPT !.status = state, !.expires = expires]
Committed(q, r, created) ==
    [phase |-> "committed", upload |-> q.upload, token |-> q.token,
     reservation |-> r, created |-> created]

\* A send transfer counts retrieval sessions and deletes on exhaustion; a
\* collection counts downloaded files.
Init ==
    /\ now = 0
    /\ mode \in TransferModes
    /\ status = "active"
    /\ downloads = 0
    /\ uploads = [u \in Uploads |-> "ready"]
    /\ session = [s \in Sessions |-> EmptySession]
    /\ reservation = [r \in Reservations |-> EmptyReservation]
    /\ request = [c \in Recipients |-> IdleRequest]
    /\ tickets = {}
    /\ worker = IdleWorker
    /\ faults = 0

-----------------------------------------------------------------------------
(* Shared predicates *)

Stamps == {t \in 0..now : now - t <= MaxDelay}

Least(a, b) == IF a <= b THEN a ELSE b
MinusOne(n) == IF n > 0 THEN n - 1 ELSE 0

RetrievalMode == mode = "retrieval_session_v1"

\* Sessions whose retrieval token has reached a client, with a ticket.
Tokens == {reservation[r].session : r \in tickets} \ {None}

\* Mutant: the status of the session is not looked at.
UsableWhateverStatus(s, t) == t < session[s].expires /\ t < session[s].hard

\* The clause of ValidRetrievalSession and of every query that looks one up.
Usable(s, t) ==
    /\ session[s].status \in {"provisional", "active"}
    /\ t < session[s].expires
    /\ t < session[s].hard

\* Mutant: the index covers unexpired rows only.
LiveRowsUnexpired(s, u) ==
    {r \in Reservations :
        /\ \/ reservation[r].status = "reserved" /\ now < reservation[r].expires
           \/ reservation[r].status = "consuming"
        /\ reservation[r].session = s /\ reservation[r].upload = u}

\* Rows covered by the unique index on live reservations of a session's file.
LiveRows(s, u) ==
    {r \in Reservations : /\ reservation[r].status \in {"reserved", "consuming"}
                          /\ reservation[r].session = s
                          /\ reservation[r].upload = u}

\* Mutant: streams are not looked for.
StreamingIgnored(s) == {}


Streaming(s) ==
    {r \in Reservations : reservation[r].status = "consuming" /\ reservation[r].session = s}

\* Mutant: a settled file counts whatever was delivered of it.
CompletedWhenSettled(rs, s) ==
    {u \in Uploads : \E r \in Reservations :
        rs[r].status = "settled" /\ rs[r].session = s /\ rs[r].upload = u}

\* Files of session s downloaded to their last byte, in the reservations rs.
CompletedFiles(rs, s) ==
    {u \in Uploads : \E r \in Reservations :
        /\ rs[r].status = "settled" /\ rs[r].session = s
        /\ rs[r].upload = u /\ rs[r].actual >= FileLength}

ReadyFiles == {u \in Uploads : uploads[u] = "ready"}

\* Mutant: a returned slot leaves the status alone.
NotReopened(t) == status

\* The status of an exhausted transfer that gets a slot back at time t.
ReopenedStatus(t) ==
    IF status = "exhausted" /\ t < TransferLifetime THEN "active" ELSE status

-----------------------------------------------------------------------------
(* createDownloadTicket: check, reserve, then answer or abort *)

\* The handler's reads: the transfer is open, the file is ready, and the
\* presented token is kept only if it names a usable session.
CheckTicketRequest(c, u, s) ==
    /\ request[c].phase = "idle"
    /\ s \in Tokens \cup {None}
    /\ LET valid == s # None /\ Usable(s, now)
       IN /\ now < TransferLifetime
          /\ \/ status = "active"
             \/ status = "exhausted" /\ RetrievalMode /\ valid
          /\ uploads[u] = "ready"
          /\ request' = [request EXCEPT ![c] =
                [phase |-> "checked", upload |-> u,
                 token |-> IF valid /\ RetrievalMode THEN s ELSE None,
                 reservation |-> None, created |-> FALSE]]
    /\ UNCHANGED <<now, transferVars, uploads, session, reservation, tickets,
                   worker, faults>>

\* Keep the live reserved row of (s, u) and move its expiry, or insert a row.
\* A row being consumed, or an expired row the worker has not released yet,
\* still occupies the unique index: the transaction then fails.
ReserveRow(c, s, u, t, expires, created) ==
    \/ \E r \in LiveRows(s, u) :
        /\ reservation[r].status = "reserved" /\ t < reservation[r].expires
        /\ reservation' = [reservation EXCEPT ![r] = Prolonged(@, expires)]
        /\ request' = [request EXCEPT ![c] = Committed(request[c], r, created)]
    \/ \E r \in Reservations :
        /\ LiveRows(s, u) = {}
        /\ reservation[r].status = "none"
        /\ reservation' = [reservation EXCEPT ![r] = Reserved(u, s, None, expires)]
        /\ request' = [request EXCEPT ![c] = Committed(request[c], r, created)]

Reusable(c, t) ==
    {s \in Sessions : session[s].status = "provisional" /\ session[s].key = c /\ Usable(s, t)}

\* CreateRetrievalDownloadReservation in a session that exists: the one the
\* token names or, without a token, the recipient's provisional session.
ReserveInSession(c) ==
    LET q == request[c] IN
    /\ q.phase = "checked" /\ RetrievalMode
    /\ \E t \in Stamps :
        /\ t < TransferLifetime /\ status \in {"active", "exhausted"}
        /\ uploads[q.upload] = "ready"
        /\ \E s \in IF q.token # None THEN {q.token} ELSE Reusable(c, t) :
            /\ Usable(s, t)
            /\ ReserveRow(c, s, q.upload, t,
                          Least(t + ReservationLifetime, session[s].expires), FALSE)
    /\ UNCHANGED <<now, transferVars, uploads, session, tickets, worker, faults>>

\* CreateRetrievalDownloadReservation in a new session, which takes a slot.
ReserveInNewSession(c) ==
    LET q == request[c] IN
    /\ q.phase = "checked" /\ RetrievalMode /\ q.token = None
    /\ \E t \in Stamps :
        /\ Reusable(c, t) = {}
        /\ t < TransferLifetime /\ status = "active" /\ downloads < MaxDownloads
        /\ uploads[q.upload] = "ready"
        /\ downloads' = downloads + 1
        /\ status' = IF downloads + 1 >= MaxDownloads THEN "exhausted" ELSE status
        /\ \E s \in Sessions :
            /\ session[s].status = "none"
            /\ session' = [session EXCEPT ![s] =
                  [status |-> "provisional", key |-> c, expires |-> t + ProvisionalLifetime,
                   hard |-> t + SessionLifetime]]
            /\ ReserveRow(c, s, q.upload, t,
                          Least(t + ReservationLifetime, t + ProvisionalLifetime), TRUE)
    /\ UNCHANGED <<now, mode, uploads, tickets, worker, faults>>

\* CreateDownloadReservationForRecipient: a legacy transfer keeps one reserved
\* row per recipient and file, and releases an expired one before inserting.
ReserveLegacy(c) ==
    LET q == request[c]
        mine == {r \in Reservations : /\ reservation[r].status = "reserved"
                                      /\ reservation[r].upload = q.upload
                                      /\ reservation[r].key = c}
        Commit(r, rs) == /\ reservation' = rs
                         /\ request' = [request EXCEPT ![c] = Committed(q, r, FALSE)]
    IN
    /\ q.phase = "checked" /\ ~RetrievalMode
    /\ \E t \in Stamps :
        \/ \E r \in mine :
            /\ t < reservation[r].expires
            /\ Commit(r, [reservation EXCEPT ![r] = Prolonged(@, t + ReservationLifetime)])
        \/ \E r \in Reservations :
            /\ \A m \in mine : reservation[m].expires <= t
            /\ reservation[r].status = "none"
            /\ Commit(r, [m \in Reservations |->
                  IF m = r
                  THEN Reserved(q.upload, None, c, t + ReservationLifetime)
                  ELSE IF m \in mine THEN Released(reservation[m])
                  ELSE reservation[m]])
    /\ UNCHANGED <<now, transferVars, uploads, session, tickets, worker, faults>>

\* The request ends with nothing changed and no ticket in the client's hands: a
\* reservation that is refused or fails, an answer that is lost, an abort that
\* fails because the request's context is gone.
DropTicketRequest(c) ==
    /\ request[c].phase # "idle"
    /\ request' = [request EXCEPT ![c] = IdleRequest]
    /\ UNCHANGED <<now, transferVars, uploads, session, reservation, tickets,
                   worker, faults>>

\* The ticket, and for a retrieval transfer the session token, are handed out.
AnswerTicketRequest(c) ==
    LET r == request[c].reservation IN
    /\ request[c].phase = "committed"
    /\ tickets' = tickets \cup {r}
    /\ request' = [request EXCEPT ![c] = IdleRequest]
    /\ UNCHANGED <<now, transferVars, uploads, session, reservation, worker, faults>>

\* AbortRetrievalDownloadReservation: the handler could not sign the ticket or
\* reach the file's storage node, and gives back the session it created.
AbortTicketRequest(c) ==
    LET q == request[c]
        r == q.reservation
        s == reservation[r].session
        rs == IF reservation[r].status = "reserved"
              THEN [reservation EXCEPT ![r] = Released(@)] ELSE reservation
    IN
    /\ q.phase = "committed"
    /\ reservation' = rs
    /\ \E t \in Stamps :
        IF q.created /\ s # None /\ session[s].status = "provisional" /\ Streaming(s) = {}
        THEN /\ session' = [session EXCEPT ![s] = SessionAs(@, "released", t)]
             /\ downloads' = MinusOne(downloads)
             /\ status' = ReopenedStatus(t)
        ELSE UNCHANGED <<session, downloads, status>>
    /\ request' = [request EXCEPT ![c] = IdleRequest]
    /\ UNCHANGED <<now, mode, uploads, tickets, worker, faults>>

-----------------------------------------------------------------------------
(* Begin, progress and settlement of a download *)

\* beginDownloadReservation: a ticket is redeemed once. A legacy download takes
\* its slot here; a retrieval download needs an open session and activates it.
BeginDownload(r) ==
    LET s == reservation[r].session IN
    /\ r \in tickets
    /\ \E t \in Stamps :
        LET allowed ==
                IF s = None
                THEN status = "active" /\ t < TransferLifetime /\ downloads < MaxDownloads
                ELSE Usable(s, t) /\ status \in {"active", "exhausted"} /\ t < TransferLifetime
        IN
        /\ reservation[r].status = "reserved" /\ t < reservation[r].expires
        /\ reservation' =
              [reservation EXCEPT ![r] =
                 IF allowed THEN Begun(@, t + MaxStream) ELSE Released(@)]
        /\ downloads' = IF allowed /\ s = None THEN downloads + 1 ELSE downloads
        /\ session' = IF allowed /\ s # None
                      THEN [session EXCEPT ![s] = SessionAs(@, "active", @.hard)]
                      ELSE session
    /\ UNCHANGED <<now, mode, status, uploads, clientVars, worker, faults>>

\* settleDownloadReservation has an effect on a reserved or consuming row, and
\* touchRetrievalSessionTx makes it fail unless the session is active.
Settleable(r, actual) ==
    LET row == reservation[r] IN
    \/ row.status = "reserved"
    \/ /\ row.status = "consuming"
       /\ actual > 0 /\ row.session # None => session[row.session].status = "active"

\* The final branch of settleDownloadReservation at time t;
\* closeCompletedRetrievalSessionTx closes a session that has every ready file.
SettleFinal(r, actual, t) ==
    LET row == reservation[r]
        s == row.session
        consuming == row.status = "consuming"
        rs == [reservation EXCEPT ![r] = Settled(@, actual)]
        complete ==
            /\ consuming /\ actual > 0 /\ s # None
            /\ ReadyFiles # {}
            /\ Cardinality(CompletedFiles(rs, s)) >= Cardinality(ReadyFiles)
            /\ Streaming(s) = {r}
    IN
    /\ Settleable(r, actual)
    /\ reservation' = rs
    /\ downloads' = IF consuming /\ actual = 0 /\ s = None
                    THEN MinusOne(downloads) ELSE downloads
    /\ session' = IF complete
                  THEN [session EXCEPT ![s] = SessionAs(@, "closed", t)]
                  ELSE session

\* Mutant: the report is stored as it came.
UndecodedBytes(reported) == reported

\* decodeNodeDownloadBytes: a report below the length is progress, 0 and the
\* length are final, and a final partial count is sent as length + 1 + count.
DecodedBytes(reported) ==
    IF reported <= FileLength THEN reported ELSE reported - FileLength - 1

IsFinalReport(reported) == reported = 0 \/ reported >= FileLength

Reports == (0..FileLength) \cup {FileLength + 1 + a : a \in 1..(FileLength - 1)}

\* SettleDownloadReservation: a final report, or a late one, settles; progress
\* within the hard deadline is recorded. A row that is settled or released
\* already is left as it is.
SettleDownload(r, reported) ==
    LET row == reservation[r]
        actual == DecodedBytes(reported)
        final == IsFinalReport(reported) \/ row.status # "consuming"
    IN
    /\ r \in tickets
    /\ \E t \in Stamps :
        \/ final /\ SettleFinal(r, actual, t)
        \/ /\ ~final /\ row.actual <= actual /\ row.hard <= t
           /\ SettleFinal(r, actual, t)
        \/ /\ ~final /\ row.actual <= actual /\ t < row.hard
           /\ row.session # None => session[row.session].status = "active"
           /\ reservation' = [reservation EXCEPT ![r] = Progressed(@, actual)]
           /\ UNCHANGED <<session, downloads>>
    /\ UNCHANGED <<now, mode, status, uploads, clientVars, worker, faults>>

-----------------------------------------------------------------------------
(* The owner *)

\* RevokeTransfer updates an active transfer and no other.
RevokeTransfer ==
    /\ status = "active"
    /\ status' = "revoked"
    /\ UNCHANGED <<now, mode, downloads, uploads, session, reservation, clientVars,
                   worker, faults>>

-----------------------------------------------------------------------------
(* The maintenance worker: one pass uses the clock read at its start *)

\* Mutant: streams past their hard deadline are left alone.
NoOverdueStreams(t) == {}


OverdueStreams(t) ==
    {r \in Reservations : reservation[r].status = "consuming" /\ reservation[r].hard <= t}

\* ReleaseExpiredDownloadReservations up to its loop: expired reserved rows are
\* released and streams past their hard deadline listed. Nothing can reach that
\* list between the release and the query, so they are one step.
ReleaseExpiredReservations ==
    /\ worker.step = "idle"
    /\ reservation' = [r \in Reservations |->
          IF reservation[r].status = "reserved" /\ reservation[r].expires <= now
          THEN Released(reservation[r]) ELSE reservation[r]]
    /\ worker' = [step |-> "streams", now |-> now, list |-> {},
          streams |-> {[id |-> r, actual |-> reservation[r].actual] : r \in OverdueStreams(now)}]
    /\ UNCHANGED <<now, transferVars, uploads, session, clientVars, faults>>

\* settleDownloadReservation with forceFinal; a row settled meanwhile is left.
ForceSettleStream(x) ==
    /\ worker.step = "streams" /\ x \in worker.streams
    /\ \/ SettleFinal(x.id, x.actual, worker.now)
       \/ ~Settleable(x.id, x.actual) /\ UNCHANGED <<reservation, session, downloads>>
    /\ worker' = [worker EXCEPT !.streams = @ \ {x}]
    /\ UNCHANGED <<now, mode, status, uploads, clientVars, faults>>

\* Mutants: any expired session returns its slot; only an active transfer's does.
ReturnsAnySlot(s, t) ==
    session[s].status \in {"provisional", "active"} /\ session[s].expires <= t /\ Streaming(s) = {}
ReturnsSlotIfActive(s, t) ==
    /\ session[s].status = "provisional" /\ session[s].expires <= t
    /\ status = "active"

\* An expired provisional session no stream uses: it returns its slot.
ReturnsSlot(s, t) ==
    session[s].status = "provisional" /\ session[s].expires <= t /\ Streaming(s) = {}

\* Mutant: provisional sessions do not hold up deletion.
QuietWithoutProvisional ==
    /\ \A s \in Sessions : session[s].status # "active"
    /\ \A r \in Reservations : reservation[r].status # "consuming"

\* No session of the transfer is open and no download streams.
Quiet ==
    /\ \A s \in Sessions : session[s].status \notin {"provisional", "active"}
    /\ \A r \in Reservations : reservation[r].status # "consuming"

\* ReleaseExpiredRetrievalSessions: an expired provisional session that no
\* stream uses returns its slot, an expired active one is closed.
ReleaseExpiredSessions ==
    LET t == worker.now
        provisional == {s \in Sessions : /\ session[s].status = "provisional"
                                         /\ session[s].expires <= t}
        unused == {s \in Sessions : ReturnsSlot(s, t)}
        over == {s \in Sessions : /\ session[s].status = "active"
                                  /\ session[s].expires <= t /\ Streaming(s) = {}}
    IN
    /\ worker.step = "streams" /\ worker.streams = {}
    /\ reservation' = [r \in Reservations |->
          IF reservation[r].status = "reserved" /\ reservation[r].session \in provisional
          THEN Released(reservation[r]) ELSE reservation[r]]
    /\ session' = [s \in Sessions |->
          IF s \in unused THEN SessionAs(session[s], "released", t)
          ELSE IF s \in over THEN SessionAs(session[s], "closed", session[s].expires)
          ELSE session[s]]
    /\ downloads' = IF Cardinality(unused) <= downloads
                    THEN downloads - Cardinality(unused) ELSE 0
    /\ status' = IF unused # {} THEN ReopenedStatus(t) ELSE status
    /\ worker' = [worker EXCEPT !.step = "candidates"]
    /\ UNCHANGED <<now, mode, uploads, clientVars, faults>>

\* MaintenanceCandidates: expire the transfer, then list the files to delete. An
\* exhausted transfer's files wait for its sessions and streams.
MaintenanceCandidates ==
    LET status1 == IF status = "active" /\ TransferLifetime <= worker.now
                   THEN "expired" ELSE status
        due == \/ status1 \in {"expired", "revoked"}
               \/ status1 = "exhausted" /\ RetrievalMode /\ Quiet
    IN
    /\ worker.step = "candidates"
    /\ status' = status1
    /\ worker' = [worker EXCEPT !.step = "deleting", !.list = IF due THEN ReadyFiles ELSE {}]
    /\ UNCHANGED <<now, mode, downloads, uploads, session, reservation, clientVars, faults>>

\* Remove a listed file from its storage and mark it deleted. The storage may refuse,
\* as a node does while it has a session of the file: FailCleanupStep.
DeleteCandidate(u) ==
    /\ worker.step = "deleting" /\ u \in worker.list
    /\ uploads' = [uploads EXCEPT ![u] = "deleted"]
    /\ worker' = [worker EXCEPT !.list = @ \ {u}]
    /\ UNCHANGED <<now, transferVars, session, reservation, clientVars, faults>>

FinishCleanup ==
    /\ worker.step = "deleting" /\ worker.list = {}
    /\ worker' = IdleWorker
    /\ UNCHANGED <<now, transferVars, uploads, session, reservation, clientVars, faults>>

\* A failed worker call is logged. The pass goes on with the next call, except
\* that it ends when the candidates cannot be read.
FailCleanupStep ==
    /\ faults < MaxFaults
    /\ \/ /\ worker.step = "idle"
          /\ worker' = [step |-> "streams", now |-> now, list |-> {}, streams |-> {}]
       \/ /\ worker.step = "streams" /\ worker.streams # {}
          /\ worker' = [worker EXCEPT !.streams = {}]
       \/ /\ worker.step = "streams" /\ worker.streams = {}
          /\ worker' = [worker EXCEPT !.step = "candidates"]
       \/ /\ worker.step = "candidates"
          /\ worker' = IdleWorker
       \/ /\ worker.step = "deleting"
          /\ \E u \in worker.list : worker' = [worker EXCEPT !.list = @ \ {u}]
    /\ faults' = faults + 1
    /\ UNCHANGED <<now, transferVars, uploads, session, reservation, clientVars>>

\* The control plane stops and starts again: in-flight handlers and the current
\* cleanup pass are lost, the database is not.
Restart ==
    /\ faults < MaxFaults
    /\ request' = [c \in Recipients |-> IdleRequest]
    /\ worker' = IdleWorker
    /\ faults' = faults + 1
    /\ UNCHANGED <<now, transferVars, uploads, session, reservation, tickets>>

-----------------------------------------------------------------------------
(* Specification *)

Tick ==
    /\ now < MaxTime
    /\ now' = now + 1
    /\ UNCHANGED <<transferVars, uploads, session, reservation, clientVars, worker, faults>>

TicketStep(c) ==
    \/ \E u \in Uploads, s \in Sessions \cup {None} : CheckTicketRequest(c, u, s)
    \/ ReserveInSession(c)
    \/ ReserveInNewSession(c)
    \/ ReserveLegacy(c)
    \/ DropTicketRequest(c)
    \/ AnswerTicketRequest(c)
    \/ AbortTicketRequest(c)

DownloadStep(r) ==
    \/ BeginDownload(r)
    \/ \E reported \in Reports : SettleDownload(r, reported)

CleanupStep ==
    \/ ReleaseExpiredReservations
    \/ \E x \in worker.streams : ForceSettleStream(x)
    \/ ReleaseExpiredSessions
    \/ MaintenanceCandidates
    \/ \E u \in worker.list : DeleteCandidate(u)
    \/ FinishCleanup

Next ==
    \/ Tick
    \/ \E c \in Recipients : TicketStep(c)
    \/ \E r \in Reservations : DownloadStep(r)
    \/ RevokeTransfer
    \/ CleanupStep
    \/ FailCleanupStep
    \/ Restart

Spec == Init /\ [][Next]_vars

\* Time passes, and the worker's ticker runs a pass every minute for as long as
\* the process is up. Nothing is assumed of recipients or of the owner.
FairSpec == Spec /\ WF_vars(Tick) /\ WF_vars(CleanupStep)

-----------------------------------------------------------------------------
(* Properties *)

HeldSessions == {s \in Sessions : session[s].status \notin {"none", "released"}}

CountedDownloads ==
    {r \in Reservations :
        /\ reservation[r].hard > 0
        /\ \/ reservation[r].status = "consuming"
           \/ reservation[r].status = "settled" /\ reservation[r].actual > 0}

\* The counter that admits new retrievals equals what it counts, whatever order
\* tickets, aborts, settlements and expiries take: for a retrieval transfer the
\* sessions that were not released, for a legacy one the downloads that began
\* and delivered bytes or still stream. It never passes max_downloads.
SlotAccounting ==
    /\ downloads <= MaxDownloads
    /\ downloads = Cardinality(IF RetrievalMode THEN HeldSessions ELSE CountedDownloads)

\* The status of a retrieval transfer agrees with its counter: an active one has
\* a slot left, and an exhausted one that has not expired has none, so that
\* slots returned by aborts and expired sessions always reopen the transfer.
StatusTracksSlots ==
    RetrievalMode =>
        /\ status = "active" => downloads < MaxDownloads
        /\ status = "exhausted" /\ now < TransferLifetime => downloads = MaxDownloads

\* A download in progress keeps its session active: nothing closes or releases
\* the session under it, so touchRetrievalSessionTx never refuses its progress
\* or its settlement.
StreamKeepsSession ==
    \A r \in Reservations :
        reservation[r].status = "consuming" /\ reservation[r].session # None
            => session[reservation[r].session].status = "active"

\* A session never downloads the same file twice at the same time.
NoConcurrentFileDownload ==
    \A r1, r2 \in Reservations :
        /\ reservation[r1].status = "consuming" /\ reservation[r2].status = "consuming"
        /\ reservation[r1].session = reservation[r2].session
        /\ reservation[r1].session # None
        /\ reservation[r1].upload = reservation[r2].upload
        => r1 = r2

\* Deleting on exhaustion waits for retrievals: at the moment a file of an
\* exhausted transfer is deleted, and not only when the worker listed it, no
\* session is open and no download streams.
ExhaustedDeletionIsQuiet ==
    [][\A u \in Uploads :
         uploads[u] = "ready" /\ uploads'[u] = "deleted" /\ status = "exhausted"
         => Quiet]_vars

\* Only a session in which no download ever began gives its slot back.
OnlyUnusedSlotsReturn ==
    [][\A s \in Sessions :
         session[s].status # "released" /\ session'[s].status = "released"
         => \A r \in Reservations :
                reservation[r].session = s => reservation[r].hard = 0]_vars

\* A session of an open transfer ends before its window only when every ready
\* file has been downloaded in it to the last byte.
EarlyCloseIsComplete ==
    [][\A s \in Sessions :
         /\ session[s].status = "active" /\ session'[s].status = "closed"
         /\ session'[s].expires < session'[s].hard
         /\ status \in {"active", "exhausted"}
         => \A u \in ReadyFiles : \E r \in Reservations :
                /\ reservation'[r].session = s /\ reservation'[r].upload = u
                /\ reservation'[r].status = "settled" /\ reservation'[r].actual = FileLength]_vars

\* Every file is eventually deleted once the transfer has expired, whatever state its
\* sessions and downloads were in here, if the storage refuses a removal only finitely
\* often: a node refuses while it has a session row of the file.
ExpiredFilesAreDeleted ==
    now >= TransferLifetime ~> \A u \in Uploads : uploads[u] = "deleted"

\* A provisional session never lasts: it is used, or its slot is returned.
ProvisionalEnds ==
    \A s \in Sessions :
        session[s].status = "provisional" ~> session[s].status # "provisional"

\* What the product rules say of the 30-minute window: while a session is open
\* a ticket can be issued for any ready file it is not downloading, that is, no
\* leftover row blocks the insertion.
WindowAdmitsTickets ==
    \A s \in Sessions, u \in Uploads :
        Usable(s, now) /\ uploads[u] = "ready"
        => \A r \in LiveRows(s, u) :
              reservation[r].status = "consuming" \/ now < reservation[r].expires

===============================================================================
