---------------------------- MODULE RetrievalProofs ----------------------------
(***************************************************************************)
(* Proofs about Retrieval: typing, the accounting of download slots, the   *)
(* protection of streams and of deletion on exhaustion.                    *)
(***************************************************************************)
EXTENDS Retrieval, FiniteSetTheorems, TLAPS

-----------------------------------------------------------------------------
(* Typing *)

\* A request past its transaction holds a reservation of the table.
RequestsOK ==
    \A c \in Recipients :
        /\ request[c].phase # "idle" => request[c].upload \in Uploads
        /\ request[c].phase = "committed" => request[c].reservation \in Reservations

TypeInv == TypeOK /\ RequestsOK

LEMMA InitTypeInv == Init => TypeInv
  BY RetrievalAssumption
  DEF Init, TypeInv, TypeOK, RequestsOK, Modes, TransferStatus, SessionRow, SessionStatus,
      ReservationRow, ReservationStatus, EmptyReservation, IdleRequest, RequestRow,
      WorkerState, WorkerSteps, IdleWorker, EmptySession

\* A decoded report is a byte count of the file.
LEMMA DecodedBytesType ==
  ASSUME NEW reported \in Reports
  PROVE  DecodedBytes(reported) \in 0..FileLength
  BY RetrievalAssumption DEF Reports, DecodedBytes

\* The row updates map rows to rows.
LEMMA ReservationRowUpdates ==
  ASSUME NEW row \in ReservationRow
  PROVE  /\ \A e \in Nat : Prolonged(row, e) \in ReservationRow
         /\ Released(row) \in ReservationRow
         /\ \A h \in Nat : Begun(row, h) \in ReservationRow
         /\ \A a \in 0..FileLength : Progressed(row, a) \in ReservationRow
         /\ \A a \in 0..FileLength : Settled(row, a) \in ReservationRow
  BY DEF Prolonged, Released, Begun, Progressed, Settled, ReservationRow, ReservationStatus

LEMMA SessionRowUpdates ==
  ASSUME NEW row \in SessionRow, NEW state \in SessionStatus, NEW expires \in Nat
  PROVE  SessionAs(row, state, expires) \in SessionRow
  BY DEF SessionAs, SessionRow

LEMMA ReservedType ==
  ASSUME NEW u \in Uploads \cup {None}, NEW s \in Sessions \cup {None},
         NEW key \in Recipients \cup {None}, NEW expires \in Nat
  PROVE  Reserved(u, s, key, expires) \in ReservationRow
  BY RetrievalAssumption DEF Reserved, ReservationRow, ReservationStatus

LEMMA CommittedType ==
  ASSUME NEW q \in RequestRow, NEW r \in Reservations, NEW created \in BOOLEAN
  PROVE  Committed(q, r, created) \in RequestRow
  BY DEF Committed, RequestRow

\* The final branch of a settlement keeps its tables well typed.
LEMMA SettleFinalType ==
  ASSUME TypeOK, NEW r \in Reservations, NEW actual \in 0..FileLength, NEW t \in Nat,
         SettleFinal(r, actual, t)
  PROVE  /\ session' \in [Sessions -> SessionRow]
         /\ reservation' \in [Reservations -> ReservationRow]
         /\ downloads' \in Nat
  <1>1. reservation' \in [Reservations -> ReservationRow]
    BY ReservationRowUpdates DEF SettleFinal, TypeOK
  <1>2. session' \in [Sessions -> SessionRow]
    <2>1. \A s \in Sessions : SessionAs(session[s], "closed", t) \in SessionRow
      BY SessionRowUpdates DEF TypeOK, SessionStatus
    <2>2. QED BY <2>1 DEF SettleFinal, TypeOK
  <1>3. downloads' \in Nat
    BY DEF SettleFinal, TypeOK, MinusOne
  <1>4. QED BY <1>1, <1>2, <1>3

\* Inserting or prolonging a reservation row keeps both tables well typed.
LEMMA ReserveRowType ==
  ASSUME TypeInv, NEW c \in Recipients, NEW s \in Sessions, NEW u \in Uploads, NEW t \in Nat,
         NEW expires \in Nat, NEW created \in BOOLEAN,
         request[c].phase = "checked",
         ReserveRow(c, s, u, t, expires, created)
  PROVE  /\ reservation' \in [Reservations -> ReservationRow]
         /\ request' \in [Recipients -> RequestRow]
         /\ RequestsOK'
  <1>1. PICK r \in Reservations :
          /\ \/ reservation' = [reservation EXCEPT ![r] = Prolonged(@, expires)]
             \/ reservation' = [reservation EXCEPT ![r] = Reserved(u, s, None, expires)]
          /\ request' = [request EXCEPT ![c] = Committed(request[c], r, created)]
    BY DEF ReserveRow, LiveRows
  <1>2. reservation' \in [Reservations -> ReservationRow]
    <2>1. reservation[r] \in ReservationRow
      BY DEF TypeInv, TypeOK
    <2>2. Prolonged(reservation[r], expires) \in ReservationRow
      BY <2>1, ReservationRowUpdates
    <2>3. Reserved(u, s, None, expires) \in ReservationRow
      BY ReservedType
    <2>4. QED BY <1>1, <2>2, <2>3 DEF TypeInv, TypeOK
  <1>3. request' \in [Recipients -> RequestRow]
    BY <1>1, CommittedType DEF TypeInv, TypeOK
  <1>4. RequestsOK'
    BY <1>1 DEF TypeInv, TypeOK, RequestsOK, Committed
  <1>5. QED BY <1>2, <1>3, <1>4

\* Every step keeps the state well typed.
LEMMA NextTypeInv == TypeInv /\ [Next]_vars => TypeInv'
  <1> SUFFICES ASSUME TypeInv, [Next]_vars PROVE TypeInv'
    OBVIOUS
  <1> USE DEF transferVars, clientVars, TypeInv
  <1>0. Stamps \subseteq Nat
    BY DEF Stamps
  <1>1. CASE Tick
    BY <1>1 DEF Tick, TypeOK, RequestsOK
  <1>2. ASSUME NEW c \in Recipients, TicketStep(c) PROVE TypeInv'
    <2>1. ASSUME NEW u \in Uploads, NEW s \in Sessions \cup {None}, CheckTicketRequest(c, u, s)
          PROVE  TypeInv'
      BY <2>1 DEF CheckTicketRequest, TypeOK, RequestRow, RequestsOK
    <2>2. CASE ReserveInSession(c)
      <3>1. PICK t \in Stamps, s \in Sessions :
              /\ request[c].phase = "checked"
              /\ ReserveRow(c, s, request[c].upload, t,
                            Least(t + ReservationLifetime, session[s].expires), FALSE)
        BY <2>2 DEF ReserveInSession, Reusable, TypeOK, RequestRow
      <3>2. request[c].upload \in Uploads
        BY <3>1 DEF RequestsOK
      <3>3. Least(t + ReservationLifetime, session[s].expires) \in Nat
        BY <1>0, RetrievalAssumption DEF Least, TypeOK, SessionRow
      <3>4. QED
        BY <2>2, <3>1, <3>2, <3>3, <1>0, ReserveRowType DEF ReserveInSession, TypeOK
    <2>3. CASE ReserveInNewSession(c)
      <3>1. PICK t \in Stamps, s \in Sessions :
              /\ request[c].phase = "checked"
              /\ session' = [session EXCEPT ![s] =
                    [status |-> "provisional", key |-> c, expires |-> t + ProvisionalLifetime,
                     hard |-> t + SessionLifetime]]
              /\ ReserveRow(c, s, request[c].upload, t,
                            Least(t + ReservationLifetime, t + ProvisionalLifetime), TRUE)
        BY <2>3 DEF ReserveInNewSession
      <3>2. request[c].upload \in Uploads
        BY <3>1 DEF RequestsOK
      <3>3. Least(t + ReservationLifetime, t + ProvisionalLifetime) \in Nat
        BY <1>0, RetrievalAssumption DEF Least
      <3>4. session' \in [Sessions -> SessionRow]
        BY <3>1, <1>0, RetrievalAssumption DEF TypeOK, SessionRow, SessionStatus
      <3>5. downloads' \in Nat /\ status' \in TransferStatus
        BY <2>3 DEF ReserveInNewSession, TypeOK, TransferStatus
      <3>6. QED
        BY <2>3, <3>1, <3>2, <3>3, <3>4, <3>5, <1>0, ReserveRowType
        DEF ReserveInNewSession, TypeOK
    <2>4. CASE ReserveLegacy(c)
      <3>1. PICK t \in Stamps, r \in Reservations :
              /\ request[c].phase = "checked"
              /\ request' = [request EXCEPT ![c] = Committed(request[c], r, FALSE)]
              /\ \/ reservation' = [reservation EXCEPT
                                      ![r] = Prolonged(@, t + ReservationLifetime)]
                 \/ \E mine \in SUBSET Reservations :
                      reservation' = [m \in Reservations |->
                        IF m = r
                        THEN Reserved(request[c].upload, None, c, t + ReservationLifetime)
                        ELSE IF m \in mine THEN Released(reservation[m])
                        ELSE reservation[m]]
        BY ZenonT(40), <2>4 DEF ReserveLegacy
      <3>2. t + ReservationLifetime \in Nat /\ request[c].upload \in Uploads
        BY <3>1, <1>0, RetrievalAssumption DEF RequestsOK
      <3>3. reservation' \in [Reservations -> ReservationRow]
        <4>1. \A m \in Reservations : /\ reservation[m] \in ReservationRow
                                      /\ Released(reservation[m]) \in ReservationRow
          BY ReservationRowUpdates DEF TypeOK
        <4>2. Prolonged(reservation[r], t + ReservationLifetime) \in ReservationRow
          BY <3>2, <4>1, ReservationRowUpdates
        <4>3. Reserved(request[c].upload, None, c, t + ReservationLifetime) \in ReservationRow
          BY <3>2, ReservedType
        <4>4. QED BY <3>1, <4>1, <4>2, <4>3 DEF TypeOK
      <3>4. request' \in [Recipients -> RequestRow] /\ RequestsOK'
        BY <3>1, <3>2, CommittedType DEF TypeOK, RequestsOK, Committed
      <3>5. QED BY <2>4, <3>3, <3>4 DEF ReserveLegacy, TypeOK
    <2>5. CASE DropTicketRequest(c)
      BY <2>5 DEF DropTicketRequest, TypeOK, RequestRow, IdleRequest, RequestsOK
    <2>6. CASE AnswerTicketRequest(c)
      BY <2>6 DEF AnswerTicketRequest, TypeOK, RequestRow, IdleRequest, RequestsOK
    <2>7. CASE AbortTicketRequest(c)
      <3> DEFINE r == request[c].reservation
                 s == reservation[r].session
      <3>1. r \in Reservations /\ s \in Sessions \cup {None}
        BY <2>7 DEF AbortTicketRequest, RequestsOK, TypeOK, ReservationRow
      <3>2. reservation' \in [Reservations -> ReservationRow]
        BY <2>7, <3>1, ReservationRowUpdates DEF AbortTicketRequest, TypeOK
      <3>3. PICK t \in Stamps :
              \/ /\ s # None
                 /\ session' = [session EXCEPT ![s] = SessionAs(@, "released", t)]
                 /\ downloads' = MinusOne(downloads)
                 /\ status' = ReopenedStatus(t)
              \/ UNCHANGED <<session, downloads, status>>
        BY <2>7 DEF AbortTicketRequest
      <3>4. session' \in [Sessions -> SessionRow]
        BY SMTT(30), <3>1, <3>3, <1>0, SessionRowUpdates DEF TypeOK, SessionStatus
      <3>5. downloads' \in Nat /\ status' \in TransferStatus
        BY <3>3 DEF MinusOne, ReopenedStatus, TypeOK, TransferStatus
      <3>6. request' \in [Recipients -> RequestRow] /\ RequestsOK'
        BY <2>7 DEF AbortTicketRequest, TypeOK, RequestRow, IdleRequest, RequestsOK
      <3>7. QED BY <2>7, <3>2, <3>4, <3>5, <3>6 DEF AbortTicketRequest, TypeOK
    <2>8. QED BY <1>2, <2>1, <2>2, <2>3, <2>4, <2>5, <2>6, <2>7 DEF TicketStep
  <1>3. ASSUME NEW r \in Reservations, DownloadStep(r) PROVE TypeInv'
    <2>1. CASE BeginDownload(r)
      <3> DEFINE s == reservation[r].session
      <3>1. s \in Sessions \cup {None}
        BY DEF TypeOK, ReservationRow
      <3>2. PICK t \in Stamps :
              /\ \/ reservation' = [reservation EXCEPT ![r] = Begun(@, t + MaxStream)]
                 \/ reservation' = [reservation EXCEPT ![r] = Released(@)]
              /\ \/ s # None /\ session' = [session EXCEPT ![s] = SessionAs(@, "active", @.hard)]
                 \/ session' = session
        BY <2>1 DEF BeginDownload
      <3>3. reservation' \in [Reservations -> ReservationRow]
        <4>1. reservation[r] \in ReservationRow /\ t + MaxStream \in Nat
          BY <1>0, RetrievalAssumption DEF TypeOK
        <4>2. /\ Begun(reservation[r], t + MaxStream) \in ReservationRow
              /\ Released(reservation[r]) \in ReservationRow
          BY <4>1, ReservationRowUpdates
        <4>3. QED BY <3>2, <4>2 DEF TypeOK
      <3>4. session' \in [Sessions -> SessionRow]
        <4>1. s # None => session[s] \in SessionRow /\ session[s].hard \in Nat
          BY <3>1 DEF TypeOK, SessionRow
        <4>2. s # None => SessionAs(session[s], "active", session[s].hard) \in SessionRow
          BY <4>1, SessionRowUpdates DEF SessionStatus
        <4>3. QED BY <3>1, <3>2, <4>2 DEF TypeOK
      <3>5. downloads' \in Nat
        BY <2>1 DEF BeginDownload, TypeOK
      <3>6. QED BY <2>1, <3>3, <3>4, <3>5 DEF BeginDownload, TypeOK, RequestsOK
    <2>2. ASSUME NEW reported \in Reports, SettleDownload(r, reported) PROVE TypeInv'
      <3>1. DecodedBytes(reported) \in 0..FileLength
        BY DecodedBytesType
      <3>2. PICK t \in Stamps :
              \/ SettleFinal(r, DecodedBytes(reported), t)
              \/ /\ reservation' = [reservation EXCEPT
                                      ![r] = Progressed(@, DecodedBytes(reported))]
                 /\ UNCHANGED <<session, downloads>>
        BY <2>2 DEF SettleDownload
      <3>3. /\ session' \in [Sessions -> SessionRow]
            /\ reservation' \in [Reservations -> ReservationRow]
            /\ downloads' \in Nat
        BY <3>1, <3>2, <1>0, SettleFinalType, ReservationRowUpdates DEF TypeOK
      <3>4. QED BY <2>2, <3>3 DEF SettleDownload, TypeOK, RequestsOK
    <2>3. QED BY <1>3, <2>1, <2>2 DEF DownloadStep
  <1>4. CASE RevokeTransfer
    BY <1>4 DEF RevokeTransfer, TypeOK, TransferStatus, RequestsOK
  <1>5. CASE CleanupStep
    <2>1. CASE ReleaseExpiredReservations
      <3>1. reservation' \in [Reservations -> ReservationRow]
        BY <2>1, ReservationRowUpdates DEF ReleaseExpiredReservations, TypeOK
      <3>2. \A r \in Reservations : reservation[r].actual \in 0..FileLength
        BY DEF TypeOK, ReservationRow
      <3>3. worker' \in WorkerState
        BY <2>1, <3>2 DEF ReleaseExpiredReservations, TypeOK, WorkerState, WorkerSteps,
                          OverdueStreams
      <3>4. QED BY <2>1, <3>1, <3>3 DEF ReleaseExpiredReservations, TypeOK, RequestsOK
    <2>2. ASSUME NEW x \in worker.streams, ForceSettleStream(x) PROVE TypeInv'
      <3>1. x.id \in Reservations /\ x.actual \in 0..FileLength /\ worker.now \in Nat
        BY <2>2 DEF TypeOK, WorkerState
      <3>2. /\ session' \in [Sessions -> SessionRow]
            /\ reservation' \in [Reservations -> ReservationRow]
            /\ downloads' \in Nat
        BY <2>2, <3>1, SettleFinalType DEF ForceSettleStream, TypeOK
      <3>3. worker' \in WorkerState
        BY <2>2 DEF ForceSettleStream, TypeOK, WorkerState
      <3>4. QED BY <2>2, <3>2, <3>3 DEF ForceSettleStream, TypeOK, RequestsOK
    <2>3. CASE ReleaseExpiredSessions
      <3>1. reservation' \in [Reservations -> ReservationRow]
        BY <2>3, ReservationRowUpdates DEF ReleaseExpiredSessions, TypeOK
      <3>2. session' \in [Sessions -> SessionRow]
        <4>1. worker.now \in Nat /\ \A s \in Sessions : session[s].expires \in Nat
          BY DEF TypeOK, WorkerState, SessionRow
        <4>2. \A s \in Sessions : /\ SessionAs(session[s], "released", worker.now) \in SessionRow
                                  /\ SessionAs(session[s], "closed", session[s].expires) \in SessionRow
          BY <4>1, SessionRowUpdates DEF TypeOK, SessionStatus
        <4>3. QED BY <2>3, <4>2 DEF ReleaseExpiredSessions, TypeOK
      <3>3. downloads' \in Nat
        <4>1. Cardinality({s \in Sessions : ReturnsSlot(s, worker.now)}) \in Nat
          BY FS_Subset, FS_CardinalityType, RetrievalAssumption
        <4>2. QED BY <2>3, <4>1 DEF ReleaseExpiredSessions, TypeOK
      <3>4. status' \in TransferStatus
        BY <2>3 DEF ReleaseExpiredSessions, ReopenedStatus, TypeOK, TransferStatus
      <3>5. worker' \in WorkerState
        BY <2>3 DEF ReleaseExpiredSessions, TypeOK, WorkerState, WorkerSteps
      <3>6. QED BY <2>3, <3>1, <3>2, <3>3, <3>4, <3>5 DEF ReleaseExpiredSessions, TypeOK, RequestsOK
    <2>4. CASE MaintenanceCandidates
      <3>1. worker' \in WorkerState
        BY <2>4 DEF MaintenanceCandidates, TypeOK, WorkerState, WorkerSteps, ReadyFiles
      <3>2. QED
        BY <2>4, <3>1 DEF MaintenanceCandidates, TypeOK, TransferStatus, RequestsOK
    <2>5. ASSUME NEW u \in worker.list, DeleteCandidate(u) PROVE TypeInv'
      BY <2>5 DEF DeleteCandidate, TypeOK, WorkerState, RequestsOK
    <2>6. CASE FinishCleanup
      BY <2>6 DEF FinishCleanup, TypeOK, WorkerState, WorkerSteps, IdleWorker, RequestsOK
    <2>7. QED BY <1>5, <2>1, <2>2, <2>3, <2>4, <2>5, <2>6 DEF CleanupStep
  <1>6. CASE FailCleanupStep
    <2>1. worker' \in WorkerState
      BY <1>6 DEF FailCleanupStep, TypeOK, WorkerState, WorkerSteps, IdleWorker
    <2>2. QED BY <1>6, <2>1 DEF FailCleanupStep, TypeOK, RequestsOK
  <1>7. CASE Restart
    BY <1>7, RetrievalAssumption
    DEF Restart, TypeOK, RequestRow, IdleRequest, WorkerState, WorkerSteps, IdleWorker, RequestsOK
  <1>8. CASE UNCHANGED vars
    BY <1>8 DEF vars, TypeOK, RequestsOK
  <1>9. QED BY <1>1, <1>2, <1>3, <1>4, <1>5, <1>6, <1>7, <1>8 DEF Next

\* The state of the control plane stays well typed: in particular the number of
\* delivered bytes a settlement stores never passes the length of the file,
\* whatever encoded report it was given.
THEOREM Typing == Spec => []TypeOK
  <1>1. Spec => []TypeInv
    BY InitTypeInv, NextTypeInv, PTL DEF Spec
  <1>2. TypeInv => TypeOK
    BY DEF TypeInv
  <1>3. QED BY <1>1, <1>2, PTL

-----------------------------------------------------------------------------
(* Sessions and the reservations that belong to them *)

\* Rows that were not inserted are empty; a reservation belongs to a session
\* exactly when the transfer is a retrieval transfer, and that session exists;
\* a runtime row exists from the moment the download began.
Links ==
    \A r \in Reservations :
        /\ reservation[r].status = "none" => reservation[r].session = None
        /\ reservation[r].status # "none" => (reservation[r].session # None <=> RetrievalMode)
        /\ reservation[r].session # None => session[reservation[r].session].status # "none"
        /\ reservation[r].status \in {"none", "reserved"} => reservation[r].hard = 0
        /\ reservation[r].status = "consuming" => reservation[r].hard > 0

LegacyHasNoSessions == RetrievalMode \/ \A s \in Sessions : session[s].status = "none"

\* No download of a provisional session ever began.
ProvisionalUnused ==
    \A r \in Reservations :
        /\ reservation[r].session # None
        /\ session[reservation[r].session].status = "provisional"
        => reservation[r].hard = 0

SessionInv == Links /\ LegacyHasNoSessions /\ StreamKeepsSession /\ ProvisionalUnused

LEMMA InitSessionInv == Init => SessionInv
  BY DEF Init, SessionInv, Links, LegacyHasNoSessions, StreamKeepsSession, ProvisionalUnused,
         EmptySession, EmptyReservation

\* The effect of a final settlement on the rows.
LEMMA SettleFinalRows ==
  ASSUME TypeInv, SessionInv, NEW r \in Reservations, NEW actual \in 0..FileLength, NEW t \in Nat,
         SettleFinal(r, actual, t)
  PROVE  /\ reservation[r].status \in {"reserved", "consuming"}
         /\ reservation' = [reservation EXCEPT ![r] = Settled(@, actual)]
         /\ \/ session' = session
            \/ /\ reservation[r].session \in Sessions
               /\ reservation[r].status = "consuming"
               /\ Streaming(reservation[r].session) = {r}
               /\ session' = [session EXCEPT ![reservation[r].session] = SessionAs(@, "closed", t)]
  BY DEF SettleFinal, Settleable, TypeInv, TypeOK, ReservationRow

LEMMA SettleFinalSessionInv ==
  ASSUME TypeInv, SessionInv, NEW r \in Reservations, NEW actual \in 0..FileLength, NEW t \in Nat,
         SettleFinal(r, actual, t), mode' = mode
  PROVE  SessionInv'
  <1> DEFINE s == reservation[r].session
  <1>0. /\ reservation[r].status \in {"reserved", "consuming"}
        /\ reservation' = [reservation EXCEPT ![r] = Settled(@, actual)]
        /\ \/ session' = session
           \/ /\ s \in Sessions
              /\ reservation[r].status = "consuming"
              /\ Streaming(s) = {r}
              /\ session' = [session EXCEPT ![s] = SessionAs(@, "closed", t)]
    BY SettleFinalRows
  <1>1. /\ \A m \in Reservations : m # r => reservation'[m] = reservation[m]
        /\ reservation'[r].status = "settled" /\ reservation'[r].session = s
        /\ reservation'[r].hard = reservation[r].hard
    BY <1>0 DEF TypeInv, TypeOK, Settled, ReservationRow
  <1>2. CASE session' = session
    BY <1>0, <1>1, <1>2
    DEF SessionInv, Links, LegacyHasNoSessions, StreamKeepsSession, ProvisionalUnused, RetrievalMode
  <1>3. CASE session' # session
    <2>1. s \in Sessions /\ reservation[r].status = "consuming" /\ Streaming(s) = {r}
      BY <1>3, <1>0
    <2>2. /\ \A q \in Sessions : q # s => session'[q] = session[q]
          /\ session'[s].status = "closed"
      BY ZenonT(40), <1>3, <2>1, <1>0 DEF TypeInv, TypeOK, SessionAs, SessionRow
    <2>3. s # None
      BY <2>1, RetrievalAssumption
    <2>4. Links'
      BY <1>1, <2>1, <2>2 DEF SessionInv, Links, RetrievalMode, TypeInv, TypeOK, ReservationRow
    <2>5. LegacyHasNoSessions'
      BY <2>1, <2>3 DEF SessionInv, Links, LegacyHasNoSessions, RetrievalMode
    <2>6. StreamKeepsSession'
      BY <1>1, <2>1, <2>2 DEF SessionInv, StreamKeepsSession, Streaming, TypeInv, TypeOK, ReservationRow
    <2>7. ProvisionalUnused'
      BY <1>1, <2>2 DEF SessionInv, ProvisionalUnused, TypeInv, TypeOK, ReservationRow
    <2>8. QED BY <2>4, <2>5, <2>6, <2>7 DEF SessionInv
  <1>4. QED BY <1>2, <1>3

\* Inserting or prolonging a row in an existing session: the sessions keep
\* their rows and the reservations theirs, but for the one row r.
LEMMA ReserveRowRows ==
  ASSUME TypeInv, NEW c \in Recipients, NEW s \in Sessions, NEW u \in Uploads, NEW t \in Nat,
         NEW expires \in Nat, NEW created,
         ReserveRow(c, s, u, t, expires, created)
  PROVE  \E r \in Reservations :
           /\ \A m \in Reservations : m # r => reservation'[m] = reservation[m]
           /\ reservation'[r].status = "reserved"
           /\ reservation'[r].session = s /\ reservation'[r].upload = u
           /\ \/ /\ reservation[r].status = "reserved" /\ reservation[r].session = s
                 /\ reservation[r].upload = u /\ reservation'[r].hard = reservation[r].hard
              \/ /\ LiveRows(s, u) = {} /\ reservation[r].status = "none"
                 /\ reservation'[r].hard = 0
  <1>1. ASSUME NEW r \in LiveRows(s, u), reservation[r].status = "reserved",
               reservation' = [reservation EXCEPT ![r] = Prolonged(@, expires)]
        PROVE  /\ r \in Reservations
               /\ \A m \in Reservations : m # r => reservation'[m] = reservation[m]
               /\ reservation'[r].status = "reserved"
               /\ reservation'[r].session = s /\ reservation'[r].upload = u
               /\ reservation[r].status = "reserved" /\ reservation[r].session = s
               /\ reservation[r].upload = u /\ reservation'[r].hard = reservation[r].hard
    <2>1. /\ r \in Reservations /\ reservation[r] \in ReservationRow
          /\ reservation[r].session = s /\ reservation[r].upload = u
      BY DEF LiveRows, TypeInv, TypeOK
    <2>2. reservation'[r] = Prolonged(reservation[r], expires)
      BY <1>1, <2>1 DEF TypeInv, TypeOK
    <2>3. QED BY <1>1, <2>1, <2>2 DEF TypeInv, TypeOK, Prolonged, ReservationRow
  <1>2. ASSUME NEW r \in Reservations, LiveRows(s, u) = {}, reservation[r].status = "none",
               reservation' = [reservation EXCEPT ![r] = Reserved(u, s, None, expires)]
        PROVE  /\ \A m \in Reservations : m # r => reservation'[m] = reservation[m]
               /\ reservation'[r].status = "reserved"
               /\ reservation'[r].session = s /\ reservation'[r].upload = u
               /\ reservation'[r].hard = 0
    BY <1>2 DEF TypeInv, TypeOK, Reserved
  <1>3. QED BY <1>1, <1>2 DEF ReserveRow

\* Every step keeps sessions and reservations consistent.
LEMMA NextSessionInv == TypeInv /\ SessionInv /\ [Next]_vars => SessionInv'
  <1> SUFFICES ASSUME TypeInv, SessionInv, [Next]_vars PROVE SessionInv'
    OBVIOUS
  <1> USE DEF transferVars, clientVars
  <1>0. Stamps \subseteq Nat
    BY DEF Stamps
  <1>a. CASE UNCHANGED <<mode, session, reservation>>
    BY <1>a DEF SessionInv, Links, LegacyHasNoSessions, StreamKeepsSession, ProvisionalUnused,
                RetrievalMode
  <1>1. CASE Tick \/ RevokeTransfer \/ FailCleanupStep \/ Restart \/ UNCHANGED vars
    BY <1>1, <1>a DEF Tick, RevokeTransfer, FailCleanupStep, Restart, vars
  <1>2. ASSUME NEW c \in Recipients, TicketStep(c) PROVE SessionInv'
    <2>1. CASE \/ \E u \in Uploads, s \in Sessions \cup {None} : CheckTicketRequest(c, u, s)
               \/ DropTicketRequest(c) \/ AnswerTicketRequest(c)
      BY <2>1, <1>a DEF CheckTicketRequest, DropTicketRequest, AnswerTicketRequest
    <2>2. CASE ReserveInSession(c)
      <3>1. PICK t \in Stamps, s \in Sessions :
              /\ request[c].phase = "checked" /\ Usable(s, t)
              /\ ReserveRow(c, s, request[c].upload, t,
                            Least(t + ReservationLifetime, session[s].expires), FALSE)
        BY <2>2 DEF ReserveInSession, Reusable, TypeInv, TypeOK, RequestRow
      <3>2. request[c].upload \in Uploads /\ Least(t + ReservationLifetime, session[s].expires) \in Nat
        BY <3>1, <1>0, RetrievalAssumption DEF TypeInv, RequestsOK, Least, TypeOK, SessionRow
      <3>3. PICK r \in Reservations :
              /\ \A m \in Reservations : m # r => reservation'[m] = reservation[m]
              /\ reservation'[r].status = "reserved" /\ reservation'[r].session = s
              /\ \/ reservation[r].status = "reserved" /\ reservation'[r].hard = reservation[r].hard
                 \/ reservation[r].status = "none" /\ reservation'[r].hard = 0
        <4>1. t \in Nat
          BY <1>0
        <4>a. PICK e \in Nat, b \in BOOLEAN : ReserveRow(c, s, request[c].upload, t, e, b)
          BY <3>1, <3>2
        <4>2. \E r \in Reservations :
                /\ \A m \in Reservations : m # r => reservation'[m] = reservation[m]
                /\ reservation'[r].status = "reserved"
                /\ reservation'[r].session = s /\ reservation'[r].upload = request[c].upload
                /\ \/ /\ reservation[r].status = "reserved" /\ reservation[r].session = s
                      /\ reservation[r].upload = request[c].upload
                      /\ reservation'[r].hard = reservation[r].hard
                   \/ /\ LiveRows(s, request[c].upload) = {} /\ reservation[r].status = "none"
                      /\ reservation'[r].hard = 0
          BY <3>2, <4>1, <4>a, ReserveRowRows
        <4>3. QED BY <4>2
      <3>4. reservation'[r].hard = 0
        BY <3>3 DEF SessionInv, Links
      <3>5. mode' = mode /\ RetrievalMode /\ session' = session /\ s # None
            /\ session[s].status # "none"
        BY <2>2, <3>1, RetrievalAssumption DEF ReserveInSession, Usable
      <3>6. QED
        BY <3>3, <3>4, <3>5
        DEF SessionInv, Links, LegacyHasNoSessions, StreamKeepsSession, ProvisionalUnused,
            RetrievalMode
    <2>3. CASE ReserveInNewSession(c)
      <3>1. PICK t \in Stamps, s \in Sessions :
              /\ request[c].phase = "checked"
              /\ session[s].status = "none"
              /\ session' = [session EXCEPT ![s] =
                    [status |-> "provisional", key |-> c, expires |-> t + ProvisionalLifetime,
                     hard |-> t + SessionLifetime]]
              /\ ReserveRow(c, s, request[c].upload, t,
                            Least(t + ReservationLifetime, t + ProvisionalLifetime), TRUE)
        BY <2>3 DEF ReserveInNewSession
      <3>2. request[c].upload \in Uploads
            /\ Least(t + ReservationLifetime, t + ProvisionalLifetime) \in Nat
        BY <3>1, <1>0, RetrievalAssumption DEF TypeInv, RequestsOK, Least
      <3>3. PICK r \in Reservations :
              /\ \A m \in Reservations : m # r => reservation'[m] = reservation[m]
              /\ reservation'[r].status = "reserved" /\ reservation'[r].session = s
              /\ \/ reservation[r].status = "reserved" /\ reservation'[r].hard = reservation[r].hard
                 \/ reservation[r].status = "none" /\ reservation'[r].hard = 0
        <4>1. t \in Nat
          BY <1>0
        <4>a. PICK e \in Nat, b \in BOOLEAN : ReserveRow(c, s, request[c].upload, t, e, b)
          BY <3>1, <3>2
        <4>2. \E r \in Reservations :
                /\ \A m \in Reservations : m # r => reservation'[m] = reservation[m]
                /\ reservation'[r].status = "reserved"
                /\ reservation'[r].session = s /\ reservation'[r].upload = request[c].upload
                /\ \/ /\ reservation[r].status = "reserved" /\ reservation[r].session = s
                      /\ reservation[r].upload = request[c].upload
                      /\ reservation'[r].hard = reservation[r].hard
                   \/ /\ LiveRows(s, request[c].upload) = {} /\ reservation[r].status = "none"
                      /\ reservation'[r].hard = 0
          BY <3>2, <4>1, <4>a, ReserveRowRows
        <4>3. QED BY <4>2
      <3>4. reservation'[r].hard = 0
        BY <3>3 DEF SessionInv, Links
      <3>5. mode' = mode /\ RetrievalMode /\ s # None
            /\ session'[s].status = "provisional"
            /\ \A q \in Sessions : q # s => session'[q] = session[q]
        BY <2>3, <3>1, RetrievalAssumption DEF ReserveInNewSession, TypeInv, TypeOK
      <3>6. \A m \in Reservations : /\ reservation[m].session \in Sessions \cup {None}
                                    /\ reservation[m].session # s
        BY <3>1, <3>5 DEF SessionInv, Links, TypeInv, TypeOK, ReservationRow
      <3>7. QED
        BY <3>3, <3>4, <3>5, <3>6
        DEF SessionInv, Links, LegacyHasNoSessions, StreamKeepsSession, ProvisionalUnused,
            RetrievalMode
    <2>4. CASE ReserveLegacy(c)
      <3>1. PICK t \in Stamps, r \in Reservations :
              \/ /\ reservation[r].status = "reserved"
                 /\ reservation' = [reservation EXCEPT ![r] = Prolonged(@, t + ReservationLifetime)]
              \/ /\ reservation[r].status = "none"
                 /\ reservation' = [m \in Reservations |->
                      IF m = r
                      THEN Reserved(request[c].upload, None, c, t + ReservationLifetime)
                      ELSE IF /\ reservation[m].status = "reserved"
                              /\ reservation[m].upload = request[c].upload
                              /\ reservation[m].key = c
                      THEN Released(reservation[m])
                      ELSE reservation[m]]
        BY <2>4 DEF ReserveLegacy
      <3>2. mode' = mode /\ session' = session /\ ~RetrievalMode
        BY <2>4 DEF ReserveLegacy
      <3>3. CASE reservation' = [reservation EXCEPT ![r] = Prolonged(@, t + ReservationLifetime)]
        <4>1. \A m \in Reservations : /\ reservation'[m].status = reservation[m].status
                                      /\ reservation'[m].session = reservation[m].session
                                      /\ reservation'[m].hard = reservation[m].hard
          BY <3>3 DEF TypeInv, TypeOK, Prolonged, ReservationRow
        <4>2. QED
          BY <3>2, <4>1
          DEF SessionInv, Links, LegacyHasNoSessions, StreamKeepsSession, ProvisionalUnused,
              RetrievalMode
      <3>4. CASE reservation' # [reservation EXCEPT ![r] = Prolonged(@, t + ReservationLifetime)]
        <4>1. \A m \in Reservations :
                \/ /\ reservation'[m].status = "reserved" /\ reservation'[m].session = None
                   /\ reservation'[m].hard = 0
                \/ /\ reservation[m].status = "reserved"
                   /\ reservation'[m].status = "released"
                   /\ reservation'[m].session = reservation[m].session
                   /\ reservation'[m].hard = reservation[m].hard
                \/ reservation'[m] = reservation[m]
          BY <3>1, <3>4 DEF TypeInv, TypeOK, Released, Reserved, ReservationRow
        <4>2. QED
          BY <3>2, <4>1
          DEF SessionInv, Links, LegacyHasNoSessions, StreamKeepsSession, ProvisionalUnused,
              RetrievalMode
      <3>5. QED BY <3>3, <3>4
    <2>5. CASE AbortTicketRequest(c)
      <3> DEFINE r == request[c].reservation
                 s == reservation[r].session
      <3>1. r \in Reservations /\ s \in Sessions \cup {None} /\ mode' = mode
        BY <2>5 DEF AbortTicketRequest, RequestsOK, TypeInv, TypeOK, ReservationRow
      <3>2. \A m \in Reservations :
              /\ \/ reservation[m].status = "reserved" /\ reservation'[m].status = "released"
                 \/ reservation'[m].status = reservation[m].status
              /\ reservation'[m].session = reservation[m].session
              /\ reservation'[m].hard = reservation[m].hard
        BY <2>5, <3>1 DEF AbortTicketRequest, TypeInv, TypeOK, Released, ReservationRow
      <3>3. PICK t \in Stamps :
              \/ /\ s # None /\ session[s].status = "provisional"
                 /\ session' = [session EXCEPT ![s] = SessionAs(@, "released", t)]
              \/ session' = session
        BY <2>5 DEF AbortTicketRequest
      <3>4. CASE session' = session
        BY <3>1, <3>2, <3>4
        DEF SessionInv, Links, LegacyHasNoSessions, StreamKeepsSession, ProvisionalUnused,
            RetrievalMode
      <3>5. CASE session' # session
        <4>1. /\ s \in Sessions /\ session[s].status = "provisional"
              /\ session'[s].status = "released"
              /\ \A q \in Sessions : q # s => session'[q] = session[q]
          BY <3>1, <3>3, <3>5 DEF TypeInv, TypeOK, SessionAs, SessionRow
        <4>2. \A m \in Reservations : reservation[m].session \in Sessions \cup {None}
          BY DEF TypeInv, TypeOK, ReservationRow
        <4>3. QED
          BY <3>1, <3>2, <4>1, <4>2
          DEF SessionInv, Links, LegacyHasNoSessions, StreamKeepsSession, ProvisionalUnused,
              RetrievalMode
      <3>6. QED BY <3>4, <3>5
    <2>6. QED BY <1>2, <2>1, <2>2, <2>3, <2>4, <2>5 DEF TicketStep
  <1>3. ASSUME NEW r \in Reservations, DownloadStep(r) PROVE SessionInv'
    <2>1. CASE BeginDownload(r)
      <3> DEFINE s == reservation[r].session
      <3>1. PICK t \in Stamps :
              /\ reservation[r].status = "reserved"
              /\ \/ /\ reservation' = [reservation EXCEPT ![r] = Begun(@, t + MaxStream)]
                    /\ s = None /\ session' = session
                 \/ /\ reservation' = [reservation EXCEPT ![r] = Begun(@, t + MaxStream)]
                    /\ s # None /\ session[s].status \in {"provisional", "active"}
                    /\ session' = [session EXCEPT ![s] = SessionAs(@, "active", @.hard)]
                 \/ /\ reservation' = [reservation EXCEPT ![r] = Released(@)]
                    /\ session' = session
        BY <2>1 DEF BeginDownload, Usable
      <3>2. mode' = mode /\ t + MaxStream > 0
            /\ \A m \in Reservations : reservation[m].session \in Sessions \cup {None}
        BY <2>1, <1>0, RetrievalAssumption DEF BeginDownload, TypeInv, TypeOK, ReservationRow
      <3>3. \A m \in Reservations : m # r => reservation'[m] = reservation[m]
        BY <3>1 DEF TypeInv, TypeOK
      <3>4. CASE reservation' = [reservation EXCEPT ![r] = Released(@)] /\ session' = session
        <4>1. /\ reservation'[r].status = "released" /\ reservation'[r].session = s
              /\ reservation'[r].hard = reservation[r].hard
          BY <3>4 DEF TypeInv, TypeOK, Released, ReservationRow
        <4>2. QED
          BY <3>1, <3>2, <3>3, <3>4, <4>1
          DEF SessionInv, Links, LegacyHasNoSessions, StreamKeepsSession, ProvisionalUnused,
              RetrievalMode
      <3>5. reservation' = [reservation EXCEPT ![r] = Begun(@, t + MaxStream)]
            => /\ reservation'[r].status = "consuming" /\ reservation'[r].session = s
               /\ reservation'[r].hard = t + MaxStream
        BY DEF TypeInv, TypeOK, Begun, ReservationRow
      <3>6. CASE /\ reservation' = [reservation EXCEPT ![r] = Begun(@, t + MaxStream)]
                 /\ s = None /\ session' = session
        BY <3>1, <3>2, <3>3, <3>5, <3>6
        DEF SessionInv, Links, LegacyHasNoSessions, StreamKeepsSession, ProvisionalUnused,
            RetrievalMode
      <3>7. CASE /\ reservation' = [reservation EXCEPT ![r] = Begun(@, t + MaxStream)]
                 /\ s # None /\ session[s].status \in {"provisional", "active"}
                 /\ session' = [session EXCEPT ![s] = SessionAs(@, "active", @.hard)]
        <4>1. /\ s \in Sessions /\ session'[s].status = "active"
              /\ \A q \in Sessions : q # s => session'[q] = session[q]
          BY <3>2, <3>7 DEF TypeInv, TypeOK, SessionAs, SessionRow
        <4>2. RetrievalMode
          BY <3>1, <3>7 DEF SessionInv, Links
        <4>a. /\ reservation'[r].status = "consuming" /\ reservation'[r].session = s
              /\ reservation'[r].hard > 0 /\ s # None
          BY <3>2, <3>5, <3>7
        <4>3. Links' /\ LegacyHasNoSessions'
          BY <3>2, <3>3, <4>1, <4>2, <4>a DEF SessionInv, Links, LegacyHasNoSessions, RetrievalMode
        <4>4. StreamKeepsSession' /\ ProvisionalUnused'
          BY <3>2, <3>3, <4>1, <4>a DEF SessionInv, StreamKeepsSession, ProvisionalUnused
        <4>5. QED BY <4>3, <4>4 DEF SessionInv
      <3>8. QED BY <3>1, <3>4, <3>6, <3>7
    <2>2. ASSUME NEW reported \in Reports, SettleDownload(r, reported) PROVE SessionInv'
      <3>1. DecodedBytes(reported) \in 0..FileLength /\ mode' = mode
        BY <2>2, DecodedBytesType DEF SettleDownload
      <3>2. PICK t \in Stamps :
              \/ SettleFinal(r, DecodedBytes(reported), t)
              \/ /\ reservation' = [reservation EXCEPT
                                      ![r] = Progressed(@, DecodedBytes(reported))]
                 /\ session' = session
        BY <2>2 DEF SettleDownload
      <3>3. CASE SettleFinal(r, DecodedBytes(reported), t)
        BY <3>1, <3>3, <1>0, SettleFinalSessionInv
      <3>4. CASE /\ reservation' = [reservation EXCEPT
                                      ![r] = Progressed(@, DecodedBytes(reported))]
                 /\ session' = session
        <4>1. \A m \in Reservations : /\ reservation'[m].status = reservation[m].status
                                      /\ reservation'[m].session = reservation[m].session
                                      /\ reservation'[m].hard = reservation[m].hard
          BY <3>4 DEF TypeInv, TypeOK, Progressed, ReservationRow
        <4>2. QED
          BY <3>1, <3>4, <4>1
          DEF SessionInv, Links, LegacyHasNoSessions, StreamKeepsSession, ProvisionalUnused,
              RetrievalMode
      <3>5. QED BY <3>2, <3>3, <3>4
    <2>3. QED BY <1>3, <2>1, <2>2 DEF DownloadStep
  <1>4. CASE CleanupStep
    <2>1. CASE ReleaseExpiredReservations
      <3>1. \A m \in Reservations :
              /\ \/ reservation[m].status = "reserved" /\ reservation'[m].status = "released"
                 \/ reservation'[m].status = reservation[m].status
              /\ reservation'[m].session = reservation[m].session
              /\ reservation'[m].hard = reservation[m].hard
        BY <2>1 DEF ReleaseExpiredReservations, TypeInv, TypeOK, Released, ReservationRow
      <3>2. mode' = mode /\ session' = session
        BY <2>1 DEF ReleaseExpiredReservations
      <3>3. QED
        BY <3>1, <3>2
        DEF SessionInv, Links, LegacyHasNoSessions, StreamKeepsSession, ProvisionalUnused,
            RetrievalMode
    <2>2. ASSUME NEW x \in worker.streams, ForceSettleStream(x) PROVE SessionInv'
      <3>1. x.id \in Reservations /\ x.actual \in 0..FileLength /\ worker.now \in Nat
        BY <2>2 DEF TypeInv, TypeOK, WorkerState
      <3>2. QED BY <2>2, <3>1, <1>a, SettleFinalSessionInv DEF ForceSettleStream
    <2>3. CASE ReleaseExpiredSessions
      <3>1. \A m \in Reservations :
              /\ \/ reservation[m].status = "reserved" /\ reservation'[m].status = "released"
                 \/ reservation'[m].status = reservation[m].status
              /\ reservation'[m].session = reservation[m].session
              /\ reservation'[m].hard = reservation[m].hard
        BY <2>3 DEF ReleaseExpiredSessions, TypeInv, TypeOK, Released, ReservationRow
      <3>2. \A s \in Sessions :
              \/ session'[s] = session[s]
              \/ /\ session[s].status = "provisional" /\ session'[s].status = "released"
                 /\ Streaming(s) = {}
              \/ /\ session[s].status = "active" /\ session'[s].status = "closed"
                 /\ Streaming(s) = {}
        BY <2>3 DEF ReleaseExpiredSessions, ReturnsSlot, TypeInv, TypeOK, SessionAs, SessionRow
      <3>3. \A m \in Reservations : reservation[m].session \in Sessions \cup {None}
        BY DEF TypeInv, TypeOK, ReservationRow
      <3>4. mode' = mode
        BY <2>3 DEF ReleaseExpiredSessions
      <3>5. StreamKeepsSession'
        BY <3>1, <3>2, <3>3 DEF SessionInv, StreamKeepsSession, Streaming
      <3>6. Links' /\ LegacyHasNoSessions' /\ ProvisionalUnused'
        BY <3>1, <3>2, <3>3, <3>4
        DEF SessionInv, Links, LegacyHasNoSessions, ProvisionalUnused, RetrievalMode
      <3>7. QED BY <3>5, <3>6 DEF SessionInv
    <2>4. CASE MaintenanceCandidates \/ (\E u \in worker.list : DeleteCandidate(u)) \/ FinishCleanup
      BY <2>4, <1>a DEF MaintenanceCandidates, DeleteCandidate, FinishCleanup
    <2>5. QED BY <1>4, <2>1, <2>2, <2>3, <2>4 DEF CleanupStep
  <1>5. QED BY <1>1, <1>2, <1>3, <1>4 DEF Next

\* A download in progress keeps its session active, for any number of
\* recipients, sessions and files and any lifetimes.
THEOREM StreamsKeepSessions == Spec => []StreamKeepsSession
  <1>1. TypeInv /\ SessionInv /\ [Next]_vars => (TypeInv /\ SessionInv)'
    BY NextTypeInv, NextSessionInv
  <1>2. Spec => [](TypeInv /\ SessionInv)
    BY InitTypeInv, InitSessionInv, <1>1, PTL DEF Spec
  <1>3. SessionInv => StreamKeepsSession
    BY DEF SessionInv
  <1>4. QED BY <1>2, <1>3, PTL

-----------------------------------------------------------------------------
(* The accounting of slots *)

LEMMA SlotSetsFinite == IsFiniteSet(HeldSessions) /\ IsFiniteSet(CountedDownloads)
  BY FS_Subset, RetrievalAssumption DEF HeldSessions, CountedDownloads

\* A step that changes neither the counter nor what it counts.
LEMMA KeepSlots ==
  ASSUME SlotAccounting, mode' = mode, downloads' = downloads,
         RetrievalMode => HeldSessions' = HeldSessions,
         ~RetrievalMode => CountedDownloads' = CountedDownloads
  PROVE  SlotAccounting'
  BY DEF SlotAccounting, RetrievalMode

\* Rows that were reserved and are released, with no other change, do not count.
LEMMA ReleasingKeepsCounted ==
  ASSUME TypeInv, SessionInv,
         \A m \in Reservations :
            /\ \/ reservation[m].status = "reserved" /\ reservation'[m].status = "released"
               \/ reservation'[m].status = reservation[m].status
            /\ reservation'[m].hard = reservation[m].hard
            /\ reservation'[m].actual = reservation[m].actual
  PROVE  CountedDownloads' = CountedDownloads
  BY DEF CountedDownloads, SessionInv, Links

\* A final settlement gives back the slot of a legacy download without bytes.
LEMMA SettleFinalSlots ==
  ASSUME TypeInv, SessionInv, SlotAccounting,
         NEW r \in Reservations, NEW actual \in 0..FileLength, NEW t \in Nat,
         SettleFinal(r, actual, t), mode' = mode
  PROVE  SlotAccounting'
  <1> DEFINE s == reservation[r].session
  <1>0. /\ reservation[r].status \in {"reserved", "consuming"}
        /\ reservation' = [reservation EXCEPT ![r] = Settled(@, actual)]
        /\ \/ session' = session
           \/ /\ s \in Sessions
              /\ reservation[r].status = "consuming"
              /\ Streaming(s) = {r}
              /\ session' = [session EXCEPT ![s] = SessionAs(@, "closed", t)]
    BY SettleFinalRows
  <1>1. /\ \A m \in Reservations : m # r => reservation'[m] = reservation[m]
        /\ reservation'[r].status = "settled"
        /\ reservation'[r].hard = reservation[r].hard /\ reservation'[r].actual = actual
    BY <1>0 DEF TypeInv, TypeOK, Settled, ReservationRow
  <1>2. downloads' = IF reservation[r].status = "consuming" /\ actual = 0 /\ s = None
                     THEN MinusOne(downloads) ELSE downloads
    BY DEF SettleFinal
  <1>3. CASE RetrievalMode
    <2>1. s # None
      BY <1>0, <1>3 DEF SessionInv, Links
    <2>2. HeldSessions' = HeldSessions
      <3>1. CASE session' = session
        BY <3>1 DEF HeldSessions
      <3>2. CASE session' # session
        <4>1. session[s].status = "active"
          BY <1>0, <2>1, <3>2 DEF SessionInv, StreamKeepsSession
        <4>2. /\ \A q \in Sessions : q # s => session'[q] = session[q]
              /\ session'[s].status = "closed"
          <5>1. /\ s \in Sessions
                /\ session' = [session EXCEPT ![s] = SessionAs(@, "closed", t)]
            BY <1>0, <3>2
          <5>2. QED BY <5>1 DEF TypeInv, TypeOK, SessionAs, SessionRow
        <4>3. QED BY <4>1, <4>2 DEF HeldSessions
      <3>3. QED BY <3>1, <3>2
    <2>3. QED BY <1>2, <1>3, <2>1, <2>2, KeepSlots
  <1>4. CASE ~RetrievalMode
    <2>1. s = None /\ (reservation[r].status = "reserved" <=> reservation[r].hard = 0)
      BY <1>0, <1>4 DEF SessionInv, Links
    <2>2. CASE ~(reservation[r].status = "consuming" /\ actual = 0)
      <3>1. CountedDownloads' = CountedDownloads
        <4>1. r \in CountedDownloads' <=> r \in CountedDownloads
          <5>1. actual = 0 \/ actual > 0
            OBVIOUS
          <5>2. CASE reservation[r].status = "reserved"
            BY <1>1, <2>1, <5>2 DEF CountedDownloads
          <5>3. CASE reservation[r].status = "consuming"
            BY <1>1, <2>1, <2>2, <5>1, <5>3 DEF CountedDownloads, SessionInv, Links
          <5>4. QED BY <1>0, <5>2, <5>3
        <4>2. QED BY <1>1, <4>1 DEF CountedDownloads
      <3>2. QED BY <1>2, <1>4, <2>2, <3>1, KeepSlots
    <2>3. CASE reservation[r].status = "consuming" /\ actual = 0
      <3>1. r \in CountedDownloads
        BY <2>3 DEF CountedDownloads, SessionInv, Links
      <3>2. CountedDownloads' = CountedDownloads \ {r}
        BY <1>1, <2>3 DEF CountedDownloads
      <3>3. Cardinality(CountedDownloads') = Cardinality(CountedDownloads) - 1
        BY <3>1, <3>2, SlotSetsFinite, FS_RemoveElement
      <3>4. Cardinality(CountedDownloads) \in Nat /\ Cardinality(CountedDownloads) # 0
        BY <3>1, SlotSetsFinite, FS_CardinalityType, FS_EmptySet
      <3>5. downloads' = MinusOne(downloads) /\ ~RetrievalMode'
        BY <1>2, <1>4, <2>1, <2>3 DEF RetrievalMode
      <3>6. QED
        BY <1>4, <3>3, <3>4, <3>5, RetrievalAssumption DEF SlotAccounting, MinusOne
    <2>4. QED BY <2>2, <2>3
  <1>5. QED BY <1>3, <1>4

\* Every step keeps the counter equal to what it counts.
LEMMA NextSlotAccounting ==
  TypeInv /\ SessionInv /\ SlotAccounting /\ [Next]_vars => SlotAccounting'
  <1> SUFFICES ASSUME TypeInv, SessionInv, SlotAccounting, [Next]_vars PROVE SlotAccounting'
    OBVIOUS
  <1> USE DEF transferVars, clientVars
  <1>0. Stamps \subseteq Nat
    BY DEF Stamps
  <1>a. CASE UNCHANGED <<mode, downloads, session, reservation>>
    BY <1>a DEF SlotAccounting, RetrievalMode, HeldSessions, CountedDownloads
  <1>1. CASE Tick \/ RevokeTransfer \/ FailCleanupStep \/ Restart \/ UNCHANGED vars
    BY <1>1, <1>a DEF Tick, RevokeTransfer, FailCleanupStep, Restart, vars
  <1>2. ASSUME NEW c \in Recipients, TicketStep(c) PROVE SlotAccounting'
    <2>1. CASE \/ \E u \in Uploads, s \in Sessions \cup {None} : CheckTicketRequest(c, u, s)
               \/ DropTicketRequest(c) \/ AnswerTicketRequest(c)
      BY <2>1, <1>a DEF CheckTicketRequest, DropTicketRequest, AnswerTicketRequest
    <2>2. CASE ReserveInSession(c)
      <3>1. RetrievalMode /\ mode' = mode /\ downloads' = downloads /\ session' = session
        BY <2>2 DEF ReserveInSession
      <3>2. HeldSessions' = HeldSessions
        BY <3>1 DEF HeldSessions
      <3>3. QED BY <3>1, <3>2, KeepSlots
    <2>3. CASE ReserveInNewSession(c)
      <3>1. PICK t \in Stamps, s \in Sessions :
              /\ session[s].status = "none"
              /\ session' = [session EXCEPT ![s] =
                    [status |-> "provisional", key |-> c, expires |-> t + ProvisionalLifetime,
                     hard |-> t + SessionLifetime]]
        BY <2>3 DEF ReserveInNewSession
      <3>2. /\ \A q \in Sessions : q # s => session'[q] = session[q]
            /\ session'[s].status = "provisional"
        BY <3>1 DEF TypeInv, TypeOK
      <3>3. HeldSessions' = HeldSessions \cup {s} /\ s \notin HeldSessions
        BY <3>1, <3>2 DEF HeldSessions
      <3>4. Cardinality(HeldSessions') = Cardinality(HeldSessions) + 1
        BY <3>3, SlotSetsFinite, FS_AddElement
      <3>5. /\ RetrievalMode /\ RetrievalMode'
            /\ downloads < MaxDownloads /\ downloads' = downloads + 1
        BY <2>3 DEF ReserveInNewSession, RetrievalMode
      <3>6. QED
        BY <3>4, <3>5, RetrievalAssumption DEF SlotAccounting, TypeInv, TypeOK
    <2>4. CASE ReserveLegacy(c)
      <3>1. PICK t \in Stamps, r \in Reservations :
              \/ reservation' = [reservation EXCEPT ![r] = Prolonged(@, t + ReservationLifetime)]
              \/ /\ reservation[r].status = "none"
                 /\ reservation' = [m \in Reservations |->
                      IF m = r
                      THEN Reserved(request[c].upload, None, c, t + ReservationLifetime)
                      ELSE IF /\ reservation[m].status = "reserved"
                              /\ reservation[m].upload = request[c].upload
                              /\ reservation[m].key = c
                      THEN Released(reservation[m])
                      ELSE reservation[m]]
        BY <2>4 DEF ReserveLegacy
      <3>2. mode' = mode /\ downloads' = downloads /\ ~RetrievalMode
        BY <2>4 DEF ReserveLegacy
      <3>3. CASE reservation' = [reservation EXCEPT ![r] = Prolonged(@, t + ReservationLifetime)]
        <4>1. \A m \in Reservations : /\ reservation'[m].status = reservation[m].status
                                      /\ reservation'[m].hard = reservation[m].hard
                                      /\ reservation'[m].actual = reservation[m].actual
          BY <3>3 DEF TypeInv, TypeOK, Prolonged, ReservationRow
        <4>2. CountedDownloads' = CountedDownloads
          BY <4>1 DEF CountedDownloads
        <4>3. QED BY <3>2, <4>2, KeepSlots
      <3>4. CASE reservation' # [reservation EXCEPT ![r] = Prolonged(@, t + ReservationLifetime)]
        <4>1. \A m \in Reservations :
                \/ /\ reservation[m].status = "none"
                   /\ reservation'[m].status = "reserved" /\ reservation'[m].hard = 0
                \/ /\ reservation[m].status = "reserved"
                   /\ reservation'[m].status = "released"
                   /\ reservation'[m].hard = reservation[m].hard
                \/ reservation'[m] = reservation[m]
          BY <3>1, <3>4 DEF TypeInv, TypeOK, Released, Reserved, ReservationRow
        <4>2. CountedDownloads' = CountedDownloads
          BY <4>1 DEF CountedDownloads, SessionInv, Links
        <4>3. QED BY <3>2, <4>2, KeepSlots
      <3>5. QED BY <3>3, <3>4
    <2>5. CASE AbortTicketRequest(c)
      <3> DEFINE r == request[c].reservation
                 s == reservation[r].session
      <3>1. r \in Reservations /\ s \in Sessions \cup {None} /\ mode' = mode
        BY <2>5 DEF AbortTicketRequest, RequestsOK, TypeInv, TypeOK, ReservationRow
      <3>2. \A m \in Reservations :
              /\ \/ reservation[m].status = "reserved" /\ reservation'[m].status = "released"
                 \/ reservation'[m].status = reservation[m].status
              /\ reservation'[m].hard = reservation[m].hard
              /\ reservation'[m].actual = reservation[m].actual
        BY <2>5, <3>1 DEF AbortTicketRequest, TypeInv, TypeOK, Released, ReservationRow
      <3>3. CountedDownloads' = CountedDownloads
        BY <3>2, ReleasingKeepsCounted
      <3>4. PICK t \in Stamps :
              \/ /\ s # None /\ session[s].status = "provisional"
                 /\ session' = [session EXCEPT ![s] = SessionAs(@, "released", t)]
                 /\ downloads' = MinusOne(downloads)
              \/ session' = session /\ downloads' = downloads
        BY <2>5 DEF AbortTicketRequest
      <3>5. CASE session' = session /\ downloads' = downloads
        <4>1. HeldSessions' = HeldSessions
          BY <3>5 DEF HeldSessions
        <4>2. QED BY <3>1, <3>3, <3>5, <4>1, KeepSlots
      <3>6. CASE /\ s # None /\ session[s].status = "provisional"
                 /\ session' = [session EXCEPT ![s] = SessionAs(@, "released", t)]
                 /\ downloads' = MinusOne(downloads)
        <4>1. /\ s \in Sessions /\ session'[s].status = "released"
              /\ \A q \in Sessions : q # s => session'[q] = session[q]
          BY <3>1, <3>6 DEF TypeInv, TypeOK, SessionAs, SessionRow
        <4>2. HeldSessions' = HeldSessions \ {s} /\ s \in HeldSessions
          BY <3>6, <4>1 DEF HeldSessions
        <4>3. Cardinality(HeldSessions') = Cardinality(HeldSessions) - 1
          BY <4>2, SlotSetsFinite, FS_RemoveElement
        <4>4. Cardinality(HeldSessions) \in Nat /\ Cardinality(HeldSessions) # 0
          BY <4>2, SlotSetsFinite, FS_CardinalityType, FS_EmptySet
        <4>5. RetrievalMode /\ RetrievalMode'
          BY <3>1, <3>6, <4>1 DEF SessionInv, LegacyHasNoSessions, RetrievalMode
        <4>6. QED
          BY <3>6, <4>3, <4>4, <4>5, RetrievalAssumption DEF SlotAccounting, MinusOne
      <3>7. QED BY <3>4, <3>5, <3>6
    <2>6. QED BY <1>2, <2>1, <2>2, <2>3, <2>4, <2>5 DEF TicketStep
  <1>3. ASSUME NEW r \in Reservations, DownloadStep(r) PROVE SlotAccounting'
    <2>1. CASE BeginDownload(r)
      <3> DEFINE s == reservation[r].session
      <3>1. PICK t \in Stamps :
              /\ reservation[r].status = "reserved"
              /\ \/ /\ reservation' = [reservation EXCEPT ![r] = Begun(@, t + MaxStream)]
                    /\ s = None /\ session' = session
                    /\ downloads < MaxDownloads /\ downloads' = downloads + 1
                 \/ /\ reservation' = [reservation EXCEPT ![r] = Begun(@, t + MaxStream)]
                    /\ s # None /\ session[s].status \in {"provisional", "active"}
                    /\ session' = [session EXCEPT ![s] = SessionAs(@, "active", @.hard)]
                    /\ downloads' = downloads
                 \/ /\ reservation' = [reservation EXCEPT ![r] = Released(@)]
                    /\ session' = session
                    /\ downloads' = downloads
        BY <2>1 DEF BeginDownload, Usable
      <3>2. mode' = mode /\ t + MaxStream > 0 /\ s \in Sessions \cup {None}
        BY <2>1, <1>0, RetrievalAssumption DEF BeginDownload, TypeInv, TypeOK, ReservationRow
      <3>3. CASE /\ reservation' = [reservation EXCEPT ![r] = Released(@)]
                 /\ session' = session /\ downloads' = downloads
        <4>1. \A m \in Reservations :
                /\ \/ reservation[m].status = "reserved" /\ reservation'[m].status = "released"
                   \/ reservation'[m].status = reservation[m].status
                /\ reservation'[m].hard = reservation[m].hard
                /\ reservation'[m].actual = reservation[m].actual
          BY <3>1, <3>3 DEF TypeInv, TypeOK, Released, ReservationRow
        <4>2. CountedDownloads' = CountedDownloads
          BY <4>1, ReleasingKeepsCounted
        <4>3. HeldSessions' = HeldSessions
          BY <3>3 DEF HeldSessions
        <4>4. QED BY <3>2, <3>3, <4>2, <4>3, KeepSlots
      <3>4. CASE /\ reservation' = [reservation EXCEPT ![r] = Begun(@, t + MaxStream)]
                 /\ s = None /\ session' = session
                 /\ downloads < MaxDownloads /\ downloads' = downloads + 1
        <4>1. /\ \A m \in Reservations : m # r => reservation'[m] = reservation[m]
              /\ reservation'[r].status = "consuming"
              /\ reservation'[r].hard = t + MaxStream
          BY <3>4 DEF TypeInv, TypeOK, Begun, ReservationRow
        <4>2. ~RetrievalMode /\ ~RetrievalMode' /\ reservation[r].hard = 0
          BY <3>1, <3>2, <3>4 DEF SessionInv, Links, RetrievalMode
        <4>3. CountedDownloads' = CountedDownloads \cup {r} /\ r \notin CountedDownloads
          BY <3>2, <4>1, <4>2 DEF CountedDownloads
        <4>4. Cardinality(CountedDownloads') = Cardinality(CountedDownloads) + 1
          BY <4>3, SlotSetsFinite, FS_AddElement
        <4>5. QED
          BY <3>4, <4>2, <4>4, RetrievalAssumption DEF SlotAccounting, TypeInv, TypeOK
      <3>5. CASE /\ reservation' = [reservation EXCEPT ![r] = Begun(@, t + MaxStream)]
                 /\ s # None /\ session[s].status \in {"provisional", "active"}
                 /\ session' = [session EXCEPT ![s] = SessionAs(@, "active", @.hard)]
                 /\ downloads' = downloads
        <4>1. /\ s \in Sessions /\ session'[s].status = "active"
              /\ \A q \in Sessions : q # s => session'[q] = session[q]
          BY <3>2, <3>5 DEF TypeInv, TypeOK, SessionAs, SessionRow
        <4>2. HeldSessions' = HeldSessions
          BY <3>5, <4>1 DEF HeldSessions
        <4>3. RetrievalMode
          BY <3>1, <3>5 DEF SessionInv, Links
        <4>4. QED BY <3>2, <3>5, <4>2, <4>3, KeepSlots
      <3>6. QED BY <3>1, <3>3, <3>4, <3>5
    <2>2. ASSUME NEW reported \in Reports, SettleDownload(r, reported) PROVE SlotAccounting'
      <3>1. DecodedBytes(reported) \in 0..FileLength /\ mode' = mode
        BY <2>2, DecodedBytesType DEF SettleDownload
      <3>2. PICK t \in Stamps :
              \/ SettleFinal(r, DecodedBytes(reported), t)
              \/ /\ reservation[r].status = "consuming"
                 /\ reservation' = [reservation EXCEPT
                                      ![r] = Progressed(@, DecodedBytes(reported))]
                 /\ session' = session /\ downloads' = downloads
        BY <2>2 DEF SettleDownload
      <3>3. CASE SettleFinal(r, DecodedBytes(reported), t)
        BY <3>1, <3>3, <1>0, SettleFinalSlots
      <3>4. CASE /\ reservation[r].status = "consuming"
                 /\ reservation' = [reservation EXCEPT
                                      ![r] = Progressed(@, DecodedBytes(reported))]
                 /\ session' = session /\ downloads' = downloads
        <4>1. \A m \in Reservations :
                /\ reservation'[m].status = reservation[m].status
                /\ reservation'[m].hard = reservation[m].hard
                /\ reservation[m].status # "consuming" => reservation'[m] = reservation[m]
          BY <3>4 DEF TypeInv, TypeOK, Progressed, ReservationRow
        <4>2. CountedDownloads' = CountedDownloads
          BY <4>1 DEF CountedDownloads
        <4>3. HeldSessions' = HeldSessions
          BY <3>4 DEF HeldSessions
        <4>4. QED BY <3>1, <3>4, <4>2, <4>3, KeepSlots
      <3>5. QED BY <3>2, <3>3, <3>4
    <2>3. QED BY <1>3, <2>1, <2>2 DEF DownloadStep
  <1>4. CASE CleanupStep
    <2>1. CASE ReleaseExpiredReservations
      <3>1. \A m \in Reservations :
              /\ \/ reservation[m].status = "reserved" /\ reservation'[m].status = "released"
                 \/ reservation'[m].status = reservation[m].status
              /\ reservation'[m].hard = reservation[m].hard
              /\ reservation'[m].actual = reservation[m].actual
        BY <2>1 DEF ReleaseExpiredReservations, TypeInv, TypeOK, Released, ReservationRow
      <3>2. mode' = mode /\ session' = session /\ downloads' = downloads
        BY <2>1 DEF ReleaseExpiredReservations
      <3>3. CountedDownloads' = CountedDownloads
        BY <3>1, ReleasingKeepsCounted
      <3>4. HeldSessions' = HeldSessions
        BY <3>2 DEF HeldSessions
      <3>5. QED BY <3>2, <3>3, <3>4, KeepSlots
    <2>2. ASSUME NEW x \in worker.streams, ForceSettleStream(x) PROVE SlotAccounting'
      <3>1. x.id \in Reservations /\ x.actual \in 0..FileLength /\ worker.now \in Nat
        BY <2>2 DEF TypeInv, TypeOK, WorkerState
      <3>2. QED BY <2>2, <3>1, <1>a, SettleFinalSlots DEF ForceSettleStream
    <2>3. CASE ReleaseExpiredSessions
      <3> DEFINE unused == {s \in Sessions : ReturnsSlot(s, worker.now)}
      <3>1. \A m \in Reservations :
              /\ \/ reservation[m].status = "reserved" /\ reservation'[m].status = "released"
                 \/ reservation'[m].status = reservation[m].status
              /\ reservation'[m].hard = reservation[m].hard
              /\ reservation'[m].actual = reservation[m].actual
        BY <2>3 DEF ReleaseExpiredSessions, TypeInv, TypeOK, Released, ReservationRow
      <3>2. \A s \in Sessions :
              \/ s \in unused /\ session'[s].status = "released"
              \/ s \notin unused /\ session'[s].status = session[s].status
              \/ /\ s \notin unused /\ session[s].status = "active"
                 /\ session'[s].status = "closed"
        BY <2>3 DEF ReleaseExpiredSessions, TypeInv, TypeOK, SessionAs, SessionRow
      <3>3. unused \subseteq HeldSessions
        BY DEF ReturnsSlot, HeldSessions
      <3>4. mode' = mode
            /\ downloads' = IF Cardinality(unused) <= downloads
                            THEN downloads - Cardinality(unused) ELSE 0
        BY <2>3 DEF ReleaseExpiredSessions
      <3>5. IsFiniteSet(unused) /\ Cardinality(unused) \in Nat
        BY <3>3, SlotSetsFinite, FS_Subset, FS_CardinalityType
      <3>6. CASE RetrievalMode
        <4>1. HeldSessions' = HeldSessions \ unused
          BY <3>2 DEF HeldSessions
        <4>2. HeldSessions \cap unused = unused
          BY <3>3
        <4>3. Cardinality(HeldSessions') = Cardinality(HeldSessions) - Cardinality(unused)
          BY <4>1, <4>2, SlotSetsFinite, FS_Difference
        <4>4. /\ Cardinality(unused) <= Cardinality(HeldSessions)
              /\ Cardinality(HeldSessions) \in Nat
          BY <3>3, SlotSetsFinite, FS_Subset, FS_CardinalityType
        <4>5. RetrievalMode'
          BY <3>4, <3>6 DEF RetrievalMode
        <4>6. QED
          BY <3>4, <3>5, <3>6, <4>3, <4>4, <4>5, RetrievalAssumption DEF SlotAccounting
      <3>7. CASE ~RetrievalMode
        <4>1. unused = {}
          BY <3>7 DEF ReturnsSlot, SessionInv, LegacyHasNoSessions
        <4>2. downloads' = downloads
          <5>1. Cardinality(unused) = 0
            BY <4>1, FS_EmptySet
          <5>2. QED BY <3>4, <5>1 DEF TypeInv, TypeOK
        <4>3. CountedDownloads' = CountedDownloads
          BY <3>1, ReleasingKeepsCounted
        <4>4. QED BY <3>4, <3>7, <4>2, <4>3, KeepSlots
      <3>8. QED BY <3>6, <3>7
    <2>4. CASE MaintenanceCandidates \/ (\E u \in worker.list : DeleteCandidate(u)) \/ FinishCleanup
      BY <2>4, <1>a DEF MaintenanceCandidates, DeleteCandidate, FinishCleanup
    <2>5. QED BY <1>4, <2>1, <2>2, <2>3, <2>4 DEF CleanupStep
  <1>5. QED BY <1>1, <1>2, <1>3, <1>4 DEF Next

LEMMA InitSlotAccounting == Init => SlotAccounting
  <1>1. Init => HeldSessions = {} /\ CountedDownloads = {}
    BY DEF Init, HeldSessions, CountedDownloads, EmptySession, EmptyReservation
  <1>2. QED BY <1>1, FS_EmptySet, RetrievalAssumption DEF Init, SlotAccounting

SlotInv == TypeInv /\ SessionInv /\ SlotAccounting

LEMMA SlotInvInvariant == Spec => []SlotInv
  <1>1. Init => SlotInv
    BY InitTypeInv, InitSessionInv, InitSlotAccounting DEF SlotInv
  <1>2. SlotInv /\ [Next]_vars => SlotInv'
    BY NextTypeInv, NextSessionInv, NextSlotAccounting DEF SlotInv
  <1>3. QED BY <1>1, <1>2, PTL DEF Spec

\* The counter that admits retrievals equals what it counts and never passes
\* max_downloads, whatever the interleaving of tickets, aborts, begins,
\* settlements, expiries and restarts, for every number of recipients,
\* sessions, reservations and files.
THEOREM SlotsAreAccounted == Spec => []SlotAccounting
  <1>1. SlotInv => SlotAccounting
    BY DEF SlotInv
  <1>2. QED BY <1>1, SlotInvInvariant, PTL

\* A slot is given back only by a session in which no download ever began.
THEOREM OnlyUnusedSlotsAreReturned == Spec => OnlyUnusedSlotsReturn
  <1> DEFINE Returned == \A s \in Sessions :
                session[s].status # "released" /\ session'[s].status = "released"
                => \A r \in Reservations : reservation[r].session = s => reservation[r].hard = 0
  <1>1. SlotInv /\ [Next]_vars => [Returned]_vars
    <2> SUFFICES ASSUME SlotInv, Next, NEW s \in Sessions,
                        session[s].status # "released", session'[s].status = "released"
                 PROVE  session[s].status = "provisional"
      BY RetrievalAssumption DEF SlotInv, SessionInv, ProvisionalUnused
    <2> USE DEF transferVars, clientVars
    <2>1. CASE UNCHANGED session
      BY <2>1
    <2>2. ASSUME NEW c \in Recipients, TicketStep(c) PROVE session[s].status = "provisional"
      <3>1. CASE AbortTicketRequest(c)
        <4>1. PICK q \in Sessions \cup {None}, t \in Stamps :
                \/ /\ session[q].status = "provisional" /\ q # None
                   /\ session' = [session EXCEPT ![q] = SessionAs(@, "released", t)]
                \/ session' = session
          BY <3>1 DEF AbortTicketRequest, SlotInv, TypeInv, TypeOK, RequestsOK, ReservationRow
        <4>2. QED BY <4>1, <2>1 DEF SlotInv, TypeInv, TypeOK
      <3>2. CASE ReserveInNewSession(c)
        BY <3>2 DEF ReserveInNewSession, SlotInv, TypeInv, TypeOK
      <3>3. QED
        BY <2>1, <2>2, <3>1, <3>2
        DEF TicketStep, CheckTicketRequest, ReserveInSession, ReserveLegacy,
            DropTicketRequest, AnswerTicketRequest
    <2>3. ASSUME NEW r \in Reservations, DownloadStep(r) PROVE session[s].status = "provisional"
      <3>1. CASE BeginDownload(r)
        <4>1. \/ /\ reservation[r].session # None
                 /\ session' = [session EXCEPT ![reservation[r].session] =
                                  SessionAs(@, "active", @.hard)]
              \/ session' = session
          BY <3>1 DEF BeginDownload
        <4>2. \A q \in Sessions : SessionAs(session[q], "active", session[q].hard).status = "active"
          BY DEF SlotInv, TypeInv, TypeOK, SessionAs, SessionRow
        <4>3. QED BY <4>1, <4>2, <2>1 DEF SlotInv, TypeInv, TypeOK
      <3>2. ASSUME NEW reported \in Reports, SettleDownload(r, reported)
            PROVE  session[s].status = "provisional"
        <4>1. PICK t \in Stamps :
                \/ session' = [session EXCEPT ![reservation[r].session] = SessionAs(@, "closed", t)]
                \/ session' = session
          BY <3>2 DEF SettleDownload, SettleFinal
        <4>2. \A q \in Sessions : SessionAs(session[q], "closed", t).status = "closed"
          BY DEF SlotInv, TypeInv, TypeOK, SessionAs, SessionRow
        <4>3. QED BY <4>1, <4>2, <2>1 DEF SlotInv, TypeInv, TypeOK
      <3>3. QED BY <2>3, <3>1, <3>2 DEF DownloadStep
    <2>4. CASE CleanupStep
      <3>1. CASE ReleaseExpiredSessions
        BY <3>1 DEF ReleaseExpiredSessions, ReturnsSlot, SlotInv, TypeInv, TypeOK, SessionAs, SessionRow
      <3>2. ASSUME NEW x \in worker.streams, ForceSettleStream(x)
            PROVE  session[s].status = "provisional"
        <4>1. \/ session' = [session EXCEPT ![reservation[x.id].session] =
                               SessionAs(@, "closed", worker.now)]
              \/ session' = session
          BY <3>2 DEF ForceSettleStream, SettleFinal
        <4>2. \A q \in Sessions : SessionAs(session[q], "closed", worker.now).status = "closed"
          BY DEF SlotInv, TypeInv, TypeOK, SessionAs, SessionRow
        <4>3. QED BY <4>1, <4>2, <2>1 DEF SlotInv, TypeInv, TypeOK
      <3>3. QED
        BY <2>1, <2>4, <3>1, <3>2
        DEF CleanupStep, ReleaseExpiredReservations, MaintenanceCandidates, DeleteCandidate,
            FinishCleanup
    <2>5. QED
      BY <2>1, <2>2, <2>3, <2>4 DEF Next, Tick, RevokeTransfer, FailCleanupStep, Restart
  <1>2. QED BY <1>1, SlotInvInvariant, PTL DEF Spec, OnlyUnusedSlotsReturn

-----------------------------------------------------------------------------
(* The status of the transfer *)

StatusInv ==
    /\ StatusTracksSlots
    /\ status = "exhausted" => RetrievalMode
    /\ worker.now <= now

LEMMA InitStatusInv == Init => StatusInv
  BY RetrievalAssumption DEF Init, StatusInv, StatusTracksSlots, IdleWorker

\* A slot returned at time t, not after now, reopens the transfer.
LEMMA ReturnedSlotReopens ==
  ASSUME TypeInv, StatusInv, SlotAccounting, RetrievalMode,
         NEW t \in Nat, t <= now, now' = now, mode' = mode, worker'.now <= now',
         downloads' \in Nat, downloads' < downloads, status' = ReopenedStatus(t)
  PROVE  StatusInv'
  <1>1. /\ downloads' < MaxDownloads /\ RetrievalMode'
        /\ now \in Nat /\ status \in TransferStatus
    BY RetrievalAssumption DEF SlotAccounting, RetrievalMode, TypeInv, TypeOK
  <1>2. status' = "exhausted" => TransferLifetime <= now
    BY <1>1, RetrievalAssumption DEF ReopenedStatus
  <1>3. QED
    BY <1>1, <1>2, RetrievalAssumption DEF StatusInv, StatusTracksSlots

LEMMA NextStatusInv ==
  SlotInv /\ StatusInv /\ [Next]_vars => StatusInv'
  <1> SUFFICES ASSUME SlotInv, StatusInv, [Next]_vars PROVE StatusInv'
    OBVIOUS
  <1> USE DEF transferVars, clientVars
  <1>0. TypeInv /\ SessionInv /\ SlotAccounting /\ now \in Nat /\ downloads \in Nat
    BY DEF SlotInv, TypeInv, TypeOK
  <1>t. \A t \in Stamps : t \in Nat /\ t <= now
    BY <1>0 DEF Stamps
  <1>a. CASE UNCHANGED <<now, mode, status, downloads, worker>>
    BY <1>a DEF StatusInv, StatusTracksSlots, RetrievalMode
  <1>b. ASSUME UNCHANGED <<now, mode, status, downloads>>, worker'.now <= now PROVE StatusInv'
    BY <1>b DEF StatusInv, StatusTracksSlots, RetrievalMode
  <1>1. CASE Tick
    BY <1>1, <1>0, RetrievalAssumption DEF Tick, StatusInv, StatusTracksSlots, RetrievalMode, TypeInv, TypeOK, WorkerState
  <1>2. ASSUME NEW c \in Recipients, TicketStep(c) PROVE StatusInv'
    <2>1. CASE \/ \E u \in Uploads, s \in Sessions \cup {None} : CheckTicketRequest(c, u, s)
               \/ DropTicketRequest(c) \/ AnswerTicketRequest(c)
               \/ ReserveInSession(c) \/ ReserveLegacy(c)
      BY <2>1, <1>a DEF CheckTicketRequest, DropTicketRequest, AnswerTicketRequest,
                        ReserveInSession, ReserveLegacy
    <2>2. CASE ReserveInNewSession(c)
      <3>1. /\ RetrievalMode /\ status = "active" /\ downloads < MaxDownloads
            /\ downloads' = downloads + 1
            /\ status' = IF downloads + 1 >= MaxDownloads THEN "exhausted" ELSE status
            /\ UNCHANGED <<now, mode, worker>>
        BY <2>2 DEF ReserveInNewSession
      <3>2. QED
        BY <3>1, <1>0, RetrievalAssumption DEF StatusInv, StatusTracksSlots, RetrievalMode
    <2>3. CASE AbortTicketRequest(c)
      <3> DEFINE s == reservation[request[c].reservation].session
      <3>1. s \in Sessions \cup {None} /\ UNCHANGED <<now, mode, worker>>
        BY <2>3, <1>0 DEF AbortTicketRequest, RequestsOK, TypeInv, TypeOK, ReservationRow
      <3>2. PICK t \in Stamps :
              \/ /\ s # None /\ session[s].status = "provisional"
                 /\ downloads' = MinusOne(downloads)
                 /\ status' = ReopenedStatus(t)
              \/ status' = status /\ downloads' = downloads
        BY <2>3 DEF AbortTicketRequest
      <3>3. CASE status' = status /\ downloads' = downloads
        BY <3>1, <3>3, <1>a
      <3>4. CASE /\ s # None /\ session[s].status = "provisional"
                 /\ downloads' = MinusOne(downloads)
                 /\ status' = ReopenedStatus(t)
        <4>1. s \in HeldSessions /\ RetrievalMode
          BY <3>1, <3>4, <1>0 DEF HeldSessions, SessionInv, LegacyHasNoSessions
        <4>2. Cardinality(HeldSessions) # 0
          BY <4>1, SlotSetsFinite, FS_EmptySet
        <4>3. downloads' \in Nat /\ downloads' < downloads
          BY <3>4, <4>1, <4>2, <1>0 DEF SlotAccounting, MinusOne
        <4>4. QED
          BY <3>1, <3>4, <4>1, <4>3, <1>0, <1>t, ReturnedSlotReopens DEF StatusInv
      <3>5. QED BY <3>2, <3>3, <3>4
    <2>4. QED BY <1>2, <2>1, <2>2, <2>3 DEF TicketStep
  <1>3. ASSUME NEW r \in Reservations, DownloadStep(r) PROVE StatusInv'
    <2>1. RetrievalMode => downloads' = downloads
      <3> SUFFICES ASSUME RetrievalMode PROVE downloads' = downloads
        OBVIOUS
      <3>1. reservation[r].status \in {"reserved", "consuming"} => reservation[r].session # None
        BY <1>0 DEF SessionInv, Links
      <3>2. CASE BeginDownload(r)
        BY <3>1, <3>2 DEF BeginDownload
      <3>3. ASSUME NEW reported \in Reports, SettleDownload(r, reported) PROVE downloads' = downloads
        BY <3>1, <3>3 DEF SettleDownload, SettleFinal
      <3>4. QED BY <1>3, <3>2, <3>3 DEF DownloadStep
    <2>2. UNCHANGED <<now, mode, status, worker>>
      BY <1>3 DEF DownloadStep, BeginDownload, SettleDownload
    <2>3. QED BY <2>1, <2>2 DEF StatusInv, StatusTracksSlots, RetrievalMode
  <1>4. CASE RevokeTransfer
    BY <1>4 DEF RevokeTransfer, StatusInv, StatusTracksSlots, RetrievalMode
  <1>5. CASE CleanupStep
    <2>1. CASE ReleaseExpiredReservations
      BY <2>1, <1>0, <1>b DEF ReleaseExpiredReservations
    <2>2. ASSUME NEW x \in worker.streams, ForceSettleStream(x) PROVE StatusInv'
      <3>1. x.id \in Reservations
        BY <1>0 DEF TypeInv, TypeOK, WorkerState
      <3>2. RetrievalMode => downloads' = downloads
        BY <2>2, <3>1, <1>0 DEF ForceSettleStream, SettleFinal, SessionInv, Links
      <3>3. UNCHANGED <<now, mode, status>> /\ worker'.now = worker.now
        BY <2>2, <1>0 DEF ForceSettleStream, TypeInv, TypeOK, WorkerState
      <3>4. QED BY <3>2, <3>3 DEF StatusInv, StatusTracksSlots, RetrievalMode
    <2>3. CASE ReleaseExpiredSessions
      <3> DEFINE unused == {s \in Sessions : ReturnsSlot(s, worker.now)}
      <3>1. /\ downloads' = IF Cardinality(unused) <= downloads
                            THEN downloads - Cardinality(unused) ELSE 0
            /\ status' = IF unused # {} THEN ReopenedStatus(worker.now) ELSE status
            /\ UNCHANGED <<now, mode>>
        BY <2>3 DEF ReleaseExpiredSessions
      <3>2. worker'.now = worker.now /\ worker.now \in Nat
        BY <2>3, <1>0 DEF ReleaseExpiredSessions, TypeInv, TypeOK, WorkerState
      <3>3. unused \subseteq HeldSessions
        BY DEF ReturnsSlot, HeldSessions
      <3>4. IsFiniteSet(unused) /\ Cardinality(unused) \in Nat
            /\ (Cardinality(unused) = 0 <=> unused = {})
        BY <3>3, SlotSetsFinite, FS_Subset, FS_CardinalityType, FS_EmptySet
      <3>5. CASE unused = {}
        <4>1. downloads' = downloads /\ status' = status
          BY <3>1, <3>4, <3>5, <1>0
        <4>2. QED BY <3>1, <3>2, <4>1, <1>b DEF StatusInv
      <3>6. CASE unused # {}
        <4>1. RetrievalMode
          BY <3>6, <1>0 DEF ReturnsSlot, SessionInv, LegacyHasNoSessions
        <4>2. Cardinality(unused) <= downloads
          BY <3>3, <4>1, SlotSetsFinite, FS_Subset, <1>0 DEF SlotAccounting
        <4>3. downloads' \in Nat /\ downloads' < downloads
          BY <3>1, <3>4, <3>6, <4>2, <1>0
        <4>4. QED
          BY <3>1, <3>2, <3>6, <4>1, <4>3, <1>0, ReturnedSlotReopens DEF StatusInv
      <3>7. QED BY <3>5, <3>6
    <2>4. CASE MaintenanceCandidates
      <3>1. /\ status' = status \/ status' = "expired"
            /\ UNCHANGED <<now, mode, downloads>>
        BY <2>4 DEF MaintenanceCandidates
      <3>2. worker'.now = worker.now
        BY <2>4, <1>0 DEF MaintenanceCandidates, TypeInv, TypeOK, WorkerState
      <3>3. QED BY <3>1, <3>2 DEF StatusInv, StatusTracksSlots, RetrievalMode
    <2>5. ASSUME NEW u \in worker.list, DeleteCandidate(u) PROVE StatusInv'
      <3>1. worker'.now = worker.now
        BY <2>5, <1>0 DEF DeleteCandidate, TypeInv, TypeOK, WorkerState
      <3>2. QED BY <2>5, <3>1, <1>b DEF DeleteCandidate, StatusInv
    <2>6. CASE FinishCleanup
      BY <2>6, <1>0, <1>b DEF FinishCleanup, IdleWorker
    <2>7. QED BY <1>5, <2>1, <2>2, <2>3, <2>4, <2>5, <2>6 DEF CleanupStep
  <1>6. CASE FailCleanupStep
    <2>1. worker'.now \in {worker.now, now, 0}
      BY <1>6, <1>0 DEF FailCleanupStep, TypeInv, TypeOK, WorkerState, IdleWorker
    <2>2. worker'.now <= now
      BY <2>1, <1>0 DEF StatusInv
    <2>3. QED BY <1>6, <2>2, <1>b DEF FailCleanupStep
  <1>7. CASE Restart
    BY <1>7, <1>0, <1>b DEF Restart, IdleWorker
  <1>8. CASE UNCHANGED vars
    BY <1>8, <1>a DEF vars
  <1>9. QED BY <1>1, <1>2, <1>3, <1>4, <1>5, <1>6, <1>7, <1>8 DEF Next

\* The status of a retrieval transfer agrees with its counter: every slot that
\* an abort or an expired session returns reopens the transfer.
THEOREM StatusFollowsSlots == Spec => []StatusTracksSlots
  <1>1. Init => SlotInv /\ StatusInv
    BY InitTypeInv, InitSessionInv, InitSlotAccounting, InitStatusInv DEF SlotInv
  <1>2. SlotInv /\ StatusInv /\ [Next]_vars => (SlotInv /\ StatusInv)'
    BY NextTypeInv, NextSessionInv, NextSlotAccounting, NextStatusInv DEF SlotInv
  <1>3. Spec => [](SlotInv /\ StatusInv)
    BY <1>1, <1>2, PTL DEF Spec
  <1>4. StatusInv => StatusTracksSlots
    BY DEF StatusInv
  <1>5. QED BY <1>3, <1>4, PTL

-----------------------------------------------------------------------------
(* Deletion on exhaustion *)

\* While the worker holds a list of files to delete, what made the list due
\* stays true: the transfer is over, or it is exhausted with nothing open, and
\* then nothing can be opened any more.
DeletionInv ==
    worker.list # {} =>
        /\ worker.step = "deleting"
        /\ \/ status \in {"expired", "revoked"}
           \/ status = "exhausted" /\ Quiet

DeletionIInv == SlotInv /\ StatusInv /\ DeletionInv

\* An exhausted transfer with nothing open stays so, but for the worker.
LEMMA QuietIsStable ==
  ASSUME SlotInv, StatusInv, status = "exhausted", Quiet,
         \/ \E c \in Recipients : TicketStep(c)
         \/ \E r \in Reservations : DownloadStep(r)
  PROVE  status' = "exhausted" /\ Quiet'
  <1> USE DEF transferVars, clientVars
  <1>0. RetrievalMode /\ TypeInv /\ SessionInv
    BY DEF StatusInv, SlotInv
  <1>a. CASE UNCHANGED <<status, session, reservation>>
    BY <1>a DEF Quiet
  <1>1. ASSUME NEW c \in Recipients, TicketStep(c) PROVE status' = "exhausted" /\ Quiet'
    <2>1. CASE \/ \E u \in Uploads, s \in Sessions \cup {None} : CheckTicketRequest(c, u, s)
               \/ DropTicketRequest(c) \/ AnswerTicketRequest(c)
      BY <2>1, <1>a DEF CheckTicketRequest, DropTicketRequest, AnswerTicketRequest
    <2>2. ~ReserveInSession(c)
      BY <1>0 DEF ReserveInSession, Reusable, Usable, Quiet, TypeInv, TypeOK, RequestRow
    <2>3. ~ReserveInNewSession(c)
      BY DEF ReserveInNewSession
    <2>4. ~ReserveLegacy(c)
      BY <1>0 DEF ReserveLegacy
    <2>5. CASE AbortTicketRequest(c)
      <3>1. request[c].reservation \in Reservations
            /\ reservation[request[c].reservation].session \in Sessions \cup {None}
        BY <2>5, <1>0 DEF AbortTicketRequest, RequestsOK, TypeInv, TypeOK, ReservationRow
      <3>2. status' = status /\ session' = session
        BY <2>5, <3>1 DEF AbortTicketRequest, Quiet
      <3>3. \A m \in Reservations : reservation'[m].status \in {reservation[m].status, "released"}
        BY <2>5, <3>1, <1>0 DEF AbortTicketRequest, TypeInv, TypeOK, Released, ReservationRow
      <3>4. QED BY <3>2, <3>3 DEF Quiet
    <2>6. QED BY <1>1, <2>1, <2>2, <2>3, <2>4, <2>5 DEF TicketStep
  <1>2. ASSUME NEW r \in Reservations, DownloadStep(r) PROVE status' = "exhausted" /\ Quiet'
    <2>1. CASE BeginDownload(r)
      <3>1. reservation[r].session \in Sessions
        BY <2>1, <1>0 DEF BeginDownload, SessionInv, Links, TypeInv, TypeOK, ReservationRow
      <3>2. \A t : ~Usable(reservation[r].session, t)
        BY <3>1 DEF Usable, Quiet
      <3>3. /\ reservation' = [reservation EXCEPT ![r] = Released(@)]
            /\ session' = session /\ status' = status
        BY <2>1, <3>1, <3>2, RetrievalAssumption DEF BeginDownload
      <3>4. \A m \in Reservations : reservation'[m].status \in {reservation[m].status, "released"}
        BY <3>3, <1>0 DEF TypeInv, TypeOK, Released, ReservationRow
      <3>5. QED BY <3>3, <3>4 DEF Quiet
    <2>2. ASSUME NEW reported \in Reports, SettleDownload(r, reported)
          PROVE  status' = "exhausted" /\ Quiet'
      <3>1. reservation[r].status # "consuming"
        BY DEF Quiet
      <3>2. /\ reservation' = [reservation EXCEPT ![r] = Settled(@, DecodedBytes(reported))]
            /\ session' = session /\ status' = status
        BY <2>2, <3>1 DEF SettleDownload, SettleFinal
      <3>3. \A m \in Reservations : reservation'[m].status \in {reservation[m].status, "settled"}
        BY <3>2, <1>0 DEF TypeInv, TypeOK, Settled, ReservationRow
      <3>4. QED BY <3>2, <3>3 DEF Quiet
    <2>3. QED BY <1>2, <2>1, <2>2 DEF DownloadStep
  <1>3. QED BY <1>1, <1>2

LEMMA NextDeletionInv == DeletionIInv /\ [Next]_vars => DeletionInv'
  <1> SUFFICES ASSUME DeletionIInv, [Next]_vars PROVE DeletionInv'
    OBVIOUS
  <1> USE DEF transferVars, clientVars
  <1>0. SlotInv /\ StatusInv /\ DeletionInv /\ TypeInv /\ worker \in WorkerState
    BY DEF DeletionIInv, SlotInv, TypeInv, TypeOK
  <1>a. CASE UNCHANGED <<status, session, reservation, worker>>
    BY <1>a, <1>0 DEF DeletionInv, Quiet
  <1>b. CASE worker'.list = {}
    BY <1>b DEF DeletionInv
  <1>1. CASE \/ \E c \in Recipients : TicketStep(c)
             \/ \E r \in Reservations : DownloadStep(r)
    <2>1. worker' = worker
      BY <1>1 DEF TicketStep, CheckTicketRequest, ReserveInSession, ReserveInNewSession,
                  ReserveLegacy, DropTicketRequest, AnswerTicketRequest, AbortTicketRequest,
                  DownloadStep, BeginDownload, SettleDownload
    <2>2. status \in {"expired", "revoked"} => status' = status
      BY ZenonT(40), <1>1 DEF TicketStep, CheckTicketRequest, ReserveInSession, ReserveInNewSession,
                  ReserveLegacy, DropTicketRequest, AnswerTicketRequest, AbortTicketRequest,
                  DownloadStep, BeginDownload, SettleDownload, ReopenedStatus
    <2>3. status = "exhausted" /\ Quiet => status' = "exhausted" /\ Quiet'
      BY <1>1, <1>0, QuietIsStable
    <2>4. QED BY <2>1, <2>2, <2>3, <1>0 DEF DeletionInv
  <1>2. CASE Tick \/ UNCHANGED vars
    BY <1>2, <1>a DEF Tick, vars
  <1>3. CASE RevokeTransfer
    BY <1>3, <1>0 DEF RevokeTransfer, DeletionInv
  <1>4. CASE CleanupStep
    <2>1. CASE ReleaseExpiredReservations
      BY <2>1, <1>b DEF ReleaseExpiredReservations
    <2>2. ASSUME NEW x \in worker.streams, ForceSettleStream(x) PROVE DeletionInv'
      BY <2>2, <1>0, <1>b DEF ForceSettleStream, DeletionInv, WorkerState
    <2>3. CASE ReleaseExpiredSessions
      BY <2>3, <1>0, <1>b DEF ReleaseExpiredSessions, DeletionInv, WorkerState
    <2>4. CASE MaintenanceCandidates
      <3>1. worker'.step = "deleting"
        BY <2>4, <1>0 DEF MaintenanceCandidates, WorkerState
      <3>2. worker'.list # {} => (status' \in {"expired", "revoked"} \/ (status' = "exhausted" /\ Quiet))
        <4> DEFINE due == \/ status' \in {"expired", "revoked"}
                          \/ status' = "exhausted" /\ RetrievalMode /\ Quiet
        <4>1. worker' = [worker EXCEPT !.step = "deleting", !.list = IF due THEN ReadyFiles ELSE {}]
          BY <2>4 DEF MaintenanceCandidates
        <4>2. ~due => worker'.list = {}
          BY <4>1, <1>0 DEF WorkerState
        <4>3. QED BY <4>2
      <3>3. Quiet => Quiet'
        BY <2>4 DEF MaintenanceCandidates, Quiet
      <3>4. QED BY <3>1, <3>2, <3>3 DEF DeletionInv
    <2>5. ASSUME NEW u \in worker.list, DeleteCandidate(u) PROVE DeletionInv'
      <3>1. worker'.list \subseteq worker.list /\ worker'.step = worker.step
        BY <2>5, <1>0 DEF DeleteCandidate, WorkerState
      <3>2. UNCHANGED <<status, session, reservation>>
        BY <2>5 DEF DeleteCandidate
      <3>3. QED BY <3>1, <3>2, <1>0 DEF DeletionInv, Quiet
    <2>6. CASE FinishCleanup
      BY <2>6, <1>b DEF FinishCleanup, IdleWorker
    <2>7. QED BY <1>4, <2>1, <2>2, <2>3, <2>4, <2>5, <2>6 DEF CleanupStep
  <1>5. CASE FailCleanupStep
    <2>1. \/ worker'.list = {}
          \/ worker'.list \subseteq worker.list /\ worker'.step = worker.step
      BY <1>5, <1>0 DEF FailCleanupStep, WorkerState, IdleWorker, DeletionInv
    <2>2. UNCHANGED <<status, session, reservation>>
      BY <1>5 DEF FailCleanupStep
    <2>3. QED BY <2>1, <2>2, <1>0, <1>b DEF DeletionInv, Quiet
  <1>6. CASE Restart
    BY <1>6, <1>b DEF Restart, IdleWorker
  <1>7. QED BY <1>1, <1>2, <1>3, <1>4, <1>5, <1>6 DEF Next

\* A file of an exhausted transfer is deleted only while no session is open and
\* no download streams, although the worker listed it in an earlier step.
THEOREM ExhaustedDeletionWaits == Spec => ExhaustedDeletionIsQuiet
  <1> DEFINE Deleted == \A u \in Uploads :
                uploads[u] = "ready" /\ uploads'[u] = "deleted" /\ status = "exhausted" => Quiet
  <1>1. Init => DeletionIInv
    BY InitTypeInv, InitSessionInv, InitSlotAccounting, InitStatusInv
    DEF DeletionIInv, SlotInv, DeletionInv, Init, IdleWorker
  <1>2. DeletionIInv /\ [Next]_vars => DeletionIInv'
    BY NextTypeInv, NextSessionInv, NextSlotAccounting, NextStatusInv, NextDeletionInv
    DEF DeletionIInv, SlotInv
  <1>3. DeletionIInv /\ [Next]_vars => [Deleted]_vars
    <2> SUFFICES ASSUME DeletionIInv, Next, NEW u \in Uploads, uploads[u] = "ready",
                        uploads'[u] = "deleted", status = "exhausted"
                 PROVE  Quiet
      OBVIOUS
    <2> USE DEF transferVars, clientVars
    <2>1. PICK v \in worker.list : DeleteCandidate(v)
      BY DEF Next, Tick, TicketStep, CheckTicketRequest, ReserveInSession, ReserveInNewSession,
             ReserveLegacy, DropTicketRequest, AnswerTicketRequest, AbortTicketRequest,
             DownloadStep, BeginDownload, SettleDownload, RevokeTransfer, CleanupStep,
             ReleaseExpiredReservations, ForceSettleStream, ReleaseExpiredSessions,
             MaintenanceCandidates, FinishCleanup, FailCleanupStep, Restart
    <2>2. QED BY <2>1 DEF DeletionIInv, DeletionInv
  <1>4. QED BY <1>1, <1>2, <1>3, PTL DEF Spec, ExhaustedDeletionIsQuiet

-----------------------------------------------------------------------------
(* One live reservation for each file of a session *)

Live(r) == reservation[r].status \in {"reserved", "consuming"}

UniqueLive ==
    \A r1, r2 \in Reservations :
        /\ Live(r1) /\ Live(r2)
        /\ reservation[r1].session = reservation[r2].session /\ reservation[r1].session # None
        /\ reservation[r1].upload = reservation[r2].upload
        => r1 = r2

\* A step that makes no row live and moves none preserves it.
LEMMA KeepUniqueLive ==
  ASSUME UniqueLive,
         \A m \in Reservations :
            \/ reservation'[m].status \notin {"reserved", "consuming"}
            \/ reservation'[m].session = None
            \/ /\ Live(m)
               /\ reservation'[m].session = reservation[m].session
               /\ reservation'[m].upload = reservation[m].upload
  PROVE  UniqueLive'
  BY DEF UniqueLive, Live

LEMMA ReserveRowUniqueLive ==
  ASSUME TypeInv, UniqueLive, NEW c \in Recipients, NEW s \in Sessions, NEW u \in Uploads,
         NEW t \in Nat, NEW expires \in Nat, NEW created \in BOOLEAN,
         ReserveRow(c, s, u, t, expires, created)
  PROVE  UniqueLive'
  <1>1. PICK r \in Reservations :
           /\ \A m \in Reservations : m # r => reservation'[m] = reservation[m]
           /\ reservation'[r].status = "reserved"
           /\ reservation'[r].session = s /\ reservation'[r].upload = u
           /\ \/ /\ reservation[r].status = "reserved" /\ reservation[r].session = s
                 /\ reservation[r].upload = u
              \/ LiveRows(s, u) = {} /\ reservation[r].status = "none"
    <2>1. \E r \in Reservations :
            /\ \A m \in Reservations : m # r => reservation'[m] = reservation[m]
            /\ reservation'[r].status = "reserved"
            /\ reservation'[r].session = s /\ reservation'[r].upload = u
            /\ \/ /\ reservation[r].status = "reserved" /\ reservation[r].session = s
                  /\ reservation[r].upload = u /\ reservation'[r].hard = reservation[r].hard
               \/ /\ LiveRows(s, u) = {} /\ reservation[r].status = "none"
                  /\ reservation'[r].hard = 0
      BY ReserveRowRows
    <2>2. QED BY <2>1
  <1>2. CASE reservation[r].status = "reserved" /\ reservation[r].session = s /\ reservation[r].upload = u
    BY <1>1, <1>2 DEF UniqueLive, Live
  <1>3. CASE LiveRows(s, u) = {} /\ reservation[r].status = "none"
    <2>1. \A m \in Reservations :
            Live(m) /\ reservation[m].session = s => reservation[m].upload # u
      BY <1>3 DEF LiveRows, Live
    <2>2. QED BY <1>1, <1>3, <2>1 DEF UniqueLive, Live
  <1>4. QED BY <1>1, <1>2, <1>3

LEMMA NextUniqueLive == TypeInv /\ UniqueLive /\ [Next]_vars => UniqueLive'
  <1> SUFFICES ASSUME TypeInv, UniqueLive, [Next]_vars PROVE UniqueLive'
    OBVIOUS
  <1> USE DEF transferVars, clientVars
  <1>0. Stamps \subseteq Nat
    BY DEF Stamps
  <1>a. CASE UNCHANGED reservation
    BY <1>a DEF UniqueLive, Live
  <1>1. CASE Tick \/ RevokeTransfer \/ FailCleanupStep \/ Restart \/ UNCHANGED vars
    BY <1>1, <1>a DEF Tick, RevokeTransfer, FailCleanupStep, Restart, vars
  <1>2. ASSUME NEW c \in Recipients, TicketStep(c) PROVE UniqueLive'
    <2>1. CASE \/ \E u \in Uploads, s \in Sessions \cup {None} : CheckTicketRequest(c, u, s)
               \/ DropTicketRequest(c) \/ AnswerTicketRequest(c)
      BY <2>1, <1>a DEF CheckTicketRequest, DropTicketRequest, AnswerTicketRequest
    <2>2. CASE ReserveInSession(c)
      <3>1. PICK t \in Stamps, s \in Sessions :
              /\ request[c].phase = "checked"
              /\ ReserveRow(c, s, request[c].upload, t,
                            Least(t + ReservationLifetime, session[s].expires), FALSE)
        BY <2>2 DEF ReserveInSession, Reusable, TypeInv, TypeOK, RequestRow
      <3>2. /\ request[c].upload \in Uploads /\ t \in Nat
            /\ Least(t + ReservationLifetime, session[s].expires) \in Nat
        BY <3>1, <1>0, RetrievalAssumption DEF TypeInv, RequestsOK, Least, TypeOK, SessionRow
      <3>3. PICK e \in Nat, b \in BOOLEAN : ReserveRow(c, s, request[c].upload, t, e, b)
        BY <3>1, <3>2
      <3>4. QED BY <3>2, <3>3, ReserveRowUniqueLive
    <2>3. CASE ReserveInNewSession(c)
      <3>1. PICK t \in Stamps, s \in Sessions :
              /\ request[c].phase = "checked"
              /\ ReserveRow(c, s, request[c].upload, t,
                            Least(t + ReservationLifetime, t + ProvisionalLifetime), TRUE)
        BY <2>3 DEF ReserveInNewSession
      <3>2. /\ request[c].upload \in Uploads /\ t \in Nat
            /\ Least(t + ReservationLifetime, t + ProvisionalLifetime) \in Nat
        BY <3>1, <1>0, RetrievalAssumption DEF TypeInv, RequestsOK, Least
      <3>3. PICK e \in Nat, b \in BOOLEAN : ReserveRow(c, s, request[c].upload, t, e, b)
        BY <3>1, <3>2
      <3>4. QED BY <3>2, <3>3, ReserveRowUniqueLive
    <2>4. CASE ReserveLegacy(c)
      <3>1. PICK t \in Stamps, r \in Reservations :
              \/ /\ reservation[r].status = "reserved"
                 /\ reservation' = [reservation EXCEPT ![r] = Prolonged(@, t + ReservationLifetime)]
              \/ \E mine \in SUBSET Reservations :
                   reservation' = [m \in Reservations |->
                      IF m = r
                      THEN Reserved(request[c].upload, None, c, t + ReservationLifetime)
                      ELSE IF m \in mine THEN Released(reservation[m])
                      ELSE reservation[m]]
        BY <2>4 DEF ReserveLegacy
      <3>2. \A m \in Reservations :
              \/ reservation'[m].status = "released"
              \/ reservation'[m].session = None
              \/ /\ reservation'[m].status = reservation[m].status
                 /\ reservation'[m].session = reservation[m].session
                 /\ reservation'[m].upload = reservation[m].upload
        BY <3>1 DEF TypeInv, TypeOK, Released, Reserved, Prolonged, ReservationRow
      <3>3. QED BY <3>2, KeepUniqueLive DEF Live
    <2>5. CASE AbortTicketRequest(c)
      <3>1. \A m \in Reservations : \/ reservation'[m].status = "released"
                                    \/ reservation'[m] = reservation[m]
        BY <2>5 DEF AbortTicketRequest, RequestsOK, TypeInv, TypeOK, Released, ReservationRow
      <3>2. QED BY <3>1, KeepUniqueLive DEF Live
    <2>6. QED BY <1>2, <2>1, <2>2, <2>3, <2>4, <2>5 DEF TicketStep
  <1>3. ASSUME NEW r \in Reservations, DownloadStep(r) PROVE UniqueLive'
    <2>1. CASE BeginDownload(r)
      <3>1. PICK t \in Stamps :
              /\ reservation[r].status = "reserved"
              /\ \/ reservation' = [reservation EXCEPT ![r] = Begun(@, t + MaxStream)]
                 \/ reservation' = [reservation EXCEPT ![r] = Released(@)]
        BY <2>1 DEF BeginDownload
      <3>2. \A m \in Reservations :
              /\ reservation'[m].session = reservation[m].session
              /\ reservation'[m].upload = reservation[m].upload
              /\ m # r => reservation'[m].status = reservation[m].status
        <4>1. CASE reservation' = [reservation EXCEPT ![r] = Begun(@, t + MaxStream)]
          BY <4>1 DEF TypeInv, TypeOK, Begun, ReservationRow
        <4>2. CASE reservation' = [reservation EXCEPT ![r] = Released(@)]
          BY <4>2 DEF TypeInv, TypeOK, Released, ReservationRow
        <4>3. QED BY <3>1, <4>1, <4>2
      <3>3. QED BY <3>1, <3>2, KeepUniqueLive DEF Live
    <2>2. ASSUME NEW reported \in Reports, SettleDownload(r, reported) PROVE UniqueLive'
      <3>1. \/ reservation' = [reservation EXCEPT ![r] = Settled(@, DecodedBytes(reported))]
            \/ reservation' = [reservation EXCEPT ![r] = Progressed(@, DecodedBytes(reported))]
        BY <2>2 DEF SettleDownload, SettleFinal
      <3>2. \A m \in Reservations :
              \/ reservation'[m].status = "settled"
              \/ /\ reservation'[m].session = reservation[m].session
                 /\ reservation'[m].upload = reservation[m].upload
                 /\ reservation'[m].status = reservation[m].status
        <4>1. CASE reservation' = [reservation EXCEPT ![r] = Settled(@, DecodedBytes(reported))]
          BY <4>1 DEF TypeInv, TypeOK, Settled, ReservationRow
        <4>2. CASE reservation' = [reservation EXCEPT ![r] = Progressed(@, DecodedBytes(reported))]
          BY <4>2 DEF TypeInv, TypeOK, Progressed, ReservationRow
        <4>3. QED BY <3>1, <4>1, <4>2
      <3>3. QED BY <3>2, KeepUniqueLive DEF Live
    <2>3. QED BY <1>3, <2>1, <2>2 DEF DownloadStep
  <1>4. CASE CleanupStep
    <2>1. CASE ReleaseExpiredReservations \/ ReleaseExpiredSessions
      <3>1. \A m \in Reservations : \/ reservation'[m].status = "released"
                                    \/ reservation'[m] = reservation[m]
        BY <2>1 DEF ReleaseExpiredReservations, ReleaseExpiredSessions, TypeInv, TypeOK,
                    Released, ReservationRow
      <3>2. QED BY <3>1, KeepUniqueLive DEF Live
    <2>2. ASSUME NEW x \in worker.streams, ForceSettleStream(x) PROVE UniqueLive'
      <3>1. \/ reservation' = [reservation EXCEPT ![x.id] = Settled(@, x.actual)]
            \/ reservation' = reservation
        BY <2>2 DEF ForceSettleStream, SettleFinal
      <3>2. \A m \in Reservations : \/ reservation'[m].status = "settled"
                                    \/ reservation'[m] = reservation[m]
        BY <3>1 DEF TypeInv, TypeOK, Settled, ReservationRow
      <3>3. QED BY <3>2, KeepUniqueLive DEF Live
    <2>3. CASE MaintenanceCandidates \/ (\E u \in worker.list : DeleteCandidate(u)) \/ FinishCleanup
      BY <2>3, <1>a DEF MaintenanceCandidates, DeleteCandidate, FinishCleanup
    <2>4. QED BY <1>4, <2>1, <2>2, <2>3 DEF CleanupStep
  <1>5. QED BY <1>1, <1>2, <1>3, <1>4 DEF Next

\* A session never downloads the same file twice at the same time.
THEOREM FileDownloadsAreExclusive == Spec => []NoConcurrentFileDownload
  <1>1. Init => TypeInv /\ UniqueLive
    BY InitTypeInv DEF Init, UniqueLive, Live, EmptyReservation
  <1>2. TypeInv /\ UniqueLive /\ [Next]_vars => (TypeInv /\ UniqueLive)'
    BY NextTypeInv, NextUniqueLive
  <1>3. TypeInv /\ UniqueLive => NoConcurrentFileDownload
    BY DEF UniqueLive, Live, NoConcurrentFileDownload
  <1>4. QED BY <1>1, <1>2, <1>3, PTL DEF Spec

-----------------------------------------------------------------------------
(* Sessions that end early *)

\* The transfer is over: nothing opens any more.
Over == status \in {"expired", "revoked"} \/ (status = "exhausted" /\ Quiet)

\* Files go only when the transfer is over; the first download gives a session its
\* whole window.
FilesKept == (\E u \in Uploads : uploads[u] = "deleted") => Over
ActiveUntilHard == \A s \in Sessions : session[s].status = "active" => session[s].expires = session[s].hard

EarlyInv == DeletionIInv /\ FilesKept /\ ActiveUntilHard

LEMMA OverIsStable ==
  ASSUME DeletionIInv, Over, [Next]_vars
  PROVE  Over'
  <1> USE DEF transferVars, clientVars
  <1>0. SlotInv /\ StatusInv /\ TypeInv /\ reservation \in [Reservations -> ReservationRow]
        /\ session \in [Sessions -> SessionRow] /\ worker \in WorkerState
    BY DEF DeletionIInv, SlotInv, TypeInv, TypeOK
  <1>a. CASE UNCHANGED <<status, session, reservation>>
    BY <1>a DEF Over, Quiet
  <1>1. CASE \/ \E c \in Recipients : TicketStep(c)
             \/ \E r \in Reservations : DownloadStep(r)
    <2>1. status \in {"expired", "revoked"} => status' = status
      BY ZenonT(40), <1>1 DEF TicketStep, CheckTicketRequest, ReserveInSession, ReserveInNewSession,
                  ReserveLegacy, DropTicketRequest, AnswerTicketRequest, AbortTicketRequest,
                  DownloadStep, BeginDownload, SettleDownload, ReopenedStatus
    <2>2. QED BY <1>1, <1>0, <2>1, QuietIsStable DEF Over
  <1>2. CASE Tick \/ UNCHANGED vars \/ FailCleanupStep \/ Restart
    BY <1>2, <1>a DEF Tick, vars, FailCleanupStep, Restart
  <1>3. CASE RevokeTransfer
    BY <1>3 DEF RevokeTransfer, Over
  <1>4. CASE CleanupStep
    <2>1. CASE ReleaseExpiredReservations
      <3>1. \A m \in Reservations : reservation'[m].status \in {reservation[m].status, "released"}
        BY <2>1, <1>0 DEF ReleaseExpiredReservations, Released, ReservationRow
      <3>2. QED BY <2>1, <3>1 DEF ReleaseExpiredReservations, Over, Quiet
    <2>2. ASSUME NEW x \in worker.streams, ForceSettleStream(x) PROVE Over'
      <3>1. status' = status
        BY <2>2 DEF ForceSettleStream
      <3>2. ASSUME Quiet PROVE Quiet'
        <4>1. x.id \in Reservations
          BY <1>0 DEF WorkerState
        <4>2. reservation[x.id].status # "consuming"
          BY <3>2, <4>1 DEF Quiet
        <4>3. /\ session' = session
              /\ \/ reservation' = reservation
                 \/ reservation' = [reservation EXCEPT ![x.id] = Settled(@, x.actual)]
          BY <2>2, <4>2 DEF ForceSettleStream, SettleFinal
        <4>4. \A m \in Reservations : reservation'[m].status \in {reservation[m].status, "settled"}
          BY <4>1, <4>3, <1>0 DEF Settled, ReservationRow
        <4>5. QED BY <3>2, <4>3, <4>4 DEF Quiet
      <3>3. QED BY <3>1, <3>2 DEF Over
    <2>3. CASE ReleaseExpiredSessions
      <3>1. ASSUME Quiet PROVE Quiet' /\ status' = status
        <4>1. {s \in Sessions : ReturnsSlot(s, worker.now)} = {}
          BY <3>1 DEF ReturnsSlot, Quiet
        <4>2. status' = status
          BY <2>3, <4>1 DEF ReleaseExpiredSessions
        <4>3. \A s \in Sessions : session'[s] = session[s]
          BY <2>3, <3>1, <4>1 DEF ReleaseExpiredSessions, Quiet
        <4>4. \A m \in Reservations : reservation'[m].status \in {reservation[m].status, "released"}
          BY <2>3, <1>0 DEF ReleaseExpiredSessions, Released, ReservationRow
        <4>5. QED BY <3>1, <4>2, <4>3, <4>4 DEF Quiet
      <3>2. status \in {"expired", "revoked"} => status' = status
        BY <2>3 DEF ReleaseExpiredSessions, ReopenedStatus
      <3>3. QED BY <3>1, <3>2 DEF Over
    <2>4. CASE MaintenanceCandidates
      BY <2>4 DEF MaintenanceCandidates, Over, Quiet
    <2>5. CASE (\E u \in worker.list : DeleteCandidate(u)) \/ FinishCleanup
      BY <2>5, <1>a DEF DeleteCandidate, FinishCleanup
    <2>6. QED BY <1>4, <2>1, <2>2, <2>3, <2>4, <2>5 DEF CleanupStep
  <1>5. QED BY <1>1, <1>2, <1>3, <1>4 DEF Next

LEMMA NextFilesKept == EarlyInv /\ [Next]_vars => FilesKept'
  <1> SUFFICES ASSUME EarlyInv, [Next]_vars, NEW u \in Uploads, uploads'[u] = "deleted" PROVE Over'
    BY DEF FilesKept
  <1> USE DEF transferVars, clientVars
  <1>1. CASE uploads' = uploads
    BY <1>1, OverIsStable DEF EarlyInv, FilesKept
  <1>2. CASE uploads' # uploads
    <2>1. PICK v \in worker.list : DeleteCandidate(v)
      BY <1>2 DEF Next, vars, Tick, TicketStep, CheckTicketRequest, ReserveInSession, ReserveInNewSession,
             ReserveLegacy, DropTicketRequest, AnswerTicketRequest, AbortTicketRequest,
             DownloadStep, BeginDownload, SettleDownload, RevokeTransfer, CleanupStep,
             ReleaseExpiredReservations, ForceSettleStream, ReleaseExpiredSessions,
             MaintenanceCandidates, FinishCleanup, FailCleanupStep, Restart
    <2>2. Over
      BY <2>1 DEF EarlyInv, DeletionIInv, DeletionInv, Over
    <2>3. QED BY <2>2, OverIsStable DEF EarlyInv
  <1>3. QED BY <1>1, <1>2

\* How a session that is active came to be so, and how it ends.
LEMMA SessionSteps ==
  ASSUME TypeInv, Next, NEW s \in Sessions
  PROVE  \/ session'[s] = session[s]
         \/ session'[s].status \in {"provisional", "released"}
         \/ session'[s].status = "active" /\ session'[s].expires = session'[s].hard
         \/ /\ session[s].status = "active" /\ session'[s].status = "closed"
            /\ session'[s].expires = session[s].expires /\ session'[s].hard = session[s].hard
         \/ /\ \E r \in Reservations, a \in 0 .. FileLength, t \in Nat :
                    SettleFinal(r, a, t) /\ reservation[r].session = s /\ session' # session
            /\ UNCHANGED <<status, uploads>>
  <1> USE DEF transferVars, clientVars
  <1>0. session \in [Sessions -> SessionRow] /\ reservation \in [Reservations -> ReservationRow]
        /\ worker \in WorkerState
    BY DEF TypeInv, TypeOK
  <1>r. \A q \in Sessions, st \in SessionStatus, e \in Nat :
          /\ SessionAs(session[q], st, e).status = st /\ SessionAs(session[q], st, e).expires = e
          /\ SessionAs(session[q], st, e).hard = session[q].hard
    BY <1>0 DEF SessionAs, SessionRow
  <1>n. /\ \A q \in Sessions : session[q].expires \in Nat /\ session[q].hard \in Nat
        /\ {"provisional", "released", "active", "closed"} \subseteq SessionStatus
        /\ Stamps \subseteq Nat /\ worker.now \in Nat
    BY <1>0 DEF SessionRow, SessionStatus, Stamps, WorkerState, TypeInv, TypeOK
  <1>a. CASE UNCHANGED session
    BY <1>a
  <1>1. ASSUME NEW c \in Recipients, TicketStep(c)
        PROVE  session'[s] = session[s] \/ session'[s].status \in {"provisional", "released"}
    <2>1. CASE AbortTicketRequest(c)
      <3>1. PICK q \in Sessions \cup {None}, t \in Stamps :
              \/ /\ session[q].status = "provisional" /\ q # None
                 /\ session' = [session EXCEPT ![q] = SessionAs(@, "released", t)]
              \/ session' = session
        BY <2>1 DEF AbortTicketRequest, TypeInv, TypeOK, RequestsOK, ReservationRow
      <3>2. QED BY <3>1, <1>0, <1>r, <1>n
    <2>2. CASE ReserveInNewSession(c)
      BY <2>2, <1>0 DEF ReserveInNewSession
    <2>3. QED
      BY <1>a, <1>1, <2>1, <2>2
      DEF TicketStep, CheckTicketRequest, ReserveInSession, ReserveLegacy,
          DropTicketRequest, AnswerTicketRequest
  <1>2. ASSUME NEW r \in Reservations, BeginDownload(r)
        PROVE  \/ session'[s] = session[s]
               \/ session'[s].status = "active" /\ session'[s].expires = session'[s].hard
    <2>1. \/ /\ reservation[r].session # None
             /\ session' = [session EXCEPT ![reservation[r].session] =
                              SessionAs(session[reservation[r].session], "active", session[reservation[r].session].hard)]
          \/ session' = session
      BY <1>2 DEF BeginDownload
    <2>2. QED BY <2>1, <1>0, <1>r, <1>n DEF ReservationRow
  <1>3. ASSUME NEW r \in Reservations, NEW a \in 0 .. FileLength, NEW t \in Nat, SettleFinal(r, a, t)
        PROVE  session'[s] = session[s] \/ (reservation[r].session = s /\ session' # session)
    <2>1. \/ session' = [session EXCEPT ![reservation[r].session] = SessionAs(@, "closed", t)]
          \/ session' = session
      BY <1>3 DEF SettleFinal
    <2>2. QED BY <2>1, <1>0
  <1>4. ASSUME NEW r \in Reservations, NEW reported \in Reports, SettleDownload(r, reported)
        PROVE  \/ session'[s] = session[s]
               \/ /\ \E q \in Reservations, a \in 0 .. FileLength, t \in Nat :
                        SettleFinal(q, a, t) /\ reservation[q].session = s /\ session' # session
                  /\ UNCHANGED <<status, uploads>>
    <2>1. DecodedBytes(reported) \in 0 .. FileLength
      BY DecodedBytesType
    <2>2. \/ session' = session
          \/ \E t \in Stamps : SettleFinal(r, DecodedBytes(reported), t)
      BY <1>4 DEF SettleDownload
    <2>3. UNCHANGED <<status, uploads>>
      BY <1>4 DEF SettleDownload
    <2>4. QED BY <1>3, <1>n, <2>1, <2>2, <2>3
  <1>5. ASSUME NEW x \in worker.streams, ForceSettleStream(x)
        PROVE  \/ session'[s] = session[s]
               \/ /\ \E q \in Reservations, a \in 0 .. FileLength, t \in Nat :
                        SettleFinal(q, a, t) /\ reservation[q].session = s /\ session' # session
                  /\ UNCHANGED <<status, uploads>>
    <2>1. x.id \in Reservations /\ x.actual \in 0 .. FileLength
      BY <1>0 DEF WorkerState
    <2>2. session' = session \/ SettleFinal(x.id, x.actual, worker.now)
      BY <1>5 DEF ForceSettleStream
    <2>3. UNCHANGED <<status, uploads>>
      BY <1>5 DEF ForceSettleStream
    <2>4. QED BY <1>3, <1>n, <2>1, <2>2, <2>3
  <1>6. CASE ReleaseExpiredSessions
    <2>1. \/ session'[s] = SessionAs(session[s], "released", worker.now)
          \/ session[s].status = "active" /\ session'[s] = SessionAs(session[s], "closed", session[s].expires)
          \/ session'[s] = session[s]
      BY <1>6 DEF ReleaseExpiredSessions
    <2>2. QED BY <2>1, <1>r, <1>n
  <1>7. QED
    BY <1>a, <1>1, <1>2, <1>4, <1>5, <1>6
    DEF Next, Tick, DownloadStep, RevokeTransfer, CleanupStep, ReleaseExpiredReservations,
        MaintenanceCandidates, DeleteCandidate, FinishCleanup, FailCleanupStep, Restart

LEMMA NextActiveUntilHard == EarlyInv /\ [Next]_vars => ActiveUntilHard'
  <1> SUFFICES ASSUME EarlyInv, [Next]_vars, NEW s \in Sessions, session'[s].status = "active"
               PROVE  session'[s].expires = session'[s].hard
    BY DEF ActiveUntilHard
  <1>0. TypeInv /\ session \in [Sessions -> SessionRow] /\ reservation \in [Reservations -> ReservationRow]
    BY DEF EarlyInv, DeletionIInv, SlotInv, TypeInv, TypeOK
  <1>1. CASE session'[s] = session[s]
    BY <1>1 DEF EarlyInv, ActiveUntilHard
  <1>2. CASE Next
    <2>1. ASSUME NEW r \in Reservations, NEW a \in 0 .. FileLength, NEW t \in Nat, SettleFinal(r, a, t),
                 reservation[r].session = s, session' # session
          PROVE  session'[s].status = "closed"
      <3>1. session' = [session EXCEPT ![s] = SessionAs(session[s], "closed", t)]
        BY <2>1 DEF SettleFinal
      <3>2. SessionAs(session[s], "closed", t).status = "closed"
        BY <1>0 DEF SessionAs, SessionRow
      <3>3. QED BY <3>1, <3>2, <1>0
    <2>2. QED BY <1>0, <1>1, <1>2, <2>1, SessionSteps
  <1>3. QED BY <1>1, <1>2 DEF vars

\* A session of an open transfer ends before its window only when every ready file was
\* downloaded in it to the last byte.
THEOREM EarlyClosesAreComplete == Spec => EarlyCloseIsComplete
  <1> DEFINE Complete == \A s \in Sessions :
         /\ session[s].status = "active" /\ session'[s].status = "closed"
         /\ session'[s].expires < session'[s].hard
         /\ status \in {"active", "exhausted"}
         => \A u \in ReadyFiles : \E r \in Reservations :
                /\ reservation'[r].session = s /\ reservation'[r].upload = u
                /\ reservation'[r].status = "settled" /\ reservation'[r].actual = FileLength
  <1>1. Init => EarlyInv
    <2>1. Init => DeletionIInv
      BY InitTypeInv, InitSessionInv, InitSlotAccounting, InitStatusInv
      DEF DeletionIInv, SlotInv, DeletionInv, Init, IdleWorker
    <2>2. QED BY <2>1 DEF EarlyInv, FilesKept, ActiveUntilHard, Init, EmptySession
  <1>2. EarlyInv /\ [Next]_vars => EarlyInv'
    BY NextTypeInv, NextSessionInv, NextSlotAccounting, NextStatusInv, NextDeletionInv,
       NextFilesKept, NextActiveUntilHard
    DEF EarlyInv, DeletionIInv, SlotInv
  <1>3. EarlyInv /\ [Next]_vars => [Complete]_vars
    <2> SUFFICES ASSUME EarlyInv, EarlyInv', Next, NEW s \in Sessions,
                        session[s].status = "active", session'[s].status = "closed",
                        session'[s].expires < session'[s].hard, status \in {"active", "exhausted"},
                        NEW u \in ReadyFiles
                 PROVE  \E r \in Reservations :
                          /\ reservation'[r].session = s /\ reservation'[r].upload = u
                          /\ reservation'[r].status = "settled" /\ reservation'[r].actual = FileLength
      BY <1>2
    <2>0. /\ TypeInv /\ session \in [Sessions -> SessionRow] /\ uploads \in [Uploads -> {"ready", "deleted"}]
          /\ reservation' \in [Reservations -> ReservationRow] /\ session[s].expires = session[s].hard
          /\ session[s].hard \in Nat
      BY DEF EarlyInv, DeletionIInv, SlotInv, TypeInv, TypeOK, ActiveUntilHard, SessionRow
    <2>1. PICK r \in Reservations, a \in 0 .. FileLength, t \in Nat :
            SettleFinal(r, a, t) /\ reservation[r].session = s /\ session' # session
      BY <2>0, SessionSteps
    <2>2. Cardinality(CompletedFiles(reservation', s)) >= Cardinality(ReadyFiles)
      BY <2>1 DEF SettleFinal
    <2>3. ReadyFiles = Uploads
      <3>1. ~Over
        BY DEF Over, Quiet
      <3>2. QED BY <2>0, <3>1 DEF EarlyInv, FilesKept, ReadyFiles
    <2>4. CompletedFiles(reservation', s) = Uploads
      <3>1. CompletedFiles(reservation', s) \subseteq Uploads /\ IsFiniteSet(Uploads)
        BY RetrievalAssumption DEF CompletedFiles
      <3>2. Cardinality(CompletedFiles(reservation', s)) \in Nat /\ Cardinality(Uploads) \in Nat
        BY <3>1, FS_Subset, FS_CardinalityType
      <3>3. QED BY <3>1, <3>2, <2>2, <2>3, FS_Subset
    <2>5. PICK m \in Reservations : /\ reservation'[m].status = "settled" /\ reservation'[m].session = s
                                    /\ reservation'[m].upload = u /\ reservation'[m].actual >= FileLength
      BY <2>3, <2>4 DEF CompletedFiles
    <2>6. reservation'[m].actual \in 0 .. FileLength
      BY <2>0 DEF ReservationRow
    <2>7. QED BY <2>5, <2>6, RetrievalAssumption
  <1>4. QED BY <1>1, <1>2, <1>3, PTL DEF Spec, EarlyCloseIsComplete

===============================================================================
