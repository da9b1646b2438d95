----------------------------- MODULE NodeDownload -----------------------------
(***************************************************************************)
(* One download ticket on the storage node: the handler that asks the      *)
(* control plane to begin, streams and settles; its heartbeats; the        *)
(* durable session row and the outbox that carries the settlement; and the *)
(* control plane's reservation row at the other end of the calls.          *)
(*                                                                         *)
(* A call may time out while its request is still on the way: the caller   *)
(* goes on, and the abandoned request may reach the control plane later or *)
(* never. A crash of the node loses its goroutines and keeps its database. *)
(*                                                                         *)
(* There is no clock. Leases, staleness and deadlines that pass in the     *)
(* normal course of events are steps that may happen at any time; those    *)
(* that hit a live actor are failures, which Failures allows by kind and   *)
(* MaxFaults by number.                                                    *)
(***************************************************************************)
EXTENDS Integers, FiniteSets

CONSTANTS
    Handlers,     \* GET requests for the ticket
    Workers,      \* goroutines running retryOutbox
    None,
    Length,       \* length of the object, in chunks
    MaxAttempts,  \* OutboxMaxAttempts
    Failures,     \* the kinds of failure that may happen
    MaxFaults     \* how many of them

FailureKinds == {"timeout", "deny", "control", "crash", "stale", "lease", "disk", "deadline"}

ASSUME NodeDownloadAssumption ==
    /\ Handlers \cap Workers = {} /\ None \notin Handlers \cup Workers
    /\ Length \in Nat \ {0} /\ MaxAttempts \in Nat \ {0}
    /\ Failures \subseteq FailureKinds /\ MaxFaults \in Nat

Callers == Handlers \cup Workers

VARIABLES
    control,    \* the reservation row of the control plane, with its runtime row
    session,    \* the row of storage_download_sessions
    outbox,     \* the row download-settle:<reservation> of storage_outbox
    letter,     \* its row in storage_outbox_dead_letter
    object,     \* the stored object exists
    boot,       \* how far the node's start-up has come
    handler,    \* the GET requests
    claimed,    \* the event each outbox worker has claimed
    call,       \* the call to the control plane each caller waits for
    abandoned,  \* requests on the way whose caller has given up
    delivered,  \* chunks handed to the client
    faults      \* failures so far

vars == <<control, session, outbox, letter, object, boot, handler, claimed, call,
          abandoned, delivered, faults>>

-----------------------------------------------------------------------------
(* Rows *)

ControlStatus == {"reserved", "consuming", "settled", "released"}
NodeStatus == {"none", "begin_pending", "streaming", "settle_pending"}
Replies == {"none", "ok", "conflict", "denied", "error"}
Chunks == 0..Length

\* begun: a runtime row exists; overdue: its hard_expires_at has passed.
NewReservation == [status |-> "reserved", actual |-> 0, begun |-> FALSE, overdue |-> FALSE]
NoSession == [status |-> "none", stream |-> 0, actual |-> 0]
NoEvent == [queued |-> FALSE, body |-> 0, version |-> 0, attempts |-> 0,
            claim |-> None, replay |-> FALSE]
NoLetter == [held |-> FALSE, body |-> 0, version |-> 0]
\* stale: history, the row was recovered as stale while the handler was alive.
Idle == [phase |-> "idle", length |-> 0, sent |-> 0, cancelled |-> FALSE, stale |-> FALSE]
NoCall == [state |-> "idle", kind |-> "none", body |-> 0, reply |-> "none"]
NoClaim == [body |-> 0, version |-> 0, attempts |-> 0]

Bodies == 0..(2 * Length)
Requests == [kind: {"begin", "settle"}, body: Bodies]

ControlRows == [status: ControlStatus, actual: Chunks, begun: BOOLEAN, overdue: BOOLEAN]
SessionRows == [status: NodeStatus, stream: Chunks, actual: Chunks]
Events == [queued: BOOLEAN, body: Bodies, version: Nat, attempts: 0..MaxAttempts,
           claim: Workers \cup {None}, replay: BOOLEAN]
Letters == [held: BOOLEAN, body: Bodies, version: Nat]
Streams == [phase: {"idle", "begin", "copying", "checkpoint", "finishing"},
            length: Chunks, sent: Chunks, cancelled: BOOLEAN, stale: BOOLEAN]
Claims == [body: Bodies, version: Nat, attempts: 0..MaxAttempts]
Calls == [state: {"idle", "sent", "answered"}, kind: {"none", "begin", "settle"},
          body: Bodies, reply: Replies]

TypeOK ==
    /\ control \in ControlRows
    /\ session \in SessionRows
    /\ outbox \in Events
    /\ letter \in Letters
    /\ object \in BOOLEAN
    /\ boot \in {"down", "reset", "replayed", "up"}
    /\ handler \in [Handlers -> Streams]
    /\ claimed \in [Workers -> Claims]
    /\ call \in [Callers -> Calls]
    /\ abandoned \subseteq Requests
    /\ delivered \in Nat
    /\ faults \in 0..MaxFaults

Init ==
    /\ control = NewReservation
    /\ session = NoSession
    /\ outbox = NoEvent
    /\ letter = NoLetter
    /\ object = TRUE
    /\ boot = "up"
    /\ handler = [h \in Handlers |-> Idle]
    /\ claimed = [w \in Workers |-> NoClaim]
    /\ call = [c \in Callers |-> NoCall]
    /\ abandoned = {}
    /\ delivered = 0
    /\ faults = 0

-----------------------------------------------------------------------------
(* Shared pieces *)

Fault(kind) ==
    /\ kind \in Failures /\ faults < MaxFaults
    /\ faults' = faults + 1

Larger(a, b) == IF a >= b THEN a ELSE b

\* Mutant: the count is sent as it is.
EncodeNothing(n) == n

\* A partial final count is sent shifted past the length, so that it cannot be
\* taken for progress; zero and the whole length are final as they are.
EncodeFinal(n) == IF 0 < n /\ n < Length THEN Length + 1 + n ELSE n

\* Mutant: the shift is not undone.
UndecodedBytes(b) == b

DecodedBytes(b) == IF b > Length THEN b - Length - 1 ELSE b
IsFinal(b) == b = 0 \/ b >= Length

\* Requests given up when the callers in cs stop waiting.
UnansweredOf(cs) ==
    {[kind |-> call[c].kind, body |-> call[c].body] : c \in {d \in cs : call[d].state = "sent"}}

Send(kind, body) == [state |-> "sent", kind |-> kind, body |-> body, reply |-> "none"]

\* Mutant: the object is not locked.
LockNeverHeld == TRUE

\* The mutex of the object: held from before the session row is prepared until
\* the session is activated or given up.
LockFree == \A h \in Handlers : handler[h].phase # "begin"

\* storageHealth: a dead letter, or a replayed one that is still queued, makes
\* the node refuse new work.
Ready == ~letter.held /\ ~(outbox.queued /\ outbox.replay)

-----------------------------------------------------------------------------
(* The control plane *)

\* beginDownloadReservation: it takes a reserved row that has not expired; a
\* transfer or session that is no longer open releases the row instead.
BeginOutcomes ==
    {[row |-> control, reply |-> "conflict"]} \cup
    (IF control.status # "reserved" THEN {} ELSE
        {[row |-> [control EXCEPT !.status = "consuming", !.begun = TRUE], reply |-> "ok"],
         [row |-> [control EXCEPT !.status = "released"], reply |-> "conflict"]})

\* Mutant: any progress is taken, in whatever order it arrives.
NeverRegresses(n) == FALSE

\* Progress below what is recorded, such as a heartbeat that was overtaken.
Regresses(n) == n < control.actual

\* settleDownloadReservation of the reported count b.
SettleOutcome(b) ==
    LET n == DecodedBytes(b)
        Closed(m) == [control EXCEPT !.status = "settled", !.actual = m]
    IN
    CASE control.status = "released" -> [row |-> control, reply |-> "ok"]
      [] control.status = "settled" ->
            [row |-> control, reply |-> IF control.actual = n THEN "ok" ELSE "conflict"]
      [] control.status = "reserved" -> [row |-> Closed(n), reply |-> "ok"]
      [] control.status = "consuming" /\ IsFinal(b) -> [row |-> Closed(n), reply |-> "ok"]
      [] control.status = "consuming" /\ ~IsFinal(b) ->
            IF Regresses(n) THEN [row |-> control, reply |-> "conflict"]
            ELSE IF control.overdue THEN [row |-> Closed(n), reply |-> "ok"]
            ELSE [row |-> [control EXCEPT !.actual = n], reply |-> "ok"]

Outcomes(m) == IF m.kind = "begin" THEN BeginOutcomes ELSE {SettleOutcome(m.body)}

\* beginStorageDownload and settleStorageDownload, for a caller that waits.
Answer(c) ==
    /\ call[c].state = "sent"
    /\ \E o \in Outcomes(call[c]) :
        /\ control' = o.row
        /\ call' = [call EXCEPT ![c].state = "answered", ![c].reply = o.reply]
    /\ UNCHANGED <<session, outbox, letter, object, boot, handler, claimed, abandoned,
                   delivered, faults>>

\* The same for an abandoned request. Requests with the same content are one
\* element of abandoned, so the element may stay.
ReceiveAbandoned(m) ==
    /\ m \in abandoned
    /\ \E o \in Outcomes(m) : control' = o.row
    /\ abandoned' \in {abandoned, abandoned \ {m}}
    /\ UNCHANGED <<session, outbox, letter, object, boot, handler, claimed, call,
                   delivered, faults>>

\* The control plane refuses without acting: 401 for a signature outside its
\* time window, 409 for a transaction that failed.
Refuse(c) ==
    /\ call[c].state = "sent"
    /\ \/ Fault("deny") /\ call' = [call EXCEPT ![c].state = "answered", ![c].reply = "denied"]
       \/ Fault("control") /\ call' = [call EXCEPT ![c].state = "answered", ![c].reply = "conflict"]
    /\ UNCHANGED <<control, session, outbox, letter, object, boot, handler, claimed,
                   abandoned, delivered>>

\* The caller sees an error, whether or not the request was or will be served: a
\* timeout, a lost connection, a 5xx, or a client that leaves during the begin
\* call, whose context the call carries.
TimeOut(c) ==
    /\ call[c].state # "idle" /\ call[c].reply # "error"
    /\ Fault("timeout")
    /\ abandoned' = abandoned \cup UnansweredOf({c})
    /\ call' = [call EXCEPT ![c].state = "answered", ![c].reply = "error"]
    /\ UNCHANGED <<control, session, outbox, letter, object, boot, handler, claimed, delivered>>

\* ReleaseExpiredDownloadReservations on a ticket that was never used.
ReleaseExpired ==
    /\ control.status = "reserved"
    /\ control' = [control EXCEPT !.status = "released"]
    /\ UNCHANGED <<session, outbox, letter, object, boot, handler, claimed, call,
                   abandoned, delivered, faults>>

\* The hard deadline of the stream passes. The node ends its own streams a
\* minute earlier, so it has none left.
PassDeadline ==
    /\ control.status = "consuming" /\ ~control.overdue
    /\ \A h \in Handlers : handler[h].phase = "idle"
    /\ Fault("deadline")
    /\ control' = [control EXCEPT !.overdue = TRUE]
    /\ UNCHANGED <<session, outbox, letter, object, boot, handler, claimed, call,
                   abandoned, delivered>>

\* ReleaseExpiredDownloadReservations on an overdue stream.
ForceSettle ==
    /\ control.status = "consuming" /\ control.overdue
    /\ control' = [control EXCEPT !.status = "settled"]
    /\ UNCHANGED <<session, outbox, letter, object, boot, handler, claimed, call,
                   abandoned, delivered, faults>>

-----------------------------------------------------------------------------
(* The session row and its settlement event *)

\* enqueueStorageOutboxTx: insert, or overwrite the body and bump the version.
Enqueued(b) ==
    IF outbox.queued
    THEN [outbox EXCEPT !.body = b, !.version = @ + 1]
    ELSE [NoEvent EXCEPT !.queued = TRUE, !.body = b, !.version = 1]

\* queueDownloadSettlement accepts a row in the expected status, or one that is
\* already being settled with the same count.
Settleable(expected, n) ==
    \/ session.status = expected
    \/ session.status = "settle_pending" /\ session.actual = n

\* Mutant: the event is left to a later transaction.
QueueRowOnly(n) ==
    /\ session' = [session EXCEPT !.status = "settle_pending", !.actual = n]
    /\ outbox' = outbox

\* The row and the event change in one transaction.
QueueSettlement(n) ==
    /\ session' = [session EXCEPT !.status = "settle_pending", !.actual = n]
    /\ outbox' = Enqueued(EncodeFinal(n))

\* FinishPendingDownloadSession: nothing was delivered. A row that has moved on
\* is left alone.
FinishPending ==
    IF Settleable("begin_pending", 0) THEN QueueSettlement(0)
    ELSE UNCHANGED <<session, outbox>>

\* ConservativelyFinishDownloadSession: settle with the row's checkpoint.
FinishCheckpoint ==
    IF Settleable("streaming", session.actual) THEN QueueSettlement(session.actual)
    ELSE UNCHANGED <<session, outbox>>

\* FinishDownloadSession with the count n of the copy loop and, when that is
\* refused, the conservative settlement.
FinishStreaming(n) ==
    IF session.actual <= n /\ n <= session.stream /\ Settleable("streaming", n)
    THEN QueueSettlement(n)
    ELSE FinishCheckpoint

\* Mutant: only streams are recovered.
RecoverStreamingOnly == session.status = "streaming" /\ QueueSettlement(session.actual)

\* recoverDownloadSessions for one row it selected.
RecoverSession ==
    \/ session.status = "begin_pending" /\ QueueSettlement(0)
    \/ session.status = "streaming" /\ QueueSettlement(session.actual)

-----------------------------------------------------------------------------
(* The download handler *)

HandlerAs(h, phase) == [handler EXCEPT ![h].phase = phase]

\* The checks, PrepareDownloadSession and the begin call. A GET that finds a
\* session row is refused and changes nothing.
Open(h, n) ==
    /\ boot = "up" /\ Ready /\ object /\ LockFree
    /\ handler[h].phase = "idle"
    /\ session.status = "none"
    /\ session' = [status |-> "begin_pending", stream |-> n, actual |-> 0]
    /\ handler' = [handler EXCEPT ![h] = [Idle EXCEPT !.phase = "begin", !.length = n]]
    /\ call' = [call EXCEPT ![h] = Send("begin", 0)]
    /\ UNCHANGED <<control, outbox, letter, object, boot, claimed, abandoned, delivered, faults>>

\* Mutant: every failed begin counts as refused.
RejectedOnAnyError(reply) == reply # "ok"

\* storageBeginDefinitelyRejected
DefinitelyRejected(reply) == reply \in {"conflict", "denied"}

\* CancelDownloadSession: the begin was refused, so no bytes are owed.
CancelBegin(h) ==
    /\ handler[h].phase = "begin" /\ call[h].state = "answered"
    /\ DefinitelyRejected(call[h].reply)
    /\ session' = IF session.status = "begin_pending" THEN NoSession ELSE session
    /\ handler' = [handler EXCEPT ![h] = Idle]
    /\ call' = [call EXCEPT ![h] = NoCall]
    /\ UNCHANGED <<control, outbox, letter, object, boot, claimed, abandoned, delivered, faults>>

\* The begin may or may not have happened: settle with zero.
AmbiguousBegin(h) ==
    /\ handler[h].phase = "begin" /\ call[h].state = "answered"
    /\ call[h].reply # "ok" /\ ~DefinitelyRejected(call[h].reply)
    /\ FinishPending
    /\ handler' = [handler EXCEPT ![h] = Idle]
    /\ call' = [call EXCEPT ![h] = NoCall]
    /\ UNCHANGED <<control, letter, object, boot, claimed, abandoned, delivered, faults>>

\* ActivateDownloadSession, which releases the lock and starts the stream.
Activate(h) ==
    /\ handler[h].phase = "begin" /\ call[h].reply = "ok"
    /\ session.status = "begin_pending"
    /\ session' = [session EXCEPT !.status = "streaming"]
    /\ handler' = HandlerAs(h, "copying")
    /\ call' = [call EXCEPT ![h] = NoCall]
    /\ UNCHANGED <<control, outbox, letter, object, boot, claimed, abandoned, delivered, faults>>

\* The row has moved on, or the client is gone and its context with it.
ActivateFails(h) ==
    /\ handler[h].phase = "begin" /\ call[h].reply = "ok"
    /\ FinishPending
    /\ handler' = [handler EXCEPT ![h] = Idle]
    /\ call' = [call EXCEPT ![h] = NoCall]
    /\ UNCHANGED <<control, letter, object, boot, claimed, abandoned, delivered, faults>>

\* The write that ends an unauthorised begin fails: the row stays begin_pending.
LeaveSession(h) ==
    /\ handler[h].phase = "begin" /\ call[h].state = "answered"
    /\ Fault("disk")
    /\ handler' = [handler EXCEPT ![h] = Idle]
    /\ call' = [call EXCEPT ![h] = NoCall]
    /\ UNCHANGED <<control, session, outbox, letter, object, boot, claimed, abandoned, delivered>>

\* storageDownloadCheckpointWriter.Write: hand a chunk over and publish the
\* count; the write may bring a checkpoint due.
WriteChunk(h) ==
    /\ handler[h].phase = "copying" /\ ~handler[h].cancelled
    /\ handler[h].sent < handler[h].length
    /\ delivered' = delivered + 1
    /\ \E next \in {"copying", "checkpoint"} :
        handler' = [handler EXCEPT ![h].sent = @ + 1, ![h].phase = next]
    /\ UNCHANGED <<control, session, outbox, letter, object, boot, claimed, call, abandoned, faults>>

\* UpdateDownloadProgress
CheckpointAccepted(n) ==
    session.status = "streaming" /\ session.actual < n /\ n <= session.stream

Checkpoint(h) ==
    /\ handler[h].phase = "checkpoint" /\ CheckpointAccepted(handler[h].sent)
    /\ session' = [session EXCEPT !.actual = handler[h].sent]
    /\ handler' = HandlerAs(h, "copying")
    /\ UNCHANGED <<control, outbox, letter, object, boot, claimed, call, abandoned, delivered, faults>>

\* The copy loop ends: all is sent, the client left, the stream was cancelled,
\* or a checkpoint was refused or failed. The heartbeat in flight is given up.
EndCopy(h) ==
    /\ \/ handler[h].phase = "copying" /\ UNCHANGED faults
       \/ /\ handler[h].phase = "checkpoint"
          /\ \/ ~CheckpointAccepted(handler[h].sent) /\ UNCHANGED faults
             \/ Fault("disk")
    /\ handler' = HandlerAs(h, "finishing")
    /\ abandoned' = abandoned \cup UnansweredOf({h})
    /\ call' = [call EXCEPT ![h] = NoCall]
    /\ UNCHANGED <<control, session, outbox, letter, object, boot, claimed, delivered>>

\* The settlement is queued; the outbox workers deliver it.
Finish(h) ==
    /\ handler[h].phase = "finishing"
    /\ FinishStreaming(handler[h].sent)
    /\ handler' = [handler EXCEPT ![h] = Idle]
    /\ UNCHANGED <<control, letter, object, boot, claimed, call, abandoned, delivered, faults>>

\* The exact settlement could not be stored, and perhaps the other neither.
FinishFails(h) ==
    /\ handler[h].phase = "finishing"
    /\ Fault("disk")
    /\ \/ FinishCheckpoint
       \/ UNCHANGED <<session, outbox>>
    /\ handler' = [handler EXCEPT ![h] = Idle]
    /\ UNCHANGED <<control, letter, object, boot, claimed, call, abandoned, delivered>>

-----------------------------------------------------------------------------
(* runDownloadHeartbeats *)

Streaming(h) == handler[h].phase \in {"copying", "checkpoint"}

\* HeartbeatDownloadSession and the progress call. The count n was read from
\* the copy loop and may be old; the larger of it and the row is reported.
Heartbeat(h, n) ==
    LET reliable == Larger(session.actual, n) IN
    /\ Streaming(h) /\ ~handler[h].cancelled
    /\ call[h].state = "idle"
    /\ n <= handler[h].sent
    /\ session.status = "streaming" /\ n <= session.stream
    /\ session' = [session EXCEPT !.actual = reliable]
    /\ call' = IF reliable = 0 THEN call ELSE [call EXCEPT ![h] = Send("settle", reliable)]
    /\ UNCHANGED <<control, outbox, letter, object, boot, handler, claimed, abandoned, delivered, faults>>

\* The row is no longer streaming, or cannot be written: the heartbeat cancels
\* the stream.
HeartbeatRefused(h) ==
    /\ Streaming(h) /\ ~handler[h].cancelled
    /\ call[h].state = "idle"
    /\ \/ session.status # "streaming" /\ UNCHANGED faults
       \/ Fault("disk")
    /\ handler' = [handler EXCEPT ![h].cancelled = TRUE]
    /\ UNCHANGED <<control, session, outbox, letter, object, boot, claimed, call, abandoned, delivered>>

\* A 4xx answer cancels the stream; any other failure is left to the next beat.
HeartbeatAnswered(h) ==
    /\ Streaming(h) /\ call[h].state = "answered"
    /\ call' = [call EXCEPT ![h] = NoCall]
    /\ handler' = [handler EXCEPT ![h].cancelled = @ \/ call[h].reply \in {"conflict", "denied"}]
    /\ UNCHANGED <<control, session, outbox, letter, object, boot, claimed, abandoned, delivered, faults>>

-----------------------------------------------------------------------------
(* retryOutbox *)

Unclaimed(row) == [row EXCEPT !.claim = None]
Busy(w) == call[w].state # "idle"

HeldAtWork == \E w \in Workers : outbox.claim = w /\ Busy(w)

\* ClaimOutbox and the call. A claim whose worker gave up is taken over when its
\* lease ends; the lease of a worker still at work may end too.
Claim(w) ==
    /\ boot = "up" /\ ~Busy(w) /\ outbox.queued
    /\ \/ ~HeldAtWork /\ UNCHANGED faults
       \/ HeldAtWork /\ Fault("lease")
    /\ outbox' = [outbox EXCEPT !.claim = w]
    /\ claimed' = [claimed EXCEPT ![w] =
          [body |-> outbox.body, version |-> outbox.version, attempts |-> outbox.attempts]]
    /\ call' = [call EXCEPT ![w] = Send("settle", outbox.body)]
    /\ UNCHANGED <<control, session, letter, object, boot, handler, abandoned, delivered>>

Holds(w) == outbox.queued /\ outbox.claim = w
Current(w) == claimed[w].version = outbox.version

\* The worker is done with its claim.
Release(w) ==
    /\ claimed' = [claimed EXCEPT ![w] = NoClaim]
    /\ call' = [call EXCEPT ![w] = NoCall]

\* Mutant: a conflict is taken for a terminal answer.
AcknowledgesConflict(reply) == reply \in {"ok", "conflict"}

\* The control plane took the event. It never answers a settlement with the 410
\* that storageOutboxSemanticTerminal also accepts.
Acknowledges(reply) == reply = "ok"

\* AckClaimedOutbox: the event goes, and the settled session row with it; an
\* event that changed meanwhile is only given back.
Ack(w) ==
    /\ Acknowledges(call[w].reply)
    /\ IF ~Holds(w) THEN UNCHANGED <<outbox, session>>
       ELSE IF ~Current(w) THEN outbox' = Unclaimed(outbox) /\ UNCHANGED session
       ELSE /\ outbox' = NoEvent
            /\ session' = IF session.status = "settle_pending" THEN NoSession ELSE session
    /\ Release(w)
    /\ UNCHANGED <<control, letter, object, boot, handler, abandoned, delivered, faults>>

\* storageOutboxPermanentFailure, or no attempts left.
GivesUp(w) == call[w].reply = "denied" \/ claimed[w].attempts + 1 >= MaxAttempts

\* RetryClaimedOutbox
Retry(w) ==
    /\ call[w].reply \in {"conflict", "denied", "error"} /\ ~GivesUp(w)
    /\ outbox' = IF ~Holds(w) THEN outbox
                 ELSE IF Current(w) THEN [Unclaimed(outbox) EXCEPT !.attempts = @ + 1]
                 ELSE Unclaimed(outbox)
    /\ Release(w)
    /\ UNCHANGED <<control, session, letter, object, boot, handler, abandoned, delivered, faults>>

\* DeadLetterClaimedOutbox
DeadLetter(w) ==
    /\ call[w].reply \in {"conflict", "denied", "error"} /\ GivesUp(w)
    /\ IF ~Holds(w) THEN UNCHANGED <<outbox, letter>>
       ELSE IF ~Current(w) THEN outbox' = Unclaimed(outbox) /\ UNCHANGED letter
       ELSE /\ letter' = [held |-> TRUE, body |-> outbox.body, version |-> outbox.version]
            /\ outbox' = NoEvent
    /\ Release(w)
    /\ UNCHANGED <<control, session, object, boot, handler, abandoned, delivered, faults>>

\* The worker's own write fails: its claim stays on the row.
LeaveClaim(w) ==
    /\ call[w].state = "answered"
    /\ Fault("disk")
    /\ Release(w)
    /\ UNCHANGED <<control, session, outbox, letter, object, boot, handler, abandoned, delivered>>

-----------------------------------------------------------------------------
(* Recovery, deletion, crash and start-up *)

\* recoverStaleDownloadSessions: a row nobody works on goes stale in the end; a
\* row whose handler is alive only if its heartbeats could not be stored.
RecoverStale ==
    /\ boot = "up"
    /\ \/ (\A h \in Handlers : handler[h].phase = "idle") /\ UNCHANGED faults
       \/ (\E h \in Handlers : handler[h].phase # "idle") /\ Fault("stale")
    /\ RecoverSession
    /\ handler' = [h \in Handlers |-> [handler[h] EXCEPT !.stale = (handler[h].phase # "idle")]]
    /\ UNCHANGED <<control, letter, object, boot, claimed, call, abandoned, delivered>>

\* Mutant: a session counts as active only before and after the stream.
ActiveUnlessStreaming == session.status \in {"begin_pending", "settle_pending"}

\* HasActiveDownloadSessions
ActiveSession == session.status \in {"begin_pending", "streaming", "settle_pending"}

\* deleteUpload and cleanupExpiredUploads
DeleteUpload ==
    /\ boot = "up" /\ object /\ LockFree /\ ~ActiveSession
    /\ object' = FALSE
    /\ UNCHANGED <<control, session, outbox, letter, boot, handler, claimed, call,
                   abandoned, delivered, faults>>

Crash ==
    /\ boot # "down"
    /\ Fault("crash")
    /\ boot' = "down"
    /\ handler' = [h \in Handlers |-> Idle]
    /\ claimed' = [w \in Workers |-> NoClaim]
    /\ abandoned' = abandoned \cup UnansweredOf(Callers)
    /\ call' = [c \in Callers |-> NoCall]
    /\ UNCHANGED <<control, session, outbox, letter, object, delivered>>

\* RunStorageNode, one transaction at a time.
ResetOutboxClaims ==
    /\ boot = "down" /\ boot' = "reset"
    /\ outbox' = Unclaimed(outbox)
    /\ UNCHANGED <<control, session, letter, object, handler, claimed, call, abandoned,
                   delivered, faults>>

\* ReplayDeadLetters, when the node is configured to.
ReplayDeadLetters ==
    /\ boot = "reset" /\ boot' = "replayed"
    /\ \/ UNCHANGED <<outbox, letter>>
       \/ /\ letter.held
          /\ outbox' = [queued |-> TRUE, body |-> letter.body, attempts |-> 0, claim |-> None,
                        version |-> IF outbox.queued
                                    THEN Larger(outbox.version, letter.version + 1) + 1
                                    ELSE letter.version + 1,
                        replay |-> TRUE]
          /\ letter' = NoLetter
    /\ UNCHANGED <<control, session, object, handler, claimed, call, abandoned, delivered, faults>>

RecoverDownloadSessions ==
    /\ boot = "replayed" /\ boot' = "up"
    /\ \/ RecoverSession
       \/ session.status \in {"none", "settle_pending"} /\ UNCHANGED <<session, outbox>>
    /\ UNCHANGED <<control, letter, object, handler, claimed, call, abandoned, delivered, faults>>

-----------------------------------------------------------------------------

ControlStep ==
    \/ \E c \in Callers : Answer(c) \/ Refuse(c) \/ TimeOut(c)
    \/ \E m \in abandoned : ReceiveAbandoned(m)
    \/ ReleaseExpired \/ PassDeadline \/ ForceSettle

HandlerStep(h) ==
    \/ \E n \in 1..Length : Open(h, n)
    \/ CancelBegin(h) \/ AmbiguousBegin(h) \/ Activate(h) \/ ActivateFails(h) \/ LeaveSession(h)
    \/ WriteChunk(h) \/ Checkpoint(h) \/ EndCopy(h) \/ Finish(h) \/ FinishFails(h)
    \/ \E n \in Chunks : Heartbeat(h, n)
    \/ HeartbeatRefused(h) \/ HeartbeatAnswered(h)

WorkerStep(w) == Claim(w) \/ Ack(w) \/ Retry(w) \/ DeadLetter(w) \/ LeaveClaim(w)

NodeStep ==
    \/ RecoverStale \/ DeleteUpload \/ Crash
    \/ ResetOutboxClaims \/ ReplayDeadLetters \/ RecoverDownloadSessions

Next ==
    \/ ControlStep
    \/ \E h \in Handlers : HandlerStep(h)
    \/ \E w \in Workers : WorkerStep(w)
    \/ NodeStep

Spec == Init /\ [][Next]_vars

\* The control plane answers calls that reach it; goroutines of a running node
\* proceed, a stream at the latest when its write deadline passes; a stopped
\* node is started again; the stale-session worker keeps running. Nothing says
\* that a client reads on, that a heartbeat fires or that an abandoned request
\* arrives.
FairSpec ==
    /\ Spec
    /\ \A c \in Callers : WF_vars(Answer(c))
    /\ \A h \in Handlers :
        /\ WF_vars(CancelBegin(h)) /\ WF_vars(AmbiguousBegin(h))
        /\ WF_vars(Activate(h) \/ ActivateFails(h))
        /\ WF_vars(Checkpoint(h) \/ EndCopy(h)) /\ WF_vars(Finish(h))
    /\ \A w \in Workers : WF_vars(Claim(w)) /\ WF_vars(Ack(w) \/ Retry(w) \/ DeadLetter(w))
    /\ WF_vars(RecoverStale)
    /\ WF_vars(ResetOutboxClaims) /\ WF_vars(ReplayDeadLetters) /\ WF_vars(RecoverDownloadSessions)

-----------------------------------------------------------------------------
(* Properties *)

\* A stream the control plane has begun always has a row on the node, so that
\* some settlement of it will be queued: neither a lost answer, an abandoned
\* begin that arrives late, nor a crash leaves the reservation consuming with
\* nobody to settle it (storageBeginDefinitelyRejected, FinishPending).
BegunStreamHasSession == control.status = "consuming" => session.status # "none"

\* A row on its way out has its event in the outbox or among the dead letters,
\* with the count of the row: row and event change together, and acknowledging,
\* retrying, dead-lettering and replaying never separate them.
SettlementIsQueued ==
    session.status = "settle_pending" =>
        \/ outbox.queued /\ outbox.body = EncodeFinal(session.actual)
        \/ letter.held /\ letter.body = EncodeFinal(session.actual)

\* The node streams only under an authorisation the control plane still has on
\* record: the reservation is consuming, or was closed by a report of the whole
\* object or by the deadline.
StreamIsAuthorised ==
    session.status = "streaming" =>
        \/ control.status = "consuming"
        \/ /\ control.status = "settled" /\ control.begun
           /\ control.actual = Length \/ control.overdue

\* The node forgets a settlement only when the control plane holds it: the
\* reservation is settled with exactly that count, or was released unused
\* (AckClaimedOutbox after a claim taken over, a changed version or a late answer).
ForgetsOnlySettled ==
    [][session.status = "settle_pending" /\ session'.status = "none" =>
          \/ control.status = "settled" /\ control.actual = session.actual
          \/ control.status = "released" /\ session.actual = 0]_vars

\* An object is not deleted under a reader (HasActiveDownloadSessions, and the
\* object's lock until the session row says streaming), unless the heartbeats of the
\* stream could not be stored for so long that its row was recovered as stale.
ReadersKeepObject ==
    object \/ \A h \in Handlers : handler[h].phase \in {"idle", "finishing"} \/ handler[h].stale

\* Together the planes keep the promises of DownloadLedger.
LedgerPhase ==
    IF control.begun THEN IF control.status = "consuming" THEN "open" ELSE "closed"
    ELSE IF control.status = "reserved" THEN "unused" ELSE "void"

Ledger == INSTANCE DownloadLedger WITH
    phase <- LedgerPhase, delivered <- delivered, recorded <- control.actual

ImplementsLedger == Ledger!Spec

\* A session row does not stay on the node unnoticed: whatever crashed, timed
\* out or went stale, it is settled, cancelled or handed to the operator as a
\* dead letter (recoverDownloadSessions, recoverStaleDownloadSessions, retryOutbox).
SessionsEnd ==
    session.status # "none" ~> (session.status = "none" \/ letter.held)

\* As long as the failures do not use up the event's attempts, a download that has begun is settled at the control
\* plane by its node, without the deadline's help: no begin, answer or final
\* count is lost for good (retryOutbox, recoverDownloadSessions).
BegunIsSettled == control.status = "consuming" ~> control.status = "settled"

\* Once the control plane counts the download as over, the node lets go of the
\* object: HasActiveDownloadSessions does not keep it from being deleted. The
\* code breaks this: a ticket used a second time, whose begin call gets no
\* answer, queues a settlement of zero that a settled reservation refuses.
EndedDownloadsLetGo ==
    control.status \in {"settled", "released"} ~> ~ActiveSession

\* A download that began can run to its end: a checkpoint ends the copy loop
\* only when the session has stopped streaming (UpdateDownloadProgress against
\* HeartbeatDownloadSession). The code breaks this when a heartbeat stores the
\* count first.
CheckpointsDoNotInterrupt ==
    [][\A h \in Handlers :
          handler[h].phase = "checkpoint" /\ handler'[h].phase = "finishing" =>
              session.status # "streaming"]_vars

===============================================================================
