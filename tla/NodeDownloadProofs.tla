-------------------------- MODULE NodeDownloadProofs ---------------------------
(***************************************************************************)
(* Proofs about NodeDownload, for any number of requests and outbox        *)
(* workers, any length, any number of attempts and faults: settlements are *)
(* neither lost nor invented, streams are authorised, readers keep their   *)
(* object, and the two planes together implement DownloadLedger.           *)
(***************************************************************************)
EXTENDS NodeDownload, TLAPS

-----------------------------------------------------------------------------
(* The inductive invariant. *)

Closed == control.status \in {"settled", "released"}

\* A begin call, or a settlement of b, that the control plane may still receive.
BeginOnWay ==
    \/ \E m \in abandoned : m.kind = "begin"
    \/ \E c \in Callers : call[c].state = "sent" /\ call[c].kind = "begin"
SettleOnWay(b) ==
    \/ \E m \in abandoned : m.kind = "settle" /\ m.body = b
    \/ \E c \in Callers : call[c].state = "sent" /\ call[c].kind = "settle" /\ call[c].body = b

\* The GET request whose begin call the control plane granted.
Sending(h) == handler[h].phase \in {"copying", "checkpoint", "finishing"}
Serves(h) == Sending(h) \/ (handler[h].phase = "begin" /\ call[h].reply = "ok")

\* Calls belong to the phase of their caller; a claim is what the worker read.
CallInv ==
    /\ \A c \in Callers :
           /\ call[c].state # "answered" => call[c].reply = "none"
           /\ call[c].state = "answered" => call[c].reply # "none"
    /\ \A h \in Handlers :
           /\ handler[h].phase \in {"idle", "finishing"} => call[h].state = "idle"
           /\ handler[h].phase = "begin" => call[h].state # "idle" /\ call[h].kind = "begin"
           /\ handler[h].phase \in {"copying", "checkpoint"} =>
                  call[h].state = "idle" \/ call[h].kind = "settle"
    /\ \A w \in Workers : Busy(w) =>
           call[w].kind = "settle" /\ call[w].body = claimed[w].body /\ IsFinal(call[w].body)
    /\ boot # "up" => /\ \A h \in Handlers : handler[h].phase = "idle"
                      /\ \A c \in Callers : call[c].state = "idle"

\* Whoever holds the event knows it, unless its version has moved on.
ClaimInv ==
    /\ outbox.attempts < MaxAttempts
    /\ \A w \in Workers : Holds(w) /\ Busy(w) =>
           /\ claimed[w].version <= outbox.version
           /\ Current(w) => claimed[w].body = outbox.body /\ claimed[w].attempts = outbox.attempts

\* Where the settlement of a session is; a leftover event belongs to a closed reservation.
EventInv ==
    /\ outbox.queued =>
           \/ session.status = "settle_pending" /\ outbox.body = EncodeFinal(session.actual)
           \/ session.status = "none" /\ outbox.replay /\ Closed
    /\ letter.held =>
           \/ session.status = "settle_pending" /\ letter.body = EncodeFinal(session.actual)
           \/ session.status = "none" /\ Closed
    /\ session.status = "settle_pending" => outbox.queued \/ letter.held
    /\ (outbox.queued => IsFinal(outbox.body)) /\ (letter.held => IsFinal(letter.body))

ControlInv ==
    /\ control.status = "consuming" => control.begun
    /\ control.status \in {"reserved", "released"} => ~control.begun
    /\ ~control.begun => control.actual = 0 /\ ~control.overdue

\* A begin that may still take effect has its row on the node.
BeginInv ==
    /\ \A g, h \in Handlers : handler[g].phase = "begin" /\ handler[h].phase = "begin" => g = h
    /\ \A h \in Handlers : handler[h].phase = "begin" =>
           /\ object /\ handler[h].sent = 0
           /\ Closed \/ session.status \in {"begin_pending", "settle_pending"}
           /\ control.status = "consuming" => call[h].reply \in {"ok", "error"}
    /\ (\E m \in abandoned : m.kind = "begin") =>
           \/ Closed
           \/ /\ session.status # "none"
              /\ \A h \in Handlers : handler[h].phase = "begin" => call[h].reply = "error"
    /\ control.status = "consuming" => session.status # "none"

\* One request at most was granted its stream, and all bytes are its.
StreamInv ==
    /\ \A g, h \in Handlers : Serves(g) /\ Serves(h) => g = h
    /\ \A h \in Handlers :
           /\ handler[h].sent <= handler[h].length
           /\ Serves(h) => control.begun /\ ~control.overdue /\ handler[h].sent = delivered
           /\ Sending(h) => Closed \/ session.status \in {"streaming", "settle_pending"}
           /\ Sending(h) /\ ~handler[h].stale => session.status = "streaming"
           /\ handler[h].phase = "begin" /\ call[h].reply = "ok" /\ session.status = "begin_pending" =>
                  control.status = "consuming"
    /\ session.status = "streaming" => control.begun
    /\ ~control.begun => delivered = 0
    /\ StreamIsAuthorised
    /\ ReadersKeepObject

\* What is on its way to an open reservation is progress or the final count of the row.
MessageInv ==
    /\ \A b \in Bodies : SettleOnWay(b) =>
           \/ Closed
           \/ session.status \in {"streaming", "settle_pending"} /\ b \in 1 .. session.actual
           \/ session.status = "settle_pending" /\ b = EncodeFinal(session.actual)
    /\ \A w \in Workers : call[w].reply = "ok" =>
           \/ control.status = "released"
           \/ control.status = "settled" /\ control.actual = DecodedBytes(call[w].body)
    /\ ~Closed => control.actual <= session.actual
    /\ control.actual <= delivered /\ session.actual <= delivered
    /\ session.status \in {"none", "begin_pending"} => session.actual = 0
    /\ ~control.begun => session.actual = 0

Inv == TypeOK /\ CallInv /\ ClaimInv /\ EventInv /\ ControlInv /\ BeginInv /\ StreamInv /\ MessageInv

-----------------------------------------------------------------------------
(* Counts and their encoding. *)

\* The control plane reads a final count back as it was, and knows that it is final;
\* progress is not taken for a final count, unless it is the whole object.
LEMMA Encoding ==
    /\ \A n \in Chunks : /\ EncodeFinal(n) \in Bodies /\ DecodedBytes(EncodeFinal(n)) = n
                         /\ IsFinal(EncodeFinal(n))
    /\ \A b \in Bodies : DecodedBytes(b) \in Chunks
    /\ \A b \in 1 .. Length : /\ b \in Bodies /\ DecodedBytes(b) = b
                              /\ IsFinal(b) <=> b = Length
BY NodeDownloadAssumption DEF Chunks, Bodies, EncodeFinal, DecodedBytes, IsFinal

LEMMA EmptyTypes ==
    /\ NewReservation \in ControlRows /\ NoSession \in SessionRows /\ NoEvent \in Events
    /\ NoLetter \in Letters /\ Idle \in Streams /\ NoCall \in Calls /\ NoClaim \in Claims
    /\ 0 \in Chunks /\ 0 \in Bodies
<1>1. 0 \in Chunks /\ 0 \in Bodies /\ 0 \in 0 .. MaxAttempts
  BY NodeDownloadAssumption DEF Chunks, Bodies
<1>2. NewReservation \in ControlRows /\ NoSession \in SessionRows
  BY <1>1 DEF NewReservation, ControlRows, ControlStatus, NoSession, SessionRows, NodeStatus
<1>3. NoEvent \in Events /\ NoLetter \in Letters /\ NoClaim \in Claims
  BY <1>1 DEF NoEvent, Events, NoLetter, Letters, NoClaim, Claims
<1>4. Idle \in Streams /\ NoCall \in Calls
  BY <1>1 DEF Idle, Streams, NoCall, Calls, Replies
<1> QED
  BY <1>1, <1>2, <1>3, <1>4

LEMMA InitInv == Init => Inv
<1> SUFFICES ASSUME Init PROVE Inv
  OBVIOUS
<1>t. TypeOK
  BY EmptyTypes, NodeDownloadAssumption DEF Init, TypeOK
<1>1. /\ control.status = "reserved" /\ control.actual = 0 /\ ~control.begun /\ ~control.overdue
      /\ session.status = "none" /\ session.actual = 0
      /\ ~outbox.queued /\ outbox.attempts = 0 /\ ~letter.held /\ delivered = 0 /\ abandoned = {}
      /\ object /\ boot = "up"
  BY DEF Init, NewReservation, NoSession, NoEvent, NoLetter
<1>2. /\ \A h \in Handlers : handler[h].phase = "idle" /\ handler[h].sent = 0 /\ handler[h].length = 0
      /\ \A c \in Callers : call[c].state = "idle" /\ call[c].reply = "none"
  BY DEF Init, Idle, NoCall
<1>3. CallInv /\ ClaimInv /\ EventInv /\ ControlInv
  BY <1>1, <1>2, NodeDownloadAssumption DEF CallInv, ClaimInv, EventInv, ControlInv, Callers, Busy, Holds
<1>4. BeginInv /\ StreamInv
  BY <1>1, <1>2 DEF BeginInv, StreamInv, Serves, Sending, StreamIsAuthorised, ReadersKeepObject
<1>5. MessageInv
  BY <1>1, <1>2 DEF MessageInv, SettleOnWay, Callers
<1> QED
  BY <1>t, <1>3, <1>4, <1>5 DEF Inv

-----------------------------------------------------------------------------
(* What the pieces of a step change. *)

LEMMA FaultType == ASSUME TypeOK, NEW k, Fault(k) PROVE faults' \in 0 .. MaxFaults
BY NodeDownloadAssumption DEF TypeOK, Fault

\* The caller has its answer.
LEMMA Replied ==
    ASSUME TypeOK, NEW c \in Callers, NEW r \in Replies,
           call' = [call EXCEPT ![c].state = "answered", ![c].reply = r]
    PROVE  /\ call' \in [Callers -> Calls]
           /\ call'[c].state = "answered" /\ call'[c].reply = r
           /\ call'[c].kind = call[c].kind /\ call'[c].body = call[c].body
           /\ \A d \in Callers \ {c} : call'[d] = call[d]
<1>1. call \in [Callers -> Calls] /\ call[c] \in Calls
  BY DEF TypeOK
<1> DEFINE new == [call[c] EXCEPT !.state = "answered", !.reply = r]
<1>2. call' = [call EXCEPT ![c] = new]
  BY <1>1
<1>3. /\ new \in Calls /\ new.state = "answered" /\ new.reply = r
      /\ new.kind = call[c].kind /\ new.body = call[c].body
  BY <1>1 DEF Calls
<1> HIDE DEF new
<1> QED
  BY <1>1, <1>2, <1>3

LEMMA Hangs ==
    ASSUME TypeOK, NEW c \in Callers, call' = [call EXCEPT ![c] = NoCall]
    PROVE  /\ call' \in [Callers -> Calls]
           /\ call'[c].state = "idle" /\ call'[c].reply = "none"
           /\ \A d \in Callers \ {c} : call'[d] = call[d]
<1>1. call \in [Callers -> Calls] /\ NoCall \in Calls /\ NoCall.state = "idle" /\ NoCall.reply = "none"
  BY EmptyTypes DEF TypeOK, NoCall
<1> QED
  BY <1>1

LEMMA Sends ==
    ASSUME TypeOK, NEW c \in Callers, NEW k \in {"begin", "settle"}, NEW b \in Bodies,
           call' = [call EXCEPT ![c] = Send(k, b)]
    PROVE  /\ call' \in [Callers -> Calls]
           /\ call'[c].state = "sent" /\ call'[c].kind = k /\ call'[c].body = b /\ call'[c].reply = "none"
           /\ \A d \in Callers \ {c} : call'[d] = call[d]
<1>1. /\ Send(k, b) \in Calls /\ Send(k, b).state = "sent" /\ Send(k, b).kind = k
      /\ Send(k, b).body = b /\ Send(k, b).reply = "none"
  BY DEF Send, Calls, Replies
<1>2. call \in [Callers -> Calls]
  BY DEF TypeOK
<1> QED
  BY <1>1, <1>2

\* The request is over, or goes on to its next phase.
LEMMA Rests ==
    ASSUME TypeOK, NEW h \in Handlers, handler' = [handler EXCEPT ![h] = Idle]
    PROVE  /\ handler' \in [Handlers -> Streams]
           /\ handler'[h].phase = "idle" /\ handler'[h].sent = 0 /\ handler'[h].length = 0
           /\ \A g \in Handlers \ {h} : handler'[g] = handler[g]
<1>1. /\ handler \in [Handlers -> Streams] /\ Idle \in Streams
      /\ Idle.phase = "idle" /\ Idle.sent = 0 /\ Idle.length = 0
  BY EmptyTypes DEF TypeOK, Idle
<1> QED
  BY <1>1

LEMMA Proceeds ==
    ASSUME TypeOK, NEW h \in Handlers, NEW p \in {"copying", "checkpoint", "finishing"}, handler' = HandlerAs(h, p)
    PROVE  /\ handler' \in [Handlers -> Streams]
           /\ handler'[h].phase = p /\ handler'[h].sent = handler[h].sent
           /\ handler'[h].length = handler[h].length /\ handler'[h].stale = handler[h].stale
           /\ \A g \in Handlers \ {h} : handler'[g] = handler[g]
<1>1. handler \in [Handlers -> Streams] /\ handler[h] \in Streams
  BY DEF TypeOK
<1> DEFINE new == [handler[h] EXCEPT !.phase = p]
<1>2. handler' = [handler EXCEPT ![h] = new]
  BY <1>1 DEF HandlerAs
<1>3. /\ new \in Streams /\ new.phase = p /\ new.sent = handler[h].sent
      /\ new.length = handler[h].length /\ new.stale = handler[h].stale
  BY <1>1 DEF Streams
<1> HIDE DEF new
<1> QED
  BY <1>1, <1>2, <1>3

\* The session's count is final and its event is in the outbox.
LEMMA Queues ==
    ASSUME TypeOK, NEW n \in Chunks, QueueSettlement(n)
    PROVE  /\ session' \in SessionRows /\ session'.status = "settle_pending" /\ session'.actual = n
           /\ session'.stream = session.stream
           /\ outbox' \in Events /\ outbox'.queued /\ outbox'.body = EncodeFinal(n)
           /\ IF outbox.queued
              THEN /\ outbox'.version = outbox.version + 1 /\ outbox'.attempts = outbox.attempts
                   /\ outbox'.claim = outbox.claim /\ outbox'.replay = outbox.replay
              ELSE outbox'.claim = None /\ outbox'.attempts = 0
<1>1. session \in SessionRows /\ outbox \in Events /\ NoEvent \in Events /\ EncodeFinal(n) \in Bodies
  BY EmptyTypes, Encoding DEF TypeOK
<1>2. /\ session' \in SessionRows /\ session'.status = "settle_pending" /\ session'.actual = n
      /\ session'.stream = session.stream
  BY <1>1 DEF QueueSettlement, SessionRows, NodeStatus
<1> DEFINE b == EncodeFinal(n)
<1>3. outbox' = IF outbox.queued THEN [outbox EXCEPT !.body = b, !.version = outbox.version + 1]
                ELSE [NoEvent EXCEPT !.queued = TRUE, !.body = b, !.version = 1]
  BY <1>1 DEF QueueSettlement, Enqueued, Events
<1>4. b \in Bodies
  BY <1>1
<1> HIDE DEF b
<1>5. CASE outbox.queued
  <2>1. outbox' = [outbox EXCEPT !.body = b, !.version = outbox.version + 1] /\ outbox.version + 1 \in Nat
    BY <1>1, <1>3, <1>5 DEF Events
  <2>2. /\ outbox' \in Events /\ outbox'.queued = outbox.queued /\ outbox'.body = b
        /\ outbox'.version = outbox.version + 1 /\ outbox'.attempts = outbox.attempts
        /\ outbox'.claim = outbox.claim /\ outbox'.replay = outbox.replay
    BY <1>1, <1>4, <2>1 DEF Events
  <2> QED
    BY <1>2, <1>5, <2>2 DEF b
<1>6. CASE ~outbox.queued
  <2>1. outbox' = [NoEvent EXCEPT !.queued = TRUE, !.body = b, !.version = 1]
    BY <1>3, <1>6
  <2>2. /\ outbox' \in Events /\ outbox'.queued /\ outbox'.body = b
        /\ outbox'.claim = NoEvent.claim /\ outbox'.attempts = NoEvent.attempts
    BY <1>1, <1>4, <2>1 DEF Events
  <2>3. NoEvent.claim = None /\ NoEvent.attempts = 0
    BY DEF NoEvent
  <2> QED
    BY <1>2, <1>6, <2>2, <2>3 DEF b
<1> QED
  BY <1>5, <1>6

\* Giving up a call does not take its request back.
LEMMA OnWayKept ==
    ASSUME abandoned' \subseteq abandoned \cup UnansweredOf(Callers),
           \A c \in Callers : call'[c] = call[c] \/ call'[c].state # "sent"
    PROVE  /\ \A b : SettleOnWay(b)' => SettleOnWay(b)
           /\ BeginOnWay' => BeginOnWay
<1>1. \A m \in UnansweredOf(Callers) :
          \E c \in Callers : call[c].state = "sent" /\ m.kind = call[c].kind /\ m.body = call[c].body
  BY DEF UnansweredOf
<1> QED
  BY <1>1 DEF SettleOnWay, BeginOnWay

-----------------------------------------------------------------------------
(* The control plane. *)

\* What may happen to the reservation besides being opened: it is kept, records
\* progress, or is closed, and a closed one is kept as it is.
Settles(new) ==
    /\ new \in ControlRows /\ (Closed => new = control)
    /\ new.begun = control.begun /\ new.overdue = control.overdue
    /\ new.status \in {control.status, "settled", "released"}
    /\ new.status = "released" => ~control.begun
    /\ control.actual <= new.actual /\ new.actual <= delivered
    /\ new.status \notin {"settled", "released"} => new.actual <= session.actual
    /\ ~control.begun => new.actual = 0
    /\ session.status = "streaming" /\ ~Closed /\ new.status = "settled" =>
           new.actual = Length \/ control.overdue
    /\ session.status = "begin_pending" /\ control.status = "consuming" /\ ~control.overdue => new = control

\* A settlement that is on its way does to the row what Settles says, and the answer to
\* a final one tells the truth.
LEMMA SettleEffect ==
    ASSUME Inv, NEW b \in Bodies, SettleOnWay(b)
    PROVE  /\ Settles(SettleOutcome(b).row) /\ SettleOutcome(b).reply \in {"ok", "conflict"}
           /\ IsFinal(b) /\ SettleOutcome(b).reply = "ok" =>
                  \/ SettleOutcome(b).row.status = "released"
                  \/ SettleOutcome(b).row.status = "settled" /\ SettleOutcome(b).row.actual = DecodedBytes(b)
<1> DEFINE n == DecodedBytes(b)
<1>t. /\ control \in ControlRows /\ control.actual \in Nat /\ session.actual \in Nat /\ delivered \in Nat
      /\ control.actual \in Chunks /\ session.actual \in Chunks
      /\ control.status \in ControlStatus /\ Length \in Nat \ {0} /\ n \in Chunks
  BY NodeDownloadAssumption, Encoding DEF Inv, TypeOK, ControlRows, SessionRows, Chunks
<1>a. control.actual <= delivered /\ session.actual <= delivered /\ (~Closed => control.actual <= session.actual)
  BY DEF Inv, MessageInv
<1>s. Settles(control)
  BY <1>t, <1>a DEF Settles, Closed, Inv, ControlInv
\* An open reservation: the count is progress, or the count of the row.
<1>m. ASSUME ~Closed
      PROVE  /\ n <= session.actual /\ n \in Nat
             /\ session.status \in {"streaming", "settle_pending"}
             /\ session.status = "streaming" => b \in 1 .. Length /\ n = b
             /\ IsFinal(b) => control.actual <= n
  <2>1. \/ session.status \in {"streaming", "settle_pending"} /\ b \in 1 .. session.actual
        \/ session.status = "settle_pending" /\ b = EncodeFinal(session.actual)
    BY <1>m DEF Inv, MessageInv
  <2>2. CASE session.status \in {"streaming", "settle_pending"} /\ b \in 1 .. session.actual
    <3>1. b \in 1 .. Length /\ n = b /\ (IsFinal(b) => n = Length)
      BY <1>t, <2>2, Encoding DEF Chunks
    <3> QED
      BY <1>t, <2>2, <3>1 DEF Chunks
  <2>3. CASE session.status = "settle_pending" /\ b = EncodeFinal(session.actual)
    <3>1. n = session.actual
      BY <1>t, <2>3, Encoding
    <3> QED
      BY <1>a, <1>m, <1>t, <2>3, <3>1
  <2> QED
    BY <2>1, <2>2, <2>3
<1> DEFINE done == [control EXCEPT !.status = "settled", !.actual = n]
           noted == [control EXCEPT !.actual = n]
<1>d. /\ done \in ControlRows /\ done.status = "settled" /\ done.actual = n
      /\ done.begun = control.begun /\ done.overdue = control.overdue
      /\ noted \in ControlRows /\ noted.status = control.status /\ noted.actual = n
      /\ noted.begun = control.begun /\ noted.overdue = control.overdue
  BY <1>t DEF ControlRows, ControlStatus
<1>o. SettleOutcome(b) =
        CASE control.status = "released" -> [row |-> control, reply |-> "ok"]
          [] control.status = "settled" -> [row |-> control, reply |-> IF control.actual = n THEN "ok" ELSE "conflict"]
          [] control.status = "reserved" -> [row |-> done, reply |-> "ok"]
          [] control.status = "consuming" /\ IsFinal(b) -> [row |-> done, reply |-> "ok"]
          [] control.status = "consuming" /\ ~IsFinal(b) ->
                IF Regresses(n) THEN [row |-> control, reply |-> "conflict"]
                ELSE IF control.overdue THEN [row |-> done, reply |-> "ok"]
                ELSE [row |-> noted, reply |-> "ok"]
  BY DEF SettleOutcome
<1> HIDE DEF n, done, noted
<1>1. CASE Closed
  BY <1>1, <1>o, <1>s DEF Closed, n
<1>2. CASE control.status = "reserved"
  <2>1. SettleOutcome(b).row = done /\ SettleOutcome(b).reply = "ok"
    BY <1>2, <1>o
  <2>2. ~control.begun /\ session.actual = 0 /\ session.status # "streaming" /\ ~Closed /\ control.actual = 0
    BY <1>2 DEF Inv, ControlInv, MessageInv, StreamInv, Closed
  <2>3. n = 0
    BY <1>m, <2>2
  <2>4. Settles(done)
    BY <1>2, <1>a, <1>d, <1>t, <2>2, <2>3 DEF Settles
  <2> QED
    BY <1>d, <2>1, <2>4 DEF n
<1>3. CASE control.status = "consuming"
  <2>0. ~Closed /\ control.begun
    BY <1>3 DEF Closed, Inv, ControlInv
  <2>1. CASE IsFinal(b)
    <3>1. SettleOutcome(b).row = done /\ SettleOutcome(b).reply = "ok"
      BY <1>3, <1>o, <2>1
    <3>2. session.status = "streaming" => n = Length
      BY <1>m, <2>0, <2>1, Encoding
    <3>3. Settles(done)
      BY <1>3, <1>a, <1>d, <1>m, <1>t, <2>0, <2>1, <3>2 DEF Settles
    <3> QED
      BY <1>d, <3>1, <3>3 DEF n
  <2>2. CASE ~IsFinal(b) /\ Regresses(n)
    BY <1>3, <1>o, <1>s, <2>2
  <2>3. CASE ~IsFinal(b) /\ ~Regresses(n)
    <3>1. /\ SettleOutcome(b).row = (IF control.overdue THEN done ELSE noted)
          /\ SettleOutcome(b).reply = "ok"
      BY <1>3, <1>o, <2>3
    <3>2. control.actual <= n
      BY <1>t, <1>m, <2>0, <2>3 DEF Regresses
    <3>3. control.overdue => Settles(done)
      BY <1>3, <1>a, <1>d, <1>m, <1>t, <2>0, <3>2 DEF Settles
    <3>4. ~control.overdue => Settles(noted)
      BY <1>3, <1>a, <1>d, <1>m, <1>t, <2>0, <3>2 DEF Settles
    <3> QED
      BY <2>3, <3>1, <3>3, <3>4
  <2> QED
    BY <2>1, <2>2, <2>3
<1> QED
  BY <1>1, <1>2, <1>3, <1>t DEF Closed, ControlStatus

\* The reservation is kept, noted or closed, and at most one caller gets its answer.
LEMMA ControlSettles ==
    ASSUME Inv, Settles(control'), abandoned' \subseteq abandoned, faults' \in 0 .. MaxFaults,
           UNCHANGED <<session, outbox, letter, object, boot, handler, claimed, delivered>>,
           call' \in [Callers -> Calls],
           \A c \in Callers :
               \/ call'[c] = call[c]
               \/ /\ call[c].state = "sent" /\ call'[c].state = "answered"
                  /\ call'[c].kind = call[c].kind /\ call'[c].body = call[c].body
                  /\ call'[c].reply \in {"ok", "conflict", "denied"}
                  /\ call[c].kind = "begin" => call'[c].reply # "ok"
                  /\ c \in Workers /\ call'[c].reply = "ok" =>
                         \/ control'.status = "released"
                         \/ control'.status = "settled" /\ control'.actual = DecodedBytes(call[c].body)
    PROVE  Inv'
<1>t. TypeOK /\ Handlers \subseteq Callers /\ Workers \subseteq Callers
  BY DEF Inv, Callers
<1>1. TypeOK'
  BY <1>t DEF TypeOK, Settles
<1>2. CallInv'
  BY <1>t DEF Inv, CallInv, Busy
<1>3. ClaimInv'
  BY <1>t DEF Inv, ClaimInv, Busy, Holds, Current
<1>c. Closed => Closed' /\ control' = control
  BY DEF Settles, Closed
<1>4. EventInv'
  BY <1>c DEF Inv, EventInv
<1>5. ControlInv'
  BY <1>c DEF Inv, ControlInv, Settles, Closed
<1>6. BeginInv'
  <2>1. \A h \in Handlers : handler[h].phase = "begin" =>
            \/ call'[h] = call[h]
            \/ call[h].reply = "none" /\ call'[h].reply # "none"
    BY <1>t DEF Inv, CallInv
  <2>2. control'.status = "consuming" => control.status = "consuming"
    BY DEF Settles
  <2> QED
    BY <1>c, <2>1, <2>2 DEF Inv, BeginInv
<1>7. StreamInv'
  <2>1. \A h \in Handlers : Serves(h)' => Serves(h)
    BY <1>t DEF Serves, Sending, Inv, CallInv
  <2>2. \A h \in Handlers : Sending(h)' => Sending(h)
    BY DEF Sending
  <2>3. \A h \in Handlers : handler[h].phase = "begin" /\ call'[h].reply = "ok" => call[h].reply = "ok"
    BY <1>t DEF Inv, CallInv
  <2>4. \A h \in Handlers : handler[h].phase = "begin" /\ call'[h].reply = "ok" /\ session.status = "begin_pending" =>
            control' = control /\ control.status = "consuming"
    <3> SUFFICES ASSUME NEW h \in Handlers, handler[h].phase = "begin", call'[h].reply = "ok",
                        session.status = "begin_pending"
                 PROVE  control' = control /\ control.status = "consuming"
      OBVIOUS
    <3>1. Serves(h) /\ control.status = "consuming"
      BY <2>3 DEF Serves, Inv, StreamInv
    <3>2. ~control.overdue
      BY <3>1 DEF Inv, StreamInv
    <3> QED
      BY <3>1, <3>2 DEF Settles
  <2>5. StreamIsAuthorised'
    BY <1>t DEF Settles, Closed, Inv, StreamInv, StreamIsAuthorised
  <2>6. ReadersKeepObject'
    BY DEF Inv, StreamInv, ReadersKeepObject
  <2> QED
    BY <1>c, <2>1, <2>2, <2>4, <2>5, <2>6 DEF Inv, StreamInv, Settles
<1>8. MessageInv'
  <2>1. \A b : SettleOnWay(b)' => SettleOnWay(b)
    BY <1>t, OnWayKept
  <2>2. \A w \in Workers : call'[w].reply = "ok" =>
           \/ control'.status = "released"
           \/ control'.status = "settled" /\ control'.actual = DecodedBytes(call'[w].body)
    BY <1>c, <1>t DEF Inv, MessageInv, Closed
  <2> QED
    BY <1>c, <2>1, <2>2 DEF Inv, MessageInv, Settles, Closed
<1> QED
  BY <1>1, <1>2, <1>3, <1>4, <1>5, <1>6, <1>7, <1>8 DEF Inv

\* The reservation is opened: for the request that waits, or for one that has given up
\* and left a row that will be settled.
LEMMA ControlGrants ==
    ASSUME Inv, control.status = "reserved", abandoned' \subseteq abandoned,
           control' = [control EXCEPT !.status = "consuming", !.begun = TRUE],
           UNCHANGED <<session, outbox, letter, object, boot, handler, claimed, delivered, faults>>,
           \/ call' = call /\ \E m \in abandoned : m.kind = "begin"
           \/ \E c \in Callers : /\ call[c].state = "sent" /\ call[c].kind = "begin"
                                 /\ call' = [call EXCEPT ![c].state = "answered", ![c].reply = "ok"]
    PROVE  Inv'
<1>t. TypeOK /\ control \in ControlRows /\ Handlers \subseteq Callers /\ Workers \subseteq Callers
  BY DEF Inv, TypeOK, Callers
<1>k. /\ control' \in ControlRows /\ control'.status = "consuming" /\ control'.begun
      /\ control'.actual = control.actual /\ control'.overdue = control.overdue
  BY <1>t DEF ControlRows, ControlStatus
<1>r. /\ ~Closed /\ ~Closed' /\ ~control.begun /\ ~control.overdue /\ control.actual = 0 /\ delivered = 0
      /\ session.actual = 0 /\ session.status # "streaming" /\ \A h \in Handlers : ~Serves(h)
  BY <1>k DEF Closed, Inv, ControlInv, StreamInv, MessageInv
<1>w. \A w \in Workers : call[w].reply # "ok"
  BY <1>r DEF Inv, MessageInv, Closed
\* Who is answered, and which requests are in their begin phase.
<1> DEFINE Granted(c) ==
      /\ handler[c].phase = "begin" /\ call[c].state = "sent"
      /\ call'[c].state = "answered" /\ call'[c].reply = "ok"
      /\ call'[c].kind = call[c].kind /\ call'[c].body = call[c].body
      /\ \A d \in Callers \ {c} : call'[d] = call[d]
      /\ \A h \in Handlers \ {c} : handler[h].phase # "begin"
      /\ ~\E m \in abandoned : m.kind = "begin"
<1>1. /\ call' \in [Callers -> Calls] /\ session.status # "none"
      /\ \/ call' = call /\ \A h \in Handlers : handler[h].phase = "begin" => call[h].reply = "error"
         \/ \E c \in Handlers : Granted(c)
  <2>1. CASE call' = call /\ \E m \in abandoned : m.kind = "begin"
    BY <1>r, <1>t, <2>1 DEF TypeOK, Inv, BeginInv
  <2>2. ASSUME NEW c \in Callers, call[c].state = "sent", call[c].kind = "begin",
               call' = [call EXCEPT ![c].state = "answered", ![c].reply = "ok"]
        PROVE  call' \in [Callers -> Calls] /\ session.status # "none" /\ \E g \in Handlers : Granted(g)
    <3>1. c \in Handlers /\ handler[c].phase = "begin" /\ call[c].reply = "none"
      <4>1. c \in Handlers
        BY <2>2 DEF Inv, CallInv, Busy, Callers
      <4>2. handler[c] \in Streams
        BY <1>t, <4>1 DEF TypeOK
      <4> QED
        BY <2>2, <4>1, <4>2 DEF Inv, CallInv, Streams
    <3>2. "ok" \in Replies
      BY DEF Replies
    <3>3. /\ call' \in [Callers -> Calls] /\ call'[c].state = "answered" /\ call'[c].reply = "ok"
          /\ call'[c].kind = call[c].kind /\ call'[c].body = call[c].body
          /\ \A d \in Callers \ {c} : call'[d] = call[d]
      BY <1>t, <2>2, <3>2, Replied
    <3>4. /\ \A h \in Handlers \ {c} : handler[h].phase # "begin"
          /\ ~\E m \in abandoned : m.kind = "begin"
          /\ session.status # "none"
      BY <1>r, <3>1 DEF Inv, BeginInv
    <3> QED
      BY <2>2, <3>1, <3>3, <3>4
  <2> QED
    BY <2>1, <2>2
<1>2. TypeOK' /\ ClaimInv' /\ EventInv' /\ ControlInv'
  <2>1. TypeOK'
    <3>1. abandoned' \subseteq Requests
      BY <1>t DEF TypeOK
    <3> QED
      BY <1>1, <1>k, <1>t, <3>1 DEF TypeOK
  <2>2. \A w \in Workers : call'[w] = call[w]
    BY <1>1, <1>t, NodeDownloadAssumption
  <2>3. ClaimInv'
    BY <2>2 DEF Inv, ClaimInv, Busy, Holds, Current
  <2>4. EventInv' /\ ControlInv'
    BY <1>k, <1>r DEF Inv, EventInv, ControlInv
  <2> QED
    BY <2>1, <2>3, <2>4
<1>3. CallInv'
  <2>1. \A c \in Callers : \/ call'[c] = call[c]
                           \/ /\ call[c].state = "sent" /\ call'[c].state = "answered" /\ call'[c].reply = "ok"
                              /\ call'[c].kind = call[c].kind /\ call'[c].body = call[c].body
    BY <1>1
  <2> QED
    BY <1>t, <2>1 DEF Inv, CallInv, Busy
<1>4. BeginInv'
  BY <1>1, <1>k, <1>r DEF Inv, BeginInv
<1>5. StreamInv'
  <2>1. \A h \in Handlers : ~Sending(h) /\ ~Sending(h)'
    BY <1>r DEF Serves, Sending
  <2>2. \A h \in Handlers : Serves(h)' => /\ handler[h].phase = "begin" /\ call'[h] # call[h]
                                          /\ handler[h].sent = 0
    BY <1>r, <2>1 DEF Serves, Inv, BeginInv
  <2>3. \A g, h \in Handlers : Serves(g)' /\ Serves(h)' => g = h
    BY <1>1, <1>t, <2>2 DEF Inv, BeginInv
  <2>4. StreamIsAuthorised' /\ ReadersKeepObject'
    BY <1>r DEF StreamIsAuthorised, ReadersKeepObject, Inv, StreamInv
  <2> QED
    BY <1>k, <1>r, <2>1, <2>2, <2>3, <2>4 DEF Inv, StreamInv
<1>6. MessageInv'
  <2>1. \A c \in Callers : call'[c] = call[c] \/ call'[c].state # "sent"
    BY <1>1
  <2>2. \A b : SettleOnWay(b)' => SettleOnWay(b)
    BY <2>1, OnWayKept
  <2>3. \A w \in Workers : call'[w].reply # "ok"
    BY <1>1, <1>t, <1>w, NodeDownloadAssumption
  <2> QED
    BY <1>k, <1>r, <2>2, <2>3 DEF Inv, MessageInv
<1> QED
  BY <1>2, <1>3, <1>4, <1>5, <1>6 DEF Inv

LEMMA KeepingSettles == Inv => Settles(control)
<1> SUFFICES ASSUME Inv PROVE Settles(control)
  OBVIOUS
<1>1. control \in ControlRows /\ control.actual \in Nat
  BY DEF Inv, TypeOK, ControlRows, Chunks
<1> QED
  BY <1>1 DEF Settles, Closed, Inv, ControlInv, MessageInv

\* The ticket is refused because its transfer is gone, or expires unused.
LEMMA ReleaseSettles ==
    ASSUME Inv, control.status = "reserved"
    PROVE  Settles([control EXCEPT !.status = "released"])
<1>1. control \in ControlRows /\ control.actual \in Nat
  BY DEF Inv, TypeOK, ControlRows, Chunks
<1> DEFINE new == [control EXCEPT !.status = "released"]
<1>2. /\ new \in ControlRows /\ new.status = "released" /\ new.actual = control.actual
      /\ new.begun = control.begun /\ new.overdue = control.overdue
  BY <1>1 DEF ControlRows, ControlStatus
<1> HIDE DEF new
<1>3. Settles(new)
  BY <1>1, <1>2 DEF Settles, Closed, Inv, ControlInv, MessageInv
<1> QED
  BY <1>3 DEF new

LEMMA BeginEffect ==
    ASSUME Inv, NEW o \in BeginOutcomes
    PROVE  \/ Settles(o.row) /\ o.reply = "conflict"
           \/ /\ control.status = "reserved" /\ o.reply = "ok"
              /\ o.row = [control EXCEPT !.status = "consuming", !.begun = TRUE]
BY KeepingSettles, ReleaseSettles DEF BeginOutcomes

\* A caller that waits for anything but a begin waits for a settlement.
LEMMA WaitsForSettlement ==
    ASSUME Inv, NEW c \in Callers, call[c].state = "sent", call[c].kind # "begin"
    PROVE  call[c].body \in Bodies /\ SettleOnWay(call[c].body)
<1>t. call \in [Callers -> Calls] /\ handler \in [Handlers -> Streams]
  BY DEF Inv, TypeOK
<1>1. call[c].body \in Bodies /\ call[c].kind \in {"none", "begin", "settle"}
  BY <1>t DEF Calls
<1>2. call[c].kind # "none"
  <2>1. c \in Workers => call[c].kind = "settle"
    BY DEF Inv, CallInv, Busy
  <2>2. c \in Handlers => handler[c] \in Streams
    BY <1>t
  <2>3. c \in Handlers => call[c].kind \in {"begin", "settle"}
    BY <2>2 DEF Inv, CallInv, Streams
  <2> QED
    BY <2>1, <2>3 DEF Callers
<1> QED
  BY <1>1, <1>2 DEF SettleOnWay

LEMMA ControlStepKeeps == ASSUME Inv, ControlStep PROVE Inv'
<1>t. /\ TypeOK /\ call \in [Callers -> Calls] /\ faults \in 0 .. MaxFaults
      /\ Handlers \subseteq Callers /\ Workers \subseteq Callers
  BY DEF Inv, TypeOK, Callers
\* A caller that waits, or nobody, is answered.
<1>a. ASSUME NEW c \in Callers, call[c].state = "sent", NEW r \in {"ok", "conflict", "denied"},
             call' = [call EXCEPT ![c].state = "answered", ![c].reply = r],
             Settles(control'), call[c].kind = "begin" => r # "ok",
             c \in Workers /\ r = "ok" =>
                 \/ control'.status = "released"
                 \/ control'.status = "settled" /\ control'.actual = DecodedBytes(call[c].body),
             abandoned' \subseteq abandoned, faults' \in 0 .. MaxFaults,
             UNCHANGED <<session, outbox, letter, object, boot, handler, claimed, delivered>>
      PROVE  Inv'
  <2>1. r \in Replies
    BY DEF Replies
  <2>2. /\ call' \in [Callers -> Calls] /\ call'[c].state = "answered" /\ call'[c].reply = r
        /\ call'[c].kind = call[c].kind /\ call'[c].body = call[c].body
        /\ \A d \in Callers \ {c} : call'[d] = call[d]
    BY <1>a, <1>t, <2>1, Replied
  <2> QED
    BY <1>a, <2>2, ControlSettles
<1>n. ASSUME call' = call, Settles(control'), abandoned' \subseteq abandoned, faults' \in 0 .. MaxFaults,
             UNCHANGED <<session, outbox, letter, object, boot, handler, claimed, delivered>>
      PROVE  Inv'
  BY <1>n, <1>t, ControlSettles
<1>1. ASSUME NEW c \in Callers, Answer(c) PROVE Inv'
  <2>1. PICK o \in Outcomes(call[c]) : control' = o.row /\ call' = [call EXCEPT ![c].state = "answered", ![c].reply = o.reply]
    BY <1>1 DEF Answer
  <2>2. /\ call[c].state = "sent" /\ abandoned' = abandoned /\ faults' = faults
        /\ UNCHANGED <<session, outbox, letter, object, boot, handler, claimed, delivered>>
    BY <1>1 DEF Answer
  <2>3. CASE call[c].kind = "begin"
    <3>1. o \in BeginOutcomes
      BY <2>1, <2>3 DEF Outcomes
    <3>2. CASE Settles(o.row) /\ o.reply = "conflict"
      BY <1>a, <1>t, <2>1, <2>2, <3>2
    <3>3. CASE /\ control.status = "reserved" /\ o.reply = "ok"
               /\ o.row = [control EXCEPT !.status = "consuming", !.begun = TRUE]
      BY <2>1, <2>2, <2>3, <3>3, ControlGrants
    <3> QED
      BY <3>1, <3>2, <3>3, BeginEffect
  <2>4. CASE call[c].kind # "begin"
    <3>1. o = SettleOutcome(call[c].body) /\ call[c].body \in Bodies /\ SettleOnWay(call[c].body)
      BY <2>1, <2>2, <2>4, WaitsForSettlement DEF Outcomes
    <3>2. c \in Workers => IsFinal(call[c].body)
      BY <2>2 DEF Inv, CallInv, Busy
    <3> QED
      BY <1>a, <1>t, <2>1, <2>2, <2>4, <3>1, <3>2, SettleEffect
  <2> QED
    BY <2>3, <2>4
<1>2. ASSUME NEW c \in Callers, Refuse(c) PROVE Inv'
  <2>1. faults' \in 0 .. MaxFaults
    BY <1>2, <1>t, FaultType DEF Refuse
  <2>2. PICK r \in {"denied", "conflict"} : call' = [call EXCEPT ![c].state = "answered", ![c].reply = r]
    BY <1>2 DEF Refuse
  <2> QED
    BY <1>2, <1>a, <2>1, <2>2, KeepingSettles DEF Refuse
<1>4. ASSUME NEW m \in abandoned, ReceiveAbandoned(m) PROVE Inv'
  <2>1. PICK o \in Outcomes(m) : control' = o.row
    BY <1>4 DEF ReceiveAbandoned
  <2>2. /\ call' = call /\ abandoned' \subseteq abandoned /\ faults' = faults
        /\ UNCHANGED <<session, outbox, letter, object, boot, handler, claimed, delivered>>
    BY <1>4 DEF ReceiveAbandoned
  <2>3. m.kind \in {"begin", "settle"} /\ m.body \in Bodies
    BY <1>t DEF TypeOK, Requests
  <2>4. CASE m.kind = "begin"
    <3>1. o \in BeginOutcomes
      BY <2>1, <2>4 DEF Outcomes
    <3> QED
      BY <1>n, <1>t, <2>1, <2>2, <2>4, <3>1, BeginEffect, ControlGrants
  <2>5. CASE m.kind = "settle"
    <3>1. o = SettleOutcome(m.body) /\ SettleOnWay(m.body)
      BY <2>1, <2>5 DEF Outcomes, SettleOnWay
    <3> QED
      BY <1>n, <1>t, <2>1, <2>2, <2>3, <3>1, SettleEffect
  <2> QED
    BY <2>3, <2>4, <2>5
<1>5. CASE ReleaseExpired
  BY <1>5, <1>n, <1>t, ReleaseSettles DEF ReleaseExpired
<1>6. CASE ForceSettle
  <2>1. control \in ControlRows /\ control.actual \in Nat
    BY <1>t DEF TypeOK, ControlRows, Chunks
  <2>2. /\ control' \in ControlRows /\ control'.status = "settled" /\ control'.actual = control.actual
        /\ control'.begun = control.begun /\ control'.overdue = control.overdue
    BY <1>6, <2>1 DEF ForceSettle, ControlRows, ControlStatus
  <2>3. control.status = "consuming" /\ control.overdue
    BY <1>6 DEF ForceSettle
  <2>4. Settles(control')
    BY <2>1, <2>2, <2>3 DEF Settles, Closed, Inv, ControlInv, MessageInv
  <2> QED
    BY <1>6, <1>n, <1>t, <2>4 DEF ForceSettle
<1>7. CASE PassDeadline
  <2>1. /\ control.status = "consuming" /\ faults' \in 0 .. MaxFaults
        /\ \A h \in Handlers : handler[h].phase = "idle"
        /\ UNCHANGED <<session, outbox, letter, object, boot, handler, claimed, call, abandoned, delivered>>
    BY <1>7, <1>t, FaultType DEF PassDeadline
  <2>2. /\ control' \in ControlRows /\ control'.status = "consuming" /\ control'.actual = control.actual
        /\ control'.begun = control.begun /\ control'.overdue
    BY <1>7, <1>t DEF PassDeadline, TypeOK, ControlRows
  <2>3. ~Closed /\ ~Closed' /\ control.begun
    BY <2>1, <2>2 DEF Closed, Inv, ControlInv
  <2>4. TypeOK' /\ CallInv' /\ ClaimInv' /\ EventInv' /\ ControlInv'
    <3>1. TypeOK' /\ CallInv' /\ ClaimInv'
      BY <1>t, <2>1, <2>2 DEF Inv, TypeOK, CallInv, ClaimInv, Busy, Holds, Current
    <3>2. EventInv' /\ ControlInv'
      BY <2>1, <2>2, <2>3 DEF Inv, EventInv, ControlInv
    <3> QED
      BY <3>1, <3>2
  <2>5. BeginInv'
    BY <2>1, <2>2, <2>3 DEF Inv, BeginInv
  <2>6. StreamInv'
    <3>1. \A h \in Handlers : ~Serves(h)' /\ ~Sending(h)'
      BY <2>1 DEF Serves, Sending
    <3>2. StreamIsAuthorised' /\ ReadersKeepObject'
      BY <2>1, <2>2 DEF StreamIsAuthorised, ReadersKeepObject
    <3> QED
      BY <2>1, <2>2, <2>3, <3>1, <3>2 DEF Inv, StreamInv
  <2>7. MessageInv'
    <3>1. \A b : SettleOnWay(b)' => SettleOnWay(b)
      BY <2>1 DEF SettleOnWay
    <3>2. \A w \in Workers : call[w].reply # "ok"
      BY <2>3 DEF Inv, MessageInv, Closed
    <3> QED
      BY <2>1, <2>2, <2>3, <3>1, <3>2 DEF Inv, MessageInv
  <2> QED
    BY <2>4, <2>5, <2>6, <2>7 DEF Inv
\* The caller gives up; its request stays on the way.
<1>8. ASSUME NEW c \in Callers, TimeOut(c) PROVE Inv'
  <2>1. /\ call[c].state # "idle" /\ faults' \in 0 .. MaxFaults
        /\ abandoned' = abandoned \cup UnansweredOf({c})
        /\ UNCHANGED <<control, session, outbox, letter, object, boot, handler, claimed, delivered>>
    BY <1>8, <1>t, FaultType DEF TimeOut
  <2>2. /\ call' \in [Callers -> Calls] /\ call'[c].state = "answered" /\ call'[c].reply = "error"
        /\ call'[c].kind = call[c].kind /\ call'[c].body = call[c].body
        /\ \A d \in Callers \ {c} : call'[d] = call[d]
    <3>1. "error" \in Replies
      BY DEF Replies
    <3> QED
      BY <1>8, <1>t, <3>1, Replied DEF TimeOut
  <2>3. UnansweredOf({c}) \subseteq UnansweredOf(Callers) /\
        \A m \in UnansweredOf({c}) : /\ call[c].state = "sent" /\ m.kind = call[c].kind /\ m.body = call[c].body
                                     /\ m = [kind |-> call[c].kind, body |-> call[c].body]
    BY DEF UnansweredOf
  <2>4. call[c].kind \in {"begin", "settle"} /\ call[c].body \in Bodies /\ (call[c].kind = "begin" => c \in Handlers /\ handler[c].phase = "begin")
    <3>1. call[c].body \in Bodies
      BY <1>t DEF Calls
    <3>2. CASE c \in Workers
      BY <2>1, <3>1, <3>2 DEF Inv, CallInv, Busy
    <3>3. CASE c \in Handlers
      <4>1. handler[c] \in Streams
        BY <1>t, <3>3 DEF TypeOK
      <4> QED
        BY <2>1, <3>1, <3>3, <4>1 DEF Inv, CallInv, Streams
    <3> QED
      BY <3>2, <3>3 DEF Callers
  <2>5. TypeOK'
    <3>1. UnansweredOf({c}) \subseteq Requests
      BY <2>3, <2>4 DEF Requests
    <3> QED
      BY <1>t, <2>1, <2>2, <3>1 DEF TypeOK
  <2>6. CallInv' /\ ClaimInv'
    BY <1>t, <2>1, <2>2 DEF Inv, CallInv, ClaimInv, Busy, Holds, Current
  <2>7. EventInv' /\ ControlInv'
    BY <2>1 DEF Inv, EventInv, ControlInv, Closed
  <2>8. BeginInv'
    <3>1. CASE call[c].kind = "begin"
      <4>1. c \in Handlers /\ handler[c].phase = "begin" /\ call'[c].reply = "error"
        BY <2>2, <2>4, <3>1
      <4>2. \A h \in Handlers : handler[h].phase = "begin" => h = c
        BY <4>1 DEF Inv, BeginInv
      <4> QED
        BY <2>1, <2>2, <4>1, <4>2 DEF Inv, BeginInv, Closed
    <3>2. CASE call[c].kind # "begin"
      <4>1. \A h \in Handlers : handler[h].phase = "begin" => call'[h] = call[h]
        BY <1>t, <2>2, <3>2 DEF Inv, CallInv
      <4>2. \A m \in abandoned' : m.kind = "begin" => m \in abandoned
        BY <2>1, <2>3, <3>2
      <4> QED
        BY <2>1, <4>1, <4>2 DEF Inv, BeginInv, Closed
    <3> QED
      BY <3>1, <3>2
  <2>9. StreamInv'
    <3>1. \A h \in Handlers : (Serves(h)' => Serves(h)) /\ (Sending(h)' <=> Sending(h))
                              /\ (call'[h].reply = "ok" => call[h].reply = "ok")
      BY <1>t, <2>1, <2>2 DEF Serves, Sending
    <3>2. StreamIsAuthorised' /\ ReadersKeepObject'
      BY <2>1 DEF StreamIsAuthorised, ReadersKeepObject, Inv, StreamInv
    <3> QED
      BY <2>1, <3>1, <3>2 DEF Inv, StreamInv, Closed
  <2>10. MessageInv'
    <3>1. \A d \in Callers : call'[d] = call[d] \/ call'[d].state # "sent"
      BY <2>2
    <3>2. \A b : SettleOnWay(b)' => SettleOnWay(b)
      BY <2>1, <2>3, <3>1, OnWayKept
    <3>3. \A w \in Workers : call'[w].reply = "ok" => call'[w] = call[w]
      BY <1>t, <2>2
    <3> QED
      BY <2>1, <3>2, <3>3 DEF Inv, MessageInv, Closed
  <2> QED
    BY <2>5, <2>6, <2>7, <2>8, <2>9, <2>10 DEF Inv
<1> QED
  BY <1>1, <1>2, <1>4, <1>5, <1>6, <1>7, <1>8 DEF ControlStep

-----------------------------------------------------------------------------
(* The node. *)

\* A request goes on with the call it waits for, or is over. What it sends on the way
\* is delivered.
GoesOn(h) ==
    /\ handler'[h].sent <= handler'[h].length
    /\ handler'[h].phase # "idle" =>
           /\ handler[h].stale => handler'[h].stale
           /\ Serves(h) => handler'[h].sent = delivered'
           /\ handler'[h].phase \in {"copying", "checkpoint"} => handler[h].phase \in {"copying", "checkpoint"}
           /\ handler'[h].phase = "finishing" => Sending(h)
           /\ handler'[h].phase = "begin" =>
                  /\ handler[h].phase = "begin" /\ handler'[h].sent = handler[h].sent
                  /\ call'[h].reply = call[h].reply
           /\ Sending(h)' /\ ~handler'[h].stale => session'.status = "streaming"

\* A session's count grows while it streams; a session of any kind ends in its settlement.
Advances ==
    /\ session'.actual <= delivered'
    /\ \/ session'.status = session.status /\ session'.actual = session.actual
       \/ /\ session.status = "streaming" /\ session'.status \in {"streaming", "settle_pending"}
          /\ session.actual <= session'.actual
       \/ /\ session.status = "begin_pending" /\ session'.status = "settle_pending"
          /\ session'.actual = session.actual

\* What is on the way was so before, is progress of the stream, or is the final count.
Reports ==
    /\ \A b \in Bodies : SettleOnWay(b)' =>
           \/ SettleOnWay(b)
           \/ Closed
           \/ session'.status \in {"streaming", "settle_pending"} /\ b \in 1 .. session'.actual
           \/ session'.status = "settle_pending" /\ b = EncodeFinal(session'.actual)
    /\ (\E m \in abandoned' : m.kind = "begin") =>
           \/ \E m \in abandoned : m.kind = "begin"
           \/ /\ \E h \in Handlers : handler[h].phase = "begin"
              /\ \A h \in Handlers : handler'[h].phase # "begin"
    /\ \A w \in Workers : call'[w].reply = "ok" => call'[w] = call[w]

LEMMA NodeAdvances ==
    ASSUME Inv, UNCHANGED <<control, object>>, TypeOK',
           delivered <= delivered', ~control.begun => delivered' = delivered,
           \A h \in Handlers : GoesOn(h), Advances, Reports
    PROVE  ControlInv' /\ BeginInv' /\ StreamInv' /\ MessageInv'
<1>t. /\ control.actual \in Nat /\ session.actual \in Nat /\ delivered \in Nat
      /\ session'.actual \in Nat /\ delivered' \in Nat
      /\ session.status \in NodeStatus
      /\ \A h \in Handlers : handler'[h].phase \in {"idle", "begin", "copying", "checkpoint", "finishing"}
  BY DEF Inv, TypeOK, ControlRows, SessionRows, Chunks, Streams
<1>c. Closed' <=> Closed
  BY DEF Closed
<1>1. ControlInv'
  BY DEF Inv, ControlInv
<1>2. BeginInv'
  <2>1. session'.status = "none" => session.status = "none"
    BY DEF Advances
  <2>2. session.status \in {"begin_pending", "settle_pending"} => session'.status \in {"begin_pending", "settle_pending"}
    BY DEF Advances
  <2>3. \A h \in Handlers : handler'[h].phase = "begin" =>
            /\ handler[h].phase = "begin" /\ handler'[h].sent = handler[h].sent
            /\ call'[h].reply = call[h].reply
    BY DEF GoesOn
  <2>4. (\E m \in abandoned' : m.kind = "begin") =>
           \/ Closed
           \/ /\ session.status # "none"
              /\ \A h \in Handlers : handler'[h].phase = "begin" => call'[h].reply = "error"
    BY <2>3 DEF Inv, BeginInv, Reports
  <2> QED
    BY <1>c, <2>1, <2>2, <2>3, <2>4 DEF Inv, BeginInv
<1>3. StreamInv'
  <2>1. \A h \in Handlers : (Serves(h)' => Serves(h)) /\ (Sending(h)' => Sending(h))
    BY <1>t DEF GoesOn, Serves, Sending
  <2>2. \A h \in Handlers : Serves(h)' => handler'[h].sent = delivered'
    BY <2>1 DEF GoesOn, Serves, Sending
  <2>3. \A h \in Handlers : Sending(h)' => Closed \/ session'.status \in {"streaming", "settle_pending"}
    BY <2>1 DEF Advances, Inv, StreamInv
  <2>4. \A h \in Handlers : /\ Sending(h)' /\ ~handler'[h].stale => session'.status = "streaming"
                            /\ handler'[h].sent <= handler'[h].length
    BY DEF GoesOn, Sending
  <2>5. \A h \in Handlers : handler'[h].phase = "begin" /\ call'[h].reply = "ok" /\ session'.status = "begin_pending" =>
                  control.status = "consuming"
    BY DEF GoesOn, Advances, Inv, StreamInv
  <2>6. session'.status = "streaming" => session.status = "streaming"
    BY DEF Advances
  <2>7. StreamIsAuthorised'
    BY <2>6 DEF StreamIsAuthorised, Inv, StreamInv
  <2>8. ReadersKeepObject'
    <3>1. \A h \in Handlers : handler'[h].phase \notin {"idle", "finishing"} /\ ~handler'[h].stale =>
                                  handler[h].phase \notin {"idle", "finishing"} /\ ~handler[h].stale
      BY <1>t DEF GoesOn
    <3> QED
      BY <3>1 DEF ReadersKeepObject, Inv, StreamInv
  <2> QED
    BY <1>c, <2>1, <2>2, <2>3, <2>4, <2>5, <2>6, <2>7, <2>8 DEF Inv, StreamInv
<1>4. MessageInv'
  <2>1. \A b \in Bodies : SettleOnWay(b)' =>
           \/ Closed
           \/ session'.status \in {"streaming", "settle_pending"} /\ b \in 1 .. session'.actual
           \/ session'.status = "settle_pending" /\ b = EncodeFinal(session'.actual)
    <3> SUFFICES ASSUME NEW b \in Bodies, SettleOnWay(b), ~Closed
                 PROVE  \/ session'.status \in {"streaming", "settle_pending"} /\ b \in 1 .. session'.actual
                        \/ session'.status = "settle_pending" /\ b = EncodeFinal(session'.actual)
      BY DEF Reports
    <3>1. \/ session.status \in {"streaming", "settle_pending"} /\ b \in 1 .. session.actual
          \/ session.status = "settle_pending" /\ b = EncodeFinal(session.actual)
      BY DEF Inv, MessageInv
    <3> QED
      BY <1>t, <3>1 DEF Advances
  <2>2. /\ session.actual <= session'.actual
        /\ session'.status \in {"none", "begin_pending"} => session'.actual = session.actual /\ session'.status = session.status
        /\ ~control.begun => session'.actual = session.actual
    BY <1>t DEF Advances, Inv, StreamInv
  <2>3. \A w \in Workers : call'[w].reply = "ok" => call'[w] = call[w]
    BY DEF Reports
  <2>4. session'.actual <= delivered'
    BY DEF Advances
  <2>5. /\ \A w \in Workers : call[w].reply = "ok" =>
               \/ control.status = "released"
               \/ control.status = "settled" /\ control.actual = DecodedBytes(call[w].body)
        /\ ~Closed => control.actual <= session.actual
        /\ control.actual <= delivered
        /\ session.status \in {"none", "begin_pending"} => session.actual = 0
        /\ ~control.begun => session.actual = 0
    BY DEF Inv, MessageInv
  <2>6. (~Closed => control.actual <= session'.actual) /\ control.actual <= delivered'
    BY <1>t, <2>2, <2>5
  <2> QED
    BY <1>c, <2>1, <2>2, <2>3, <2>4, <2>5, <2>6 DEF MessageInv
<1> QED
  BY <1>1, <1>2, <1>3, <1>4

\* The claims of the workers see the new version; the event has the count of the row.
LEMMA SettlementKeeps ==
    ASSUME Inv, NEW n \in Chunks, QueueSettlement(n),
           session.status # "none", session.status = "settle_pending" => n = session.actual,
           UNCHANGED <<control, letter>>,
           \A w \in Workers : Busy(w)' => Busy(w) /\ claimed'[w] = claimed[w]
    PROVE  ClaimInv' /\ EventInv'
<1>1. /\ session'.status = "settle_pending" /\ session'.actual = n
      /\ outbox'.queued /\ outbox'.body = EncodeFinal(n)
      /\ IF outbox.queued
         THEN /\ outbox'.version = outbox.version + 1 /\ outbox'.attempts = outbox.attempts
              /\ outbox'.claim = outbox.claim
         ELSE outbox'.claim = None /\ outbox'.attempts = 0
  BY Queues DEF Inv
<1>2. outbox.version \in Nat /\ \A w \in Workers : claimed[w].version \in Nat
  BY DEF Inv, TypeOK, Events, Claims
<1>3. ClaimInv'
  <2>1. outbox'.attempts < MaxAttempts
    BY <1>1, NodeDownloadAssumption DEF Inv, ClaimInv
  <2>2. \A w \in Workers : Holds(w)' /\ Busy(w)' => claimed'[w].version <= outbox'.version /\ ~Current(w)'
    <3> SUFFICES ASSUME NEW w \in Workers, Holds(w)', Busy(w)'
                 PROVE  claimed'[w].version <= outbox'.version /\ claimed'[w].version # outbox'.version
      BY DEF Current
    <3>1. outbox.queued /\ outbox'.claim = outbox.claim
      BY <1>1, NodeDownloadAssumption DEF Holds
    <3>2. Holds(w) /\ Busy(w) /\ claimed'[w] = claimed[w]
      BY <3>1 DEF Holds
    <3>3. claimed[w].version <= outbox.version
      BY <3>2 DEF Inv, ClaimInv
    <3> QED
      BY <1>1, <1>2, <3>1, <3>2, <3>3
  <2> QED
    BY <2>1, <2>2 DEF ClaimInv
<1>4. EventInv'
  <2>1. IsFinal(outbox'.body)
    BY <1>1, Encoding
  <2> QED
    BY <1>1, <2>1 DEF Inv, EventInv
<1> QED
  BY <1>3, <1>4

\* A request is over, and leaves the row alone or settles it.
LEMMA RequestEnds ==
    ASSUME Inv, NEW h \in Handlers, handler' = [handler EXCEPT ![h] = Idle],
           \/ call' = [call EXCEPT ![h] = NoCall]
           \/ call' = call /\ call[h].state = "idle",
           abandoned' = abandoned, faults' \in 0 .. MaxFaults,
           UNCHANGED <<control, letter, object, boot, claimed, delivered>>,
           \/ UNCHANGED <<session, outbox>>
           \/ \E n \in Chunks : /\ QueueSettlement(n) /\ session.status # "none"
                                /\ session.status # "streaming" => n = session.actual
                                /\ session.status = "streaming" =>
                                       Sending(h) /\ session.actual <= n /\ n <= delivered
    PROVE  Inv'
<1>t. /\ TypeOK /\ Handlers \subseteq Callers /\ Workers \subseteq Callers
      /\ delivered \in Nat /\ call \in [Callers -> Calls]
  BY DEF Inv, TypeOK, Callers
<1>h. /\ handler' \in [Handlers -> Streams]
      /\ handler'[h].phase = "idle" /\ handler'[h].sent = 0 /\ handler'[h].length = 0
      /\ \A g \in Handlers \ {h} : handler'[g] = handler[g]
  BY <1>t, Rests
<1>c. /\ call' \in [Callers -> Calls] /\ call'[h].state = "idle"
      /\ \A d \in Callers : call'[d] = call[d] \/ (d = h /\ call'[d].state = "idle" /\ call'[d].reply = "none")
  <2>1. CASE call' = [call EXCEPT ![h] = NoCall]
    BY <1>t, <2>1, Hangs
  <2>2. CASE call' = call /\ call[h].state = "idle"
    BY <1>t, <2>2
  <2> QED
    BY <2>1, <2>2
<1>w. \A w \in Workers : call'[w] = call[w]
  BY <1>c, <1>t, NodeDownloadAssumption
<1>s. /\ session' \in SessionRows /\ outbox' \in Events /\ Advances /\ ClaimInv' /\ EventInv'
      /\ session.status = "streaming" /\ session'.status # "streaming" => Sending(h)
  <2>1. CASE UNCHANGED <<session, outbox>>
    <3>1. session' \in SessionRows /\ outbox' \in Events /\ Advances
      BY <1>t, <2>1 DEF TypeOK, Advances, Inv, MessageInv
    <3>2. ClaimInv' /\ EventInv'
      BY <1>w, <2>1 DEF Inv, ClaimInv, EventInv, Busy, Holds, Current, Closed
    <3> QED
      BY <2>1, <3>1, <3>2
  <2>2. ASSUME NEW n \in Chunks, QueueSettlement(n), session.status # "none",
               session.status # "streaming" => n = session.actual,
               session.status = "streaming" => Sending(h) /\ session.actual <= n /\ n <= delivered
        PROVE  /\ session' \in SessionRows /\ outbox' \in Events /\ Advances /\ ClaimInv' /\ EventInv'
               /\ session.status = "streaming" => Sending(h)
    <3>1. /\ session' \in SessionRows /\ outbox' \in Events
          /\ session'.status = "settle_pending" /\ session'.actual = n
      BY <1>t, <2>2, Queues
    <3>2. session.status \in NodeStatus /\ session.actual <= delivered
      BY <1>t DEF TypeOK, SessionRows, Inv, MessageInv
    <3>3. Advances
      BY <2>2, <3>1, <3>2 DEF Advances, NodeStatus
    <3>4. ClaimInv' /\ EventInv'
      BY <1>w, <2>2, SettlementKeeps DEF Busy
    <3> QED
      BY <2>2, <3>1, <3>3, <3>4
  <2> QED
    BY <2>1, <2>2
<1>1. TypeOK'
  BY <1>c, <1>h, <1>s, <1>t DEF TypeOK
<1>2. CallInv'
  <2>1. \A w \in Workers : Busy(w)' <=> Busy(w)
    BY <1>w DEF Busy
  <2> QED
    BY <1>c, <1>h, <1>t, <1>w, <2>1 DEF Inv, CallInv
<1>3. \A g \in Handlers : GoesOn(g)
  <2>1. GoesOn(h)
    BY <1>h DEF GoesOn
  <2>2. ASSUME NEW g \in Handlers \ {h} PROVE GoesOn(g)
    <3>1. handler'[g] = handler[g] /\ call'[g] = call[g]
      BY <1>c, <1>h, <1>t
    <3>2. Sending(g) /\ ~handler[g].stale => session'.status = "streaming"
      BY <1>s DEF Inv, StreamInv, Serves
    <3> QED
      BY <3>1, <3>2 DEF GoesOn, Sending, Inv, StreamInv
  <2> QED
    BY <2>1, <2>2
<1>4. Reports
  <2>1. \A b : SettleOnWay(b)' => SettleOnWay(b)
    BY <1>c, OnWayKept
  <2> QED
    BY <1>w, <2>1 DEF Reports
<1>5. ControlInv' /\ BeginInv' /\ StreamInv' /\ MessageInv'
  BY <1>1, <1>3, <1>4, <1>s, <1>t, NodeAdvances
<1> QED
  BY <1>1, <1>2, <1>5, <1>s DEF Inv

LEMMA EndsKeep ==
    ASSUME Inv, NEW h \in Handlers,
           AmbiguousBegin(h) \/ ActivateFails(h) \/ LeaveSession(h) \/ Finish(h) \/ FinishFails(h)
    PROVE  Inv'
<1>t. /\ TypeOK /\ faults \in 0 .. MaxFaults /\ session.actual \in Chunks /\ 0 \in Chunks
      /\ session.actual <= delivered
  BY EmptyTypes DEF Inv, TypeOK, SessionRows, MessageInv
<1>f. handler[h].phase = "finishing" => call[h].state = "idle" /\ Sending(h)
  BY DEF Inv, CallInv, Sending
<1>s. handler[h] \in Streams /\ handler[h].sent \in Chunks /\ delivered \in Nat
  BY <1>t DEF TypeOK, Streams
\* The ways to settle a row.
<1> DEFINE Ends ==
      \/ UNCHANGED <<session, outbox>>
      \/ \E n \in Chunks : /\ QueueSettlement(n) /\ session.status # "none"
                           /\ session.status # "streaming" => n = session.actual
                           /\ session.status = "streaming" =>
                                  Sending(h) /\ session.actual <= n /\ n <= delivered
<1>p. FinishPending => Ends
  <2>1. Settleable("begin_pending", 0) => /\ session.status \in {"begin_pending", "settle_pending"}
                                         /\ session.actual = 0
    BY DEF Settleable, Inv, MessageInv
  <2> QED
    BY <1>t, <2>1 DEF FinishPending
<1>q. handler[h].phase = "finishing" /\ FinishCheckpoint => Ends
  <2>1. session.actual <= session.actual
    BY <1>t DEF Chunks
  <2>2. Settleable("streaming", session.actual) => session.status \in {"streaming", "settle_pending"}
    BY DEF Settleable
  <2> QED
    BY <1>t, <1>f, <2>1, <2>2 DEF FinishCheckpoint
<1>r. handler[h].phase = "finishing" /\ FinishStreaming(handler[h].sent) => Ends
  <2>1. handler[h].phase = "finishing" => handler[h].sent = delivered /\ delivered <= delivered
    BY <1>f, <1>s DEF Inv, StreamInv, Serves
  <2>2. Settleable("streaming", handler[h].sent) =>
            \/ session.status = "streaming"
            \/ session.status = "settle_pending" /\ session.actual = handler[h].sent
    BY DEF Settleable
  <2> QED
    BY <1>f, <1>q, <1>s, <2>1, <2>2 DEF FinishStreaming
<1> HIDE DEF Ends
<1>e. ASSUME handler' = [handler EXCEPT ![h] = Idle],
             \/ call' = [call EXCEPT ![h] = NoCall]
             \/ call' = call /\ call[h].state = "idle",
             abandoned' = abandoned, faults' \in 0 .. MaxFaults,
             UNCHANGED <<control, letter, object, boot, claimed, delivered>>, Ends
      PROVE  Inv'
  BY <1>e, RequestEnds DEF Ends
<1>1. CASE AmbiguousBegin(h)
  BY <1>1, <1>e, <1>p, <1>t DEF AmbiguousBegin
<1>2. CASE ActivateFails(h)
  BY <1>2, <1>e, <1>p, <1>t DEF ActivateFails
<1>3. CASE LeaveSession(h)
  <2>1. Ends /\ faults' \in 0 .. MaxFaults
    BY <1>3, <1>t, FaultType DEF LeaveSession, Ends
  <2> QED
    BY <1>3, <1>e, <2>1 DEF LeaveSession
<1>4. CASE Finish(h)
  BY <1>4, <1>e, <1>f, <1>r, <1>t DEF Finish
<1>5. CASE FinishFails(h)
  <2>1. Ends /\ faults' \in 0 .. MaxFaults
    BY <1>5, <1>q, <1>t, FaultType DEF FinishFails, Ends
  <2> QED
    BY <1>5, <1>e, <1>f, <2>1 DEF FinishFails
<1> QED
  BY <1>1, <1>2, <1>3, <1>4, <1>5

\* A request that streams goes on streaming, or stops to settle.
LEMMA StreamKeeps ==
    ASSUME Inv, NEW h \in Handlers, Streaming(h),
           UNCHANGED <<control, outbox, letter, object, boot, claimed>>,
           handler' \in [Handlers -> Streams], call' \in [Callers -> Calls], session' \in SessionRows,
           faults' \in 0 .. MaxFaults, delivered' \in Nat,
           abandoned' = abandoned \/ (abandoned' = abandoned \cup UnansweredOf({h})),
           \A g \in Handlers \ {h} : handler'[g] = handler[g],
           \A d \in Callers \ {h} : call'[d] = call[d],
           handler'[h].phase \in {"copying", "checkpoint", "finishing"},
           handler'[h].stale = handler[h].stale, handler'[h].length = handler[h].length,
           handler'[h].sent <= handler[h].length, handler'[h].sent = delivered',
           delivered' = delivered \/ delivered' = delivered + 1,
           session'.status = session.status, session'.actual <= delivered',
           session'.actual = session.actual \/ (session.status = "streaming" /\ session.actual <= session'.actual),
           \/ call'[h] = call[h] /\ handler'[h].phase # "finishing"
           \/ call'[h].state = "idle" /\ call'[h].reply = "none"
           \/ /\ handler'[h].phase # "finishing" /\ session.status = "streaming"
              /\ call'[h].state = "sent" /\ call'[h].kind = "settle" /\ call'[h].reply = "none"
              /\ call'[h].body \in 1 .. session'.actual
    PROVE  Inv'
<1>t. /\ TypeOK /\ Handlers \subseteq Callers /\ Workers \subseteq Callers
      /\ delivered \in Nat /\ call \in [Callers -> Calls] /\ abandoned \subseteq Requests
  BY DEF Inv, TypeOK, Callers
<1>w. \A w \in Workers : call'[w] = call[w]
  BY <1>t, NodeDownloadAssumption
<1>s. Serves(h) /\ Sending(h) /\ Sending(h)' /\ handler[h].sent = delivered /\ control.begun
  BY DEF Streaming, Serves, Sending, Inv, StreamInv
<1>o. \A g \in Handlers \ {h} : ~Serves(g)
  BY <1>s DEF Inv, StreamInv
<1>k. call[h].state = "idle" \/ call[h].kind = "settle"
  BY DEF Inv, CallInv, Streaming
<1>u. \A m \in UnansweredOf({h}) : /\ call[h].state = "sent" /\ m.kind = "settle" /\ m.body = call[h].body
                                  /\ m = [kind |-> "settle", body |-> call[h].body]
  BY <1>k DEF UnansweredOf
<1>1. TypeOK'
  <2>1. call[h].body \in Bodies
    BY <1>t DEF Calls
  <2>2. UnansweredOf({h}) \subseteq Requests
    <3>1. [kind |-> "settle", body |-> call[h].body] \in Requests
      BY <2>1 DEF Requests
    <3> QED
      BY <1>u, <3>1
  <2>3. abandoned' \subseteq Requests
    BY <1>t, <2>2
  <2> QED
    BY <1>t, <2>3 DEF TypeOK
<1>2. CallInv'
  <2>1. \A w \in Workers : Busy(w)' <=> Busy(w)
    BY <1>w DEF Busy
  <2>2. \A c \in Callers : /\ call'[c].state # "answered" => call'[c].reply = "none"
                           /\ call'[c].state = "answered" => call'[c].reply # "none"
    BY <1>t DEF Inv, CallInv
  <2>3. boot = "up"
    BY DEF Inv, CallInv, Streaming
  <2>4. \A g \in Handlers :
           /\ handler'[g].phase \in {"idle", "finishing"} => call'[g].state = "idle"
           /\ handler'[g].phase = "begin" => call'[g].state # "idle" /\ call'[g].kind = "begin"
           /\ handler'[g].phase \in {"copying", "checkpoint"} =>
                  call'[g].state = "idle" \/ call'[g].kind = "settle"
    BY <1>k, <1>t DEF Inv, CallInv
  <2> QED
    BY <1>t, <1>w, <2>1, <2>2, <2>3, <2>4 DEF Inv, CallInv
<1>3. ClaimInv' /\ EventInv'
  BY <1>w DEF Inv, ClaimInv, EventInv, Busy, Holds, Current, Closed
<1>4. \A g \in Handlers : GoesOn(g)
  <2>1. GoesOn(h)
    BY <1>s DEF GoesOn, Streaming, Sending, Inv, StreamInv
  <2>2. ASSUME NEW g \in Handlers \ {h} PROVE GoesOn(g)
    <3>1. handler'[g] = handler[g] /\ call'[g] = call[g] /\ ~Serves(g) /\ ~Sending(g)
      BY <1>o, <1>t DEF Serves
    <3> QED
      BY <3>1 DEF GoesOn, Sending, Inv, StreamInv
  <2> QED
    BY <2>1, <2>2
<1>5. Advances
  BY DEF Advances
<1>6. Reports
  <2>1. ASSUME NEW b \in Bodies, SettleOnWay(b)'
        PROVE  SettleOnWay(b) \/ (session'.status = "streaming" /\ b \in 1 .. session'.actual)
    <3>1. CASE \E m \in abandoned' : m.kind = "settle" /\ m.body = b
      <4>1. PICK m \in abandoned' : m.kind = "settle" /\ m.body = b
        BY <3>1
      <4>2. m \in abandoned \/ (call[h].state = "sent" /\ call[h].body = b)
        BY <1>u, <4>1
      <4> QED
        BY <1>k, <1>t, <4>1, <4>2 DEF SettleOnWay
    <3>2. CASE \E c \in Callers : call'[c].state = "sent" /\ call'[c].kind = "settle" /\ call'[c].body = b
      BY <3>2 DEF SettleOnWay
    <3> QED
      BY <2>1, <3>1, <3>2 DEF SettleOnWay
  <2>2. \A m \in abandoned' : m.kind = "begin" => m \in abandoned
    BY <1>u
  <2> QED
    BY <1>w, <2>1, <2>2 DEF Reports
<1>7. ControlInv' /\ BeginInv' /\ StreamInv' /\ MessageInv'
  BY <1>1, <1>4, <1>5, <1>6, <1>s, <1>t, NodeAdvances
<1> QED
  BY <1>1, <1>2, <1>3, <1>7 DEF Inv

LEMMA StreamsKeep ==
    ASSUME Inv, NEW h \in Handlers,
           \/ WriteChunk(h) \/ Checkpoint(h) \/ EndCopy(h) \/ HeartbeatRefused(h) \/ HeartbeatAnswered(h)
           \/ \E n \in Chunks : Heartbeat(h, n)
    PROVE  Inv'
<1>t. /\ TypeOK /\ faults \in 0 .. MaxFaults /\ session \in SessionRows /\ delivered \in Nat /\ h \in Callers
      /\ handler \in [Handlers -> Streams] /\ call \in [Callers -> Calls] /\ handler[h] \in Streams
  BY DEF Inv, TypeOK, Callers
<1>n. /\ session.actual \in Chunks /\ session.actual \in Nat /\ session.actual <= delivered
      /\ handler[h].sent \in Chunks /\ handler[h].length \in Chunks /\ handler[h].sent <= handler[h].length
      /\ handler[h].sent \in Nat /\ handler[h].length \in Nat
  BY <1>t DEF Streams, SessionRows, Chunks, Inv, MessageInv, StreamInv
<1>s. Streaming(h) /\ handler[h].sent = delivered
  <2>1. Streaming(h)
    BY DEF WriteChunk, Checkpoint, EndCopy, HeartbeatRefused, HeartbeatAnswered, Heartbeat, Streaming
  <2> QED
    BY <2>1 DEF Streaming, Serves, Sending, Inv, StreamInv
<1>1. CASE WriteChunk(h)
  <2>1. PICK p \in {"copying", "checkpoint"} : handler' = [handler EXCEPT ![h].sent = @ + 1, ![h].phase = p]
    BY <1>1 DEF WriteChunk
  <2> DEFINE new == [handler[h] EXCEPT !.sent = handler[h].sent + 1, !.phase = p]
  <2>2. handler' = [handler EXCEPT ![h] = new]
    BY <1>t, <2>1
  <2>3. handler[h].sent + 1 \in Chunks /\ handler[h].sent + 1 <= handler[h].length
    BY <1>1, <1>n, NodeDownloadAssumption DEF WriteChunk, Chunks
  <2>4. /\ new \in Streams /\ new.sent = handler[h].sent + 1 /\ new.phase = p
        /\ new.length = handler[h].length /\ new.stale = handler[h].stale
    BY <1>t, <2>3 DEF Streams
  <2> HIDE DEF new
  <2>5. /\ handler' \in [Handlers -> Streams] /\ handler'[h] = new
        /\ \A g \in Handlers \ {h} : handler'[g] = handler[g]
    BY <1>t, <2>2, <2>4
  <2>6. /\ delivered' = delivered + 1 /\ delivered' \in Nat /\ session'.actual <= delivered'
        /\ UNCHANGED <<control, session, outbox, letter, object, boot, claimed, call, abandoned, faults>>
    BY <1>1, <1>n, <1>t DEF WriteChunk
  <2>7. handler'[h].sent = delivered' /\ handler'[h].sent <= handler[h].length
    BY <1>s, <2>3, <2>4, <2>5, <2>6
  <2>8. /\ handler'[h].phase = p /\ handler'[h].stale = handler[h].stale /\ handler'[h].length = handler[h].length
        /\ handler'[h].phase \in {"copying", "checkpoint", "finishing"}
        /\ call'[h] = call[h] /\ handler'[h].phase # "finishing"
        /\ session' \in SessionRows /\ call' \in [Callers -> Calls] /\ faults' \in 0 .. MaxFaults
    BY <1>t, <2>4, <2>5, <2>6
  <2> QED
    BY <1>s, <2>5, <2>6, <2>7, <2>8, StreamKeeps
<1>2. CASE Checkpoint(h)
  <2>1. /\ handler' \in [Handlers -> Streams]
        /\ handler'[h].phase = "copying" /\ handler'[h].sent = handler[h].sent
        /\ handler'[h].length = handler[h].length /\ handler'[h].stale = handler[h].stale
        /\ \A g \in Handlers \ {h} : handler'[g] = handler[g]
    BY <1>2, <1>t, Proceeds DEF Checkpoint
  <2>2. /\ session.status = "streaming" /\ session.actual < handler[h].sent
        /\ UNCHANGED <<control, outbox, letter, object, boot, claimed, call, abandoned, delivered, faults>>
    BY <1>2 DEF Checkpoint, CheckpointAccepted
  <2>3. session' \in SessionRows /\ session'.status = session.status /\ session'.actual = handler[h].sent
    BY <1>2, <1>n, <1>t DEF Checkpoint, SessionRows
  <2>4. session.actual <= session'.actual /\ session'.actual <= delivered'
    BY <1>n, <1>s, <2>2, <2>3
  <2> QED
    BY <1>n, <1>s, <1>t, <2>1, <2>2, <2>3, <2>4, StreamKeeps
<1>3. CASE EndCopy(h)
  <2>1. /\ handler' \in [Handlers -> Streams]
        /\ handler'[h].phase = "finishing" /\ handler'[h].sent = handler[h].sent
        /\ handler'[h].length = handler[h].length /\ handler'[h].stale = handler[h].stale
        /\ \A g \in Handlers \ {h} : handler'[g] = handler[g]
    BY <1>3, <1>t, Proceeds DEF EndCopy
  <2>2. /\ call' \in [Callers -> Calls] /\ call'[h].state = "idle" /\ call'[h].reply = "none"
        /\ \A d \in Callers \ {h} : call'[d] = call[d]
    BY <1>3, <1>t, Hangs DEF EndCopy
  <2>3. /\ faults' \in 0 .. MaxFaults /\ abandoned' = abandoned \cup UnansweredOf({h})
        /\ UNCHANGED <<control, session, outbox, letter, object, boot, claimed, delivered>>
    BY <1>3, <1>t, FaultType DEF EndCopy
  <2> QED
    BY <1>n, <1>s, <1>t, <2>1, <2>2, <2>3, StreamKeeps
<1>4. ASSUME NEW n \in Chunks, Heartbeat(h, n) PROVE Inv'
  <2> DEFINE reliable == Larger(session.actual, n)
  <2>1. /\ call[h].state = "idle" /\ n <= handler[h].sent /\ session.status = "streaming"
        /\ session' = [session EXCEPT !.actual = reliable]
        /\ call' = IF reliable = 0 THEN call ELSE [call EXCEPT ![h] = Send("settle", reliable)]
        /\ UNCHANGED <<control, outbox, letter, object, boot, handler, claimed, abandoned, delivered, faults>>
    BY <1>4 DEF Heartbeat
  <2>2. /\ reliable \in Chunks /\ reliable \in Nat /\ session.actual <= reliable /\ reliable <= delivered
        /\ reliable \in Bodies
    BY <1>n, <1>s, <1>t, <2>1, NodeDownloadAssumption DEF Larger, Chunks, Bodies
  <2> HIDE DEF reliable
  <2>3. session' \in SessionRows /\ session'.status = session.status /\ session'.actual = reliable
    BY <1>t, <2>1, <2>2 DEF SessionRows
  <2>4. handler'[h].phase \in {"copying", "checkpoint"}
    BY <1>s, <2>1 DEF Streaming
  <2>5. CASE reliable = 0
    BY <1>n, <1>s, <1>t, <2>1, <2>2, <2>3, <2>4, <2>5, StreamKeeps
  <2>6. CASE reliable # 0
    <3>1. /\ call' \in [Callers -> Calls] /\ call'[h].state = "sent" /\ call'[h].kind = "settle"
          /\ call'[h].body = reliable /\ call'[h].reply = "none"
          /\ \A d \in Callers \ {h} : call'[d] = call[d]
      BY <1>t, <2>1, <2>2, <2>6, Sends
    <3>2. reliable \in 1 .. session'.actual
      BY <2>2, <2>3, <2>6
    <3> QED
      BY <1>n, <1>s, <1>t, <2>1, <2>2, <2>3, <2>4, <3>1, <3>2, StreamKeeps
  <2> QED
    BY <2>5, <2>6
\* A heartbeat that fails or is answered may cancel the stream.
<1>c. ASSUME NEW x \in BOOLEAN, handler' = [handler EXCEPT ![h].cancelled = x]
      PROVE  /\ handler' \in [Handlers -> Streams]
             /\ handler'[h].phase \in {"copying", "checkpoint"} /\ handler'[h].sent = handler[h].sent
             /\ handler'[h].length = handler[h].length /\ handler'[h].stale = handler[h].stale
             /\ \A g \in Handlers \ {h} : handler'[g] = handler[g]
  <2> DEFINE new == [handler[h] EXCEPT !.cancelled = x]
  <2>1. handler' = [handler EXCEPT ![h] = new]
    BY <1>c, <1>t
  <2>2. /\ new \in Streams /\ new.phase = handler[h].phase /\ new.sent = handler[h].sent
        /\ new.length = handler[h].length /\ new.stale = handler[h].stale
    BY <1>t DEF Streams
  <2> HIDE DEF new
  <2> QED
    BY <1>s, <1>t, <2>1, <2>2 DEF Streaming
<1>5. CASE HeartbeatRefused(h)
  <2>1. handler' = [handler EXCEPT ![h].cancelled = TRUE] /\ faults' \in 0 .. MaxFaults
    BY <1>5, <1>t, FaultType DEF HeartbeatRefused
  <2>2. UNCHANGED <<control, session, outbox, letter, object, boot, claimed, call, abandoned, delivered>>
    BY <1>5 DEF HeartbeatRefused
  <2> QED
    BY <1>c, <1>n, <1>s, <1>t, <2>1, <2>2, StreamKeeps
<1>6. CASE HeartbeatAnswered(h)
  <2>1. PICK x \in BOOLEAN : handler' = [handler EXCEPT ![h].cancelled = x]
    <3>1. handler' = [handler EXCEPT ![h].cancelled = handler[h].cancelled \/ call[h].reply \in {"conflict", "denied"}]
      BY <1>6 DEF HeartbeatAnswered
    <3> DEFINE y == (handler[h].cancelled \/ call[h].reply \in {"conflict", "denied"})
    <3>2. y \in BOOLEAN /\ handler' = [handler EXCEPT ![h].cancelled = y]
      BY <3>1
    <3> QED
      BY <3>2
  <2>2. /\ call' \in [Callers -> Calls] /\ call'[h].state = "idle" /\ call'[h].reply = "none"
        /\ \A d \in Callers \ {h} : call'[d] = call[d]
    BY <1>6, <1>t, Hangs DEF HeartbeatAnswered
  <2>3. UNCHANGED <<control, session, outbox, letter, object, boot, claimed, abandoned, delivered, faults>>
    BY <1>6 DEF HeartbeatAnswered
  <2> QED
    BY <1>c, <1>n, <1>s, <1>t, <2>1, <2>2, <2>3, StreamKeeps
<1> QED
  BY <1>1, <1>2, <1>3, <1>4, <1>5, <1>6

\* A new session finds no leftover of an earlier one, unless the reservation is closed.
LEMMA OpenKeeps == ASSUME Inv, NEW h \in Handlers, NEW n \in 1 .. Length, Open(h, n) PROVE Inv'
<1>t. /\ TypeOK /\ Handlers \subseteq Callers /\ Workers \subseteq Callers /\ h \in Callers
      /\ handler \in [Handlers -> Streams] /\ n \in Chunks
  BY NodeDownloadAssumption DEF Inv, TypeOK, Callers, Chunks
<1>o. /\ boot = "up" /\ ~letter.held /\ ~(outbox.queued /\ outbox.replay) /\ object
      /\ handler[h].phase = "idle" /\ session.status = "none"
      /\ \A g \in Handlers : handler[g].phase # "begin"
      /\ UNCHANGED <<control, outbox, letter, object, boot, claimed, abandoned, delivered, faults>>
  BY DEF Open, Ready, LockFree
<1>s. session' \in SessionRows /\ session'.status = "begin_pending" /\ session'.actual = 0
  BY <1>t, EmptyTypes DEF Open, SessionRows, NodeStatus
<1>h. /\ handler' \in [Handlers -> Streams]
      /\ handler'[h].phase = "begin" /\ handler'[h].sent = 0 /\ handler'[h].length = n
      /\ \A g \in Handlers \ {h} : handler'[g] = handler[g]
  <2> DEFINE new == [Idle EXCEPT !.phase = "begin", !.length = n]
  <2>1. handler' = [handler EXCEPT ![h] = new]
    BY DEF Open
  <2>2. new \in Streams /\ new.phase = "begin" /\ new.sent = 0 /\ new.length = n
    BY <1>t, EmptyTypes DEF Streams, Idle
  <2> HIDE DEF new
  <2> QED
    BY <1>t, <2>1, <2>2
<1>c. /\ call' \in [Callers -> Calls]
      /\ call'[h].state = "sent" /\ call'[h].kind = "begin" /\ call'[h].reply = "none"
      /\ \A d \in Callers \ {h} : call'[d] = call[d]
  BY <1>t, EmptyTypes, Sends DEF Open
<1>w. \A w \in Workers : call'[w] = call[w]
  BY <1>c, <1>t, NodeDownloadAssumption
<1>k. /\ ~outbox.queued /\ control.status # "consuming" /\ (Closed' <=> Closed)
      /\ session.actual = 0
  BY <1>o DEF Inv, EventInv, BeginInv, MessageInv, Closed
<1>1. TypeOK'
  BY <1>c, <1>h, <1>o, <1>s, <1>t DEF TypeOK
<1>2. CallInv'
  <2>1. \A w \in Workers : Busy(w)' <=> Busy(w)
    BY <1>w DEF Busy
  <2> QED
    BY <1>c, <1>h, <1>o, <1>t, <1>w, <2>1 DEF Inv, CallInv
<1>3. ClaimInv' /\ EventInv' /\ ControlInv'
  BY <1>k, <1>o, <1>s DEF Inv, ClaimInv, Holds, EventInv, ControlInv
<1>4. BeginInv'
  BY <1>c, <1>h, <1>k, <1>o, <1>s DEF Inv, BeginInv
<1>5. StreamInv'
  <2>1. ~Serves(h)' /\ ~Sending(h)'
    BY <1>c, <1>h DEF Serves, Sending
  <2>2. \A g \in Handlers \ {h} : (Serves(g)' <=> Serves(g)) /\ (Sending(g)' <=> Sending(g))
    BY <1>c, <1>h, <1>t DEF Serves, Sending
  <2>3. \A g \in Handlers : Sending(g) => Closed /\ handler[g].stale
    BY <1>o DEF Inv, StreamInv
  <2>4. StreamIsAuthorised' /\ ReadersKeepObject'
    BY <1>o, <1>s DEF StreamIsAuthorised, ReadersKeepObject
  <2>5. \A g \in Handlers : handler'[g].sent <= handler'[g].length
    BY <1>h DEF Inv, StreamInv
  <2>6. \A g \in Handlers : ~(handler'[g].phase = "begin" /\ call'[g].reply = "ok")
    BY <1>c, <1>h, <1>o
  <2> QED
    BY <1>h, <1>k, <1>o, <1>s, <2>1, <2>2, <2>3, <2>4, <2>5, <2>6 DEF Inv, StreamInv
<1>6. MessageInv'
  <2>1. \A b \in Bodies : SettleOnWay(b)' => SettleOnWay(b)
    BY <1>c, <1>o DEF SettleOnWay
  <2>2. \A b \in Bodies : SettleOnWay(b) => Closed
    BY <1>o DEF Inv, MessageInv
  <2> QED
    BY <1>k, <1>o, <1>s, <1>w, <2>1, <2>2 DEF Inv, MessageInv
<1> QED
  BY <1>1, <1>2, <1>3, <1>4, <1>5, <1>6 DEF Inv

\* A begin that was refused has not taken effect, and no other is on its way.
LEMMA CancelKeeps == ASSUME Inv, NEW h \in Handlers, CancelBegin(h) PROVE Inv'
<1>1. CASE session.status # "begin_pending"
  <2>1. faults' \in 0 .. MaxFaults /\ UNCHANGED <<session, outbox>>
    BY <1>1 DEF Inv, TypeOK, CancelBegin
  <2> QED
    BY <2>1, RequestEnds DEF CancelBegin
<1>2. CASE session.status = "begin_pending"
  <2>t. /\ TypeOK /\ Handlers \subseteq Callers /\ Workers \subseteq Callers /\ h \in Callers
        /\ handler \in [Handlers -> Streams]
    BY DEF Inv, TypeOK, Callers
  <2>o. /\ handler[h].phase = "begin" /\ call[h].reply \in {"conflict", "denied"}
        /\ UNCHANGED <<control, outbox, letter, object, boot, claimed, abandoned, delivered, faults>>
    BY DEF CancelBegin, DefinitelyRejected
  <2>s. session' \in SessionRows /\ session'.status = "none" /\ session'.actual = 0
    BY <1>2, EmptyTypes DEF CancelBegin, NoSession
  <2>h. /\ handler' \in [Handlers -> Streams]
        /\ handler'[h].phase = "idle" /\ handler'[h].sent = 0 /\ handler'[h].length = 0
        /\ \A g \in Handlers \ {h} : handler'[g] = handler[g]
    BY <2>t, Rests DEF CancelBegin
  <2>c. /\ call' \in [Callers -> Calls]
        /\ call'[h].state = "idle" /\ call'[h].reply = "none"
        /\ \A d \in Callers \ {h} : call'[d] = call[d]
    BY <2>t, Hangs DEF CancelBegin
  <2>w. \A w \in Workers : call'[w] = call[w]
    BY <2>c, <2>t, NodeDownloadAssumption
  <2>k. /\ ~outbox.queued /\ ~letter.held /\ control.status # "consuming" /\ (Closed' <=> Closed)
        /\ session.actual = 0 /\ ((\E m \in abandoned : m.kind = "begin") => Closed)
        /\ \A g \in Handlers \ {h} : handler[g].phase # "begin"
    BY <1>2, <2>o DEF Inv, EventInv, BeginInv, MessageInv, Closed
  <2>1. TypeOK'
    BY <2>c, <2>h, <2>o, <2>s, <2>t DEF TypeOK
  <2>2. CallInv'
    <3>1. \A w \in Workers : Busy(w)' <=> Busy(w)
      BY <2>w DEF Busy
    <3> QED
      BY <2>c, <2>h, <2>o, <2>t, <2>w, <3>1 DEF Inv, CallInv
  <2>3. ClaimInv' /\ EventInv' /\ ControlInv'
    BY <2>k, <2>o, <2>s DEF Inv, ClaimInv, Holds, EventInv, ControlInv
  <2>4. BeginInv'
    BY <2>h, <2>k, <2>o, <2>s DEF Inv, BeginInv
  <2>5. StreamInv'
    <3>1. ~Serves(h)' /\ ~Sending(h)'
      BY <2>h DEF Serves, Sending
    <3>2. \A g \in Handlers \ {h} : (Serves(g)' <=> Serves(g)) /\ (Sending(g)' <=> Sending(g))
      BY <2>c, <2>h, <2>t DEF Serves, Sending
    <3>3. \A g \in Handlers : Sending(g) => Closed /\ handler[g].stale
      BY <1>2 DEF Inv, StreamInv
    <3>4. StreamIsAuthorised' /\ ReadersKeepObject'
      BY <2>h, <2>o, <2>s DEF StreamIsAuthorised, ReadersKeepObject, Inv, StreamInv
    <3>5. \A g \in Handlers : handler'[g].sent <= handler'[g].length
      BY <2>h DEF Inv, StreamInv
    <3> QED
      BY <2>h, <2>k, <2>o, <2>s, <3>1, <3>2, <3>3, <3>4, <3>5 DEF Inv, StreamInv
  <2>6. MessageInv'
    <3>1. \A b \in Bodies : SettleOnWay(b)' => SettleOnWay(b)
      BY <2>c, <2>o DEF SettleOnWay
    <3>2. \A b \in Bodies : SettleOnWay(b) => Closed
      BY <1>2 DEF Inv, MessageInv
    <3> QED
      BY <2>k, <2>o, <2>s, <2>w, <3>1, <3>2 DEF Inv, MessageInv
  <2> QED
    BY <2>1, <2>2, <2>3, <2>4, <2>5, <2>6 DEF Inv
<1> QED
  BY <1>1, <1>2

\* A row that still waits for its begin was not settled by anyone: the reservation is open.
LEMMA ActivateKeeps == ASSUME Inv, NEW h \in Handlers, Activate(h) PROVE Inv'
<1>t. /\ TypeOK /\ Handlers \subseteq Callers /\ Workers \subseteq Callers /\ h \in Callers
      /\ handler \in [Handlers -> Streams] /\ session \in SessionRows
  BY DEF Inv, TypeOK, Callers
<1>o. /\ handler[h].phase = "begin" /\ call[h].reply = "ok" /\ session.status = "begin_pending"
      /\ UNCHANGED <<control, outbox, letter, object, boot, claimed, abandoned, delivered, faults>>
  BY DEF Activate
<1>s. session' \in SessionRows /\ session'.status = "streaming" /\ session'.actual = session.actual
  BY <1>t DEF Activate, SessionRows, NodeStatus
<1>h. /\ handler' \in [Handlers -> Streams]
      /\ handler'[h].phase = "copying" /\ handler'[h].sent = handler[h].sent
      /\ handler'[h].length = handler[h].length
      /\ \A g \in Handlers \ {h} : handler'[g] = handler[g]
  BY <1>t, Proceeds DEF Activate
<1>c. /\ call' \in [Callers -> Calls]
      /\ call'[h].state = "idle" /\ call'[h].reply = "none"
      /\ \A d \in Callers \ {h} : call'[d] = call[d]
  BY <1>t, Hangs DEF Activate
<1>w. \A w \in Workers : call'[w] = call[w]
  BY <1>c, <1>t, NodeDownloadAssumption
<1>k. /\ control.status = "consuming" /\ ~Closed /\ ~Closed' /\ object /\ Serves(h)
      /\ ~outbox.queued /\ ~letter.held /\ session.actual = 0
  BY <1>o DEF Inv, EventInv, BeginInv, StreamInv, MessageInv, Closed, Serves
<1>u. /\ \A g \in Handlers \ {h} : handler[g].phase # "begin" /\ ~Serves(g)
      /\ ~\E m \in abandoned : m.kind = "begin"
  BY <1>k, <1>o DEF Inv, BeginInv, StreamInv
<1>1. TypeOK'
  BY <1>c, <1>h, <1>o, <1>s, <1>t DEF TypeOK
<1>2. CallInv'
  <2>1. \A w \in Workers : Busy(w)' <=> Busy(w)
    BY <1>w DEF Busy
  <2> QED
    BY <1>c, <1>h, <1>o, <1>t, <1>w, <2>1 DEF Inv, CallInv
<1>3. ClaimInv' /\ EventInv' /\ ControlInv'
  BY <1>k, <1>o, <1>s DEF Inv, ClaimInv, Holds, EventInv, ControlInv
<1>4. BeginInv'
  BY <1>h, <1>k, <1>o, <1>s, <1>u DEF Inv, BeginInv
<1>5. StreamInv'
  <2>1. \A g \in Handlers \ {h} : ~Serves(g)' /\ ~Sending(g)'
    BY <1>c, <1>h, <1>t, <1>u DEF Serves, Sending
  <2>2. \A g \in Handlers : handler'[g].phase # "begin"
    BY <1>h, <1>u
  <2>3. StreamIsAuthorised' /\ ReadersKeepObject'
    BY <1>k, <1>o DEF StreamIsAuthorised, ReadersKeepObject
  <2>4. \A g \in Handlers : handler'[g].sent <= handler'[g].length
    BY <1>h DEF Inv, StreamInv
  <2> QED
    BY <1>h, <1>k, <1>o, <1>s, <2>1, <2>2, <2>3, <2>4 DEF Inv, StreamInv, ControlInv
<1>6. MessageInv'
  <2>1. \A b \in Bodies : SettleOnWay(b)' => SettleOnWay(b)
    BY <1>c, <1>o DEF SettleOnWay
  <2>2. \A b \in Bodies : ~SettleOnWay(b)
    BY <1>k, <1>o DEF Inv, MessageInv
  <2> QED
    BY <1>k, <1>o, <1>s, <1>w, <2>1, <2>2 DEF Inv, MessageInv
<1> QED
  BY <1>1, <1>2, <1>3, <1>4, <1>5, <1>6 DEF Inv

LEMMA HandlerStepKeeps == ASSUME Inv, NEW h \in Handlers, HandlerStep(h) PROVE Inv'
BY OpenKeeps, CancelKeeps, ActivateKeeps, EndsKeep, StreamsKeep DEF HandlerStep

-----------------------------------------------------------------------------
(* The outbox workers. *)

LEMMA Releases ==
    ASSUME TypeOK, NEW w \in Workers, Release(w)
    PROVE  /\ call' \in [Callers -> Calls] /\ claimed' \in [Workers -> Claims]
           /\ call'[w].state = "idle" /\ call'[w].reply = "none"
           /\ \A d \in Callers \ {w} : call'[d] = call[d]
           /\ \A v \in Workers \ {w} : claimed'[v] = claimed[v]
<1>1. w \in Callers /\ claimed \in [Workers -> Claims] /\ NoClaim \in Claims
  BY EmptyTypes DEF TypeOK, Callers
<1>2. call' = [call EXCEPT ![w] = NoCall] /\ claimed' = [claimed EXCEPT ![w] = NoClaim]
  BY DEF Release
<1> QED
  BY <1>1, <1>2, Hangs

\* A worker's step that leaves the session alone.
LEMMA WorkerKeeps ==
    ASSUME Inv, NEW w \in Workers, UNCHANGED <<control, session, object, boot, handler, abandoned, delivered>>,
           outbox' \in Events, letter' \in Letters, faults' \in 0 .. MaxFaults,
           call' \in [Callers -> Calls], claimed' \in [Workers -> Claims],
           \A d \in Callers \ {w} : call'[d] = call[d],
           \/ call'[w].state = "idle" /\ call'[w].reply = "none"
           \/ /\ call'[w].state = "sent" /\ call'[w].reply = "none" /\ call'[w].kind = "settle"
              /\ call'[w].body = claimed'[w].body /\ call'[w].body = outbox.body
              /\ outbox.queued /\ boot = "up",
           \A v \in Workers \ {w} : claimed'[v] = claimed[v],
           ClaimInv', EventInv'
    PROVE  Inv'
<1>t. /\ TypeOK /\ Handlers \subseteq Callers /\ Workers \subseteq Callers /\ w \in Callers
      /\ delivered \in Nat /\ session.actual \in Nat
  BY DEF Inv, TypeOK, Callers, SessionRows, Chunks
<1>h. \A h \in Handlers : call'[h] = call[h]
  BY <1>t, NodeDownloadAssumption
<1>b. /\ outbox.queued => IsFinal(outbox.body)
      /\ outbox.queued => Closed \/ (session.status = "settle_pending" /\ outbox.body = EncodeFinal(session.actual))
  BY DEF Inv, EventInv
<1>1. TypeOK'
  BY <1>t DEF TypeOK
<1>2. CallInv'
  BY <1>b, <1>h, <1>t DEF Inv, CallInv, Busy
<1>3. \A h \in Handlers : GoesOn(h)
  BY <1>h DEF GoesOn, Sending, Inv, StreamInv
<1>4. Advances
  BY DEF Advances, Inv, MessageInv
<1>5. Reports
  <2>1. \A b \in Bodies : SettleOnWay(b)' => SettleOnWay(b) \/ (outbox.queued /\ b = outbox.body)
    BY DEF SettleOnWay
  <2>2. \A v \in Workers : call'[v].reply = "ok" => call'[v] = call[v]
    BY <1>t
  <2> QED
    BY <1>b, <2>1, <2>2 DEF Reports
<1>6. ControlInv' /\ BeginInv' /\ StreamInv' /\ MessageInv'
  BY <1>1, <1>3, <1>4, <1>5, <1>t, NodeAdvances
<1> QED
  BY <1>1, <1>2, <1>6 DEF Inv

LEMMA ClaimKeeps == ASSUME Inv, NEW w \in Workers, Claim(w) PROVE Inv'
<1>t. /\ TypeOK /\ w \in Callers /\ outbox \in Events /\ outbox.body \in Bodies /\ claimed \in [Workers -> Claims]
      /\ faults \in 0 .. MaxFaults /\ letter \in Letters
  BY DEF Inv, TypeOK, Callers, Events
<1>o. /\ boot = "up" /\ outbox.queued /\ faults' \in 0 .. MaxFaults
      /\ UNCHANGED <<control, session, letter, object, boot, handler, abandoned, delivered>>
  BY <1>t, FaultType DEF Claim
<1>c. /\ call' \in [Callers -> Calls] /\ call'[w].state = "sent" /\ call'[w].kind = "settle"
      /\ call'[w].body = outbox.body /\ call'[w].reply = "none"
      /\ \A d \in Callers \ {w} : call'[d] = call[d]
  BY <1>t, Sends DEF Claim
<1>k. /\ claimed' \in [Workers -> Claims] /\ claimed'[w].body = outbox.body
      /\ claimed'[w].version = outbox.version /\ claimed'[w].attempts = outbox.attempts
      /\ \A v \in Workers \ {w} : claimed'[v] = claimed[v]
  <2> DEFINE new == [body |-> outbox.body, version |-> outbox.version, attempts |-> outbox.attempts]
  <2>1. /\ new \in Claims /\ new.body = outbox.body /\ new.version = outbox.version
        /\ new.attempts = outbox.attempts /\ claimed' = [claimed EXCEPT ![w] = new]
    BY <1>t DEF Claim, Events, Claims
  <2> HIDE DEF new
  <2> QED
    BY <1>t, <2>1
<1>e. /\ outbox' \in Events /\ outbox'.queued = outbox.queued /\ outbox'.body = outbox.body
      /\ outbox'.version = outbox.version /\ outbox'.attempts = outbox.attempts
      /\ outbox'.replay = outbox.replay /\ outbox'.claim = w
  BY <1>t DEF Claim, Events
<1>1. ClaimInv'
  <2>1. \A v \in Workers : Holds(v)' => v = w
    BY <1>e DEF Holds
  <2>2. outbox.version \in Nat
    BY <1>t DEF Events
  <2> QED
    BY <1>e, <1>k, <2>1, <2>2 DEF ClaimInv, Inv
<1>2. EventInv'
  BY <1>e, <1>o DEF EventInv, Inv, Closed
<1> QED
  BY <1>1, <1>2, <1>c, <1>e, <1>k, <1>o, <1>t, WorkerKeeps

\* What a worker that holds its claim may do with the event: an answer that is no success
\* sends it back with one attempt more, or to the dead letters.
LEMMA ReleasesKeep ==
    ASSUME Inv, NEW w \in Workers, Retry(w) \/ DeadLetter(w) \/ LeaveClaim(w)
    PROVE  Inv'
<1>t. /\ TypeOK /\ w \in Callers /\ outbox \in Events /\ faults \in 0 .. MaxFaults /\ letter \in Letters
      /\ NoEvent \in Events /\ MaxAttempts \in Nat \ {0} /\ None \notin Workers
      /\ outbox.attempts \in Nat
  BY EmptyTypes, NodeDownloadAssumption DEF Inv, TypeOK, Callers, Events
<1>r. /\ Release(w) /\ faults' \in 0 .. MaxFaults
      /\ UNCHANGED <<control, session, object, boot, handler, abandoned, delivered>>
  BY <1>t, FaultType DEF Retry, DeadLetter, LeaveClaim
<1>c. /\ call' \in [Callers -> Calls] /\ claimed' \in [Workers -> Claims]
      /\ call'[w].state = "idle" /\ call'[w].reply = "none"
      /\ \A d \in Callers \ {w} : call'[d] = call[d]
      /\ \A v \in Workers \ {w} : claimed'[v] = claimed[v]
  BY <1>r, <1>t, Releases
<1>b. ~Busy(w)' /\ \A v \in Workers : Busy(v)' => v # w /\ Busy(v)
  BY <1>c DEF Busy, Callers
<1>u. LET new == Unclaimed(outbox) IN
      /\ new \in Events /\ new.queued = outbox.queued /\ new.body = outbox.body
      /\ new.version = outbox.version /\ new.attempts = outbox.attempts
      /\ new.replay = outbox.replay /\ new.claim = None
  BY <1>t DEF Unclaimed, Events
<1>i. ASSUME outbox' \in Events, letter' \in Letters, outbox' = outbox \/ ~outbox'.queued \/ outbox'.claim = None,
             outbox'.attempts < MaxAttempts, EventInv'
      PROVE  Inv'
  <2>1. \A v \in Workers : Holds(v)' /\ Busy(v)' => outbox' = outbox /\ claimed'[v] = claimed[v] /\ Busy(v)
    BY <1>b, <1>c, <1>i, <1>t DEF Holds
  <2>2. ClaimInv'
    BY <1>i, <2>1 DEF ClaimInv, Holds, Current, Inv
  <2> QED
    BY <1>c, <1>i, <1>r, <2>2, WorkerKeeps
<1>a. outbox.attempts < MaxAttempts /\ EventInv
  BY DEF Inv, ClaimInv
\* The event is kept as it is, but for the claim.
<1>s. ASSUME outbox' = outbox \/ outbox' = Unclaimed(outbox), letter' = letter PROVE Inv'
  <2>1. /\ outbox' \in Events /\ outbox'.queued = outbox.queued /\ outbox'.body = outbox.body
        /\ outbox'.attempts = outbox.attempts /\ outbox'.replay = outbox.replay
        /\ outbox' = outbox \/ outbox'.claim = None
    BY <1>s, <1>t, <1>u
  <2>2. EventInv'
    BY <1>a, <1>r, <1>s, <2>1 DEF EventInv, Closed
  <2> QED
    BY <1>a, <1>i, <1>s, <1>t, <2>1, <2>2
<1>1. CASE LeaveClaim(w)
  BY <1>1, <1>s DEF LeaveClaim
<1>2. CASE Retry(w)
  <2>1. CASE Holds(w) /\ Current(w)
    <3> DEFINE old == Unclaimed(outbox)
    <3>1. outbox' = [old EXCEPT !.attempts = old.attempts + 1] /\ letter' = letter
      BY <1>2, <2>1, <1>u DEF Retry
    <3>2. Busy(w) /\ claimed[w].attempts + 1 < MaxAttempts
      <4>1. Busy(w)
        BY <1>2, <1>t DEF Retry, Inv, CallInv, Busy
      <4>2. claimed[w].attempts = outbox.attempts
        BY <2>1, <4>1 DEF Inv, ClaimInv
      <4> QED
        BY <1>2, <1>t, <4>1, <4>2 DEF Retry, GivesUp
    <3>3. claimed[w].attempts = outbox.attempts
      BY <2>1, <3>2 DEF Inv, ClaimInv
    <3>4. old \in Events /\ old.attempts + 1 < MaxAttempts /\ old.attempts + 1 \in 0 .. MaxAttempts
      BY <1>t, <1>u, <3>2, <3>3
    <3>5. /\ old.queued = outbox.queued /\ old.body = outbox.body
          /\ old.replay = outbox.replay /\ old.claim = None
      BY <1>u
    <3> HIDE DEF old
    <3>6. /\ outbox' \in Events /\ outbox'.queued = outbox.queued /\ outbox'.body = outbox.body
          /\ outbox'.attempts < MaxAttempts /\ outbox'.replay = outbox.replay /\ outbox'.claim = None
      BY <3>1, <3>4, <3>5 DEF Events
    <3>7. EventInv'
      BY <1>a, <1>r, <3>1, <3>6 DEF EventInv, Closed
    <3> QED
      BY <1>i, <1>t, <3>1, <3>6, <3>7
  <2>2. CASE ~(Holds(w) /\ Current(w))
    BY <1>2, <1>s, <2>2 DEF Retry
  <2> QED
    BY <2>1, <2>2
<1>3. CASE DeadLetter(w)
  <2>1. CASE Holds(w) /\ Current(w)
    <3>1. /\ letter' = [held |-> TRUE, body |-> outbox.body, version |-> outbox.version]
          /\ outbox' = NoEvent /\ outbox.queued
      BY <1>3, <2>1 DEF DeadLetter, Holds
    <3>2. letter' \in Letters /\ letter'.held /\ letter'.body = outbox.body
      BY <1>t, <3>1 DEF Letters, Events
    <3>3. outbox' \in Events /\ ~outbox'.queued /\ outbox'.attempts < MaxAttempts
      BY <1>t, <3>1 DEF NoEvent
    <3>4. EventInv'
      BY <1>a, <1>r, <3>1, <3>2, <3>3 DEF EventInv, Closed
    <3> QED
      BY <1>i, <3>2, <3>3, <3>4
  <2>2. CASE ~(Holds(w) /\ Current(w))
    BY <1>3, <1>s, <2>2 DEF DeadLetter
  <2> QED
    BY <2>1, <2>2
<1> QED
  BY <1>1, <1>2, <1>3

\* An acknowledged event is the one that was sent, and its reservation is closed.
LEMMA AckKeeps == ASSUME Inv, NEW w \in Workers, Ack(w) PROVE Inv'
<1>t. /\ TypeOK /\ w \in Callers /\ outbox \in Events /\ faults \in 0 .. MaxFaults /\ letter \in Letters
      /\ NoEvent \in Events /\ NoSession \in SessionRows /\ MaxAttempts \in Nat \ {0} /\ None \notin Workers
      /\ session \in SessionRows /\ delivered \in Nat
      /\ Handlers \subseteq Callers /\ Workers \subseteq Callers
  BY EmptyTypes, NodeDownloadAssumption DEF Inv, TypeOK, Callers
<1>r. /\ Release(w) /\ call[w].reply = "ok"
      /\ UNCHANGED <<control, letter, object, boot, handler, abandoned, delivered, faults>>
  BY DEF Ack, Acknowledges
<1>c. /\ call' \in [Callers -> Calls] /\ claimed' \in [Workers -> Claims]
      /\ call'[w].state = "idle" /\ call'[w].reply = "none"
      /\ \A d \in Callers \ {w} : call'[d] = call[d]
      /\ \A v \in Workers \ {w} : claimed'[v] = claimed[v]
  BY <1>r, <1>t, Releases
<1>b. ~Busy(w)' /\ \A v \in Workers : Busy(v)' => v # w /\ Busy(v)
  BY <1>c DEF Busy, Callers
<1>k. Closed /\ Closed'
  BY <1>r DEF Inv, MessageInv, Closed
<1>u. LET new == Unclaimed(outbox) IN
      /\ new \in Events /\ new.queued = outbox.queued /\ new.body = outbox.body
      /\ new.version = outbox.version /\ new.attempts = outbox.attempts
      /\ new.replay = outbox.replay /\ new.claim = None
  BY <1>t DEF Unclaimed, Events
\* The session stays: the event is not the worker's, has changed, or was a leftover.
<1>s. ASSUME \/ outbox' = outbox \/ outbox' = Unclaimed(outbox)
             \/ outbox' = NoEvent /\ session.status # "settle_pending",
             session' = session
      PROVE  Inv'
  <2>0. NoEvent.queued = FALSE /\ NoEvent.attempts = 0
    BY DEF NoEvent
  <2>1. /\ outbox' \in Events /\ outbox'.attempts < MaxAttempts
        /\ outbox' = outbox \/ ~outbox'.queued \/ outbox'.claim = None
    BY <1>s, <1>t, <1>u, <2>0 DEF Inv, ClaimInv
  <2>2. EventInv'
    BY <1>k, <1>r, <1>s, <1>u, <2>0 DEF EventInv, Inv
  <2>3. \A v \in Workers : Holds(v)' /\ Busy(v)' => outbox' = outbox /\ claimed'[v] = claimed[v] /\ Busy(v)
    BY <1>b, <1>c, <1>t, <2>1 DEF Holds
  <2>4. ClaimInv'
    BY <2>1, <2>3 DEF ClaimInv, Holds, Current, Inv
  <2> QED
    BY <1>c, <1>r, <1>s, <1>t, <2>1, <2>2, <2>4, WorkerKeeps
<1>1. CASE ~Holds(w)
  BY <1>1, <1>s DEF Ack
<1>2. CASE Holds(w) /\ ~Current(w)
  BY <1>2, <1>s DEF Ack
<1>3. CASE Holds(w) /\ Current(w) /\ session.status # "settle_pending"
  BY <1>3, <1>s DEF Ack
<1>4. CASE Holds(w) /\ Current(w) /\ session.status = "settle_pending"
  <2>1. outbox' = NoEvent /\ session' = NoSession
    BY <1>4 DEF Ack
  <2>2. /\ ~outbox'.queued /\ outbox'.attempts = 0
        /\ session'.status = "none" /\ session'.actual = 0
    BY <2>1 DEF NoEvent, NoSession
  <2>h. \A h \in Handlers : call'[h] = call[h] /\ (Serves(h)' <=> Serves(h)) /\ (Sending(h)' <=> Sending(h))
    BY <1>c, <1>r, <1>t, NodeDownloadAssumption DEF Serves, Sending
  <2>3. TypeOK'
    BY <1>c, <1>r, <1>t, <2>1 DEF TypeOK
  <2>4. CallInv'
    BY <1>b, <1>c, <1>r, <1>t, <2>h DEF Inv, CallInv, Busy
  <2>5. ClaimInv' /\ EventInv' /\ ControlInv'
    BY <1>k, <1>r, <1>t, <2>2 DEF Inv, ClaimInv, Holds, EventInv, ControlInv
  <2>6. BeginInv'
    BY <1>k, <1>r, <2>2, <2>h DEF Inv, BeginInv, Closed
  <2>7. StreamInv'
    <3>1. StreamIsAuthorised' /\ ReadersKeepObject'
      BY <1>r, <2>2 DEF StreamIsAuthorised, ReadersKeepObject, Inv, StreamInv
    <3>2. \A h \in Handlers : Sending(h) => handler[h].stale
      BY <1>4 DEF Inv, StreamInv
    <3> QED
      BY <1>k, <1>r, <2>2, <2>h, <3>1, <3>2 DEF Inv, StreamInv
  <2>8. MessageInv'
    <3>1. \A v \in Workers : call'[v].reply = "ok" => call'[v] = call[v]
      BY <1>c, <1>t
    <3>2. session'.actual <= delivered'
      BY <1>r, <1>t, <2>2
    <3> QED
      BY <1>k, <1>r, <2>2, <3>1, <3>2 DEF Inv, MessageInv
  <2> QED
    BY <2>3, <2>4, <2>5, <2>6, <2>7, <2>8 DEF Inv
<1> QED
  BY <1>1, <1>2, <1>3, <1>4

LEMMA WorkerStepKeeps == ASSUME Inv, NEW w \in Workers, WorkerStep(w) PROVE Inv'
BY ClaimKeeps, ReleasesKeep, AckKeeps DEF WorkerStep

-----------------------------------------------------------------------------
(* Recovery, deletion, crash and start-up. *)

LEMMA RecoverEffect ==
    ASSUME Inv, RecoverSession, UNCHANGED <<control, letter, delivered>>,
           \A w \in Workers : Busy(w)' => Busy(w) /\ claimed'[w] = claimed[w]
    PROVE  /\ session' \in SessionRows /\ outbox' \in Events /\ Advances
           /\ ClaimInv' /\ EventInv'
<1>t. /\ TypeOK /\ session.actual \in Chunks /\ 0 \in Chunks /\ session.actual <= delivered /\ session.actual \in Nat
  BY EmptyTypes DEF Inv, TypeOK, SessionRows, MessageInv, Chunks
<1>1. session.status \in {"begin_pending", "streaming"} /\ QueueSettlement(session.actual)
  BY DEF RecoverSession, Inv, MessageInv
<1>2. /\ session' \in SessionRows /\ outbox' \in Events
      /\ session'.status = "settle_pending" /\ session'.actual = session.actual
  BY <1>1, <1>t, Queues
<1>3. Advances
  BY <1>1, <1>2, <1>t DEF Advances
<1>4. ClaimInv' /\ EventInv'
  BY <1>1, <1>t, SettlementKeeps
<1> QED
  BY <1>2, <1>3, <1>4

\* A row recovered under a live request makes the request stale.
LEMMA RecoverStaleKeeps == ASSUME Inv, RecoverStale PROVE Inv'
<1>t. TypeOK /\ handler \in [Handlers -> Streams] /\ faults \in 0 .. MaxFaults /\ delivered \in Nat
  BY DEF Inv, TypeOK
<1>o. /\ RecoverSession /\ faults' \in 0 .. MaxFaults
      /\ UNCHANGED <<control, letter, object, boot, claimed, call, abandoned, delivered>>
  BY <1>t, FaultType DEF RecoverStale
<1>h. /\ handler' \in [Handlers -> Streams]
      /\ \A h \in Handlers :
             /\ handler'[h].phase = handler[h].phase /\ handler'[h].sent = handler[h].sent
             /\ handler'[h].length = handler[h].length
             /\ handler[h].phase # "idle" => handler'[h].stale
  <2> DEFINE new(h) == [handler[h] EXCEPT !.stale = (handler[h].phase # "idle")]
  <2>1. ASSUME NEW h \in Handlers
        PROVE  /\ new(h) \in Streams /\ new(h).phase = handler[h].phase /\ new(h).sent = handler[h].sent
               /\ new(h).length = handler[h].length /\ new(h).stale = (handler[h].phase # "idle")
    <3> DEFINE x == (handler[h].phase # "idle")
    <3>1. x \in BOOLEAN /\ handler[h] \in Streams
      BY <1>t
    <3> HIDE DEF x
    <3>2. LET y == [handler[h] EXCEPT !.stale = x] IN
          /\ y \in Streams /\ y.phase = handler[h].phase /\ y.sent = handler[h].sent
          /\ y.length = handler[h].length /\ y.stale = x
      BY <3>1 DEF Streams
    <3> QED
      BY <3>2 DEF x
  <2>2. handler' = [h \in Handlers |-> new(h)]
    BY DEF RecoverStale
  <2> HIDE DEF new
  <2> QED
    BY <2>1, <2>2
<1>s. session' \in SessionRows /\ outbox' \in Events /\ Advances /\ ClaimInv' /\ EventInv'
  BY <1>o, RecoverEffect DEF Busy
<1>1. TypeOK'
  BY <1>h, <1>o, <1>s, <1>t DEF TypeOK
<1>2. CallInv'
  BY <1>h, <1>o DEF Inv, CallInv, Busy
<1>3. \A h \in Handlers : GoesOn(h)
  BY <1>h, <1>o DEF GoesOn, Sending, Inv, StreamInv
<1>4. Reports
  BY <1>o DEF Reports, SettleOnWay
<1>5. ControlInv' /\ BeginInv' /\ StreamInv' /\ MessageInv'
  BY <1>1, <1>3, <1>4, <1>o, <1>s, <1>t, NodeAdvances
<1> QED
  BY <1>1, <1>2, <1>5, <1>s DEF Inv

LEMMA DeleteKeeps == ASSUME Inv, DeleteUpload PROVE Inv'
<1>o. /\ object' = FALSE /\ session.status = "none" /\ \A h \in Handlers : handler[h].phase # "begin"
      /\ UNCHANGED <<control, session, outbox, letter, boot, handler, claimed, call, abandoned, delivered, faults>>
  <2>1. session.status \in NodeStatus
    BY DEF Inv, TypeOK, SessionRows
  <2> QED
    BY <2>1 DEF DeleteUpload, ActiveSession, NodeStatus, LockFree
<1>t. /\ handler \in [Handlers -> Streams]
      /\ \A h \in Handlers : handler[h].phase \in {"idle", "begin", "copying", "checkpoint", "finishing"}
  BY DEF Inv, TypeOK, Streams
<1>1. TypeOK' /\ CallInv' /\ ClaimInv' /\ EventInv' /\ ControlInv'
  <2>1. TypeOK'
    BY <1>o DEF Inv, TypeOK
  <2>2. CallInv' /\ ClaimInv'
    BY <1>o DEF Inv, CallInv, ClaimInv, Busy, Holds, Current
  <2>3. EventInv' /\ ControlInv'
    BY <1>o DEF Inv, EventInv, ControlInv, Closed
  <2> QED
    BY <2>1, <2>2, <2>3
<1>2. BeginInv'
  BY <1>o DEF Inv, BeginInv, Closed
<1>3. StreamInv'
  <2>1. \A h \in Handlers : (Serves(h)' <=> Serves(h)) /\ (Sending(h)' <=> Sending(h))
    BY <1>o DEF Serves, Sending
  <2>2. ReadersKeepObject'
    BY <1>o, <1>t DEF ReadersKeepObject, Inv, StreamInv, Sending
  <2>3. StreamIsAuthorised'
    BY <1>o DEF StreamIsAuthorised
  <2> QED
    BY <1>o, <2>1, <2>2, <2>3 DEF Inv, StreamInv, Closed
<1>4. MessageInv'
  BY <1>o DEF Inv, MessageInv, Closed, SettleOnWay
<1> QED
  BY <1>1, <1>2, <1>3, <1>4 DEF Inv

\* A request whose answer the crash loses may still arrive; its row survives.
LEMMA CrashKeeps == ASSUME Inv, Crash PROVE Inv'
<1>t. /\ TypeOK /\ Handlers \subseteq Callers /\ Workers \subseteq Callers /\ delivered \in Nat
      /\ Idle \in Streams /\ NoCall \in Calls /\ NoClaim \in Claims /\ faults' \in 0 .. MaxFaults
      /\ call \in [Callers -> Calls] /\ handler \in [Handlers -> Streams] /\ abandoned \subseteq Requests
  BY EmptyTypes, FaultType DEF Inv, TypeOK, Callers, Crash
<1>o. /\ boot' = "down" /\ abandoned' = abandoned \cup UnansweredOf(Callers)
      /\ UNCHANGED <<control, session, outbox, letter, object, delivered>>
  BY DEF Crash
<1>h. /\ handler' \in [Handlers -> Streams] /\ call' \in [Callers -> Calls] /\ claimed' \in [Workers -> Claims]
      /\ \A h \in Handlers : handler'[h] = Idle
      /\ \A c \in Callers : call'[c] = NoCall
  BY <1>t DEF Crash
<1>i. /\ \A h \in Handlers : handler'[h].phase = "idle" /\ handler'[h].sent = 0 /\ handler'[h].length = 0
      /\ \A c \in Callers : call'[c].state = "idle" /\ call'[c].reply = "none"
  BY <1>h DEF Idle, NoCall
<1>k. \A c \in Callers : call[c].state = "sent" =>
          /\ call[c].kind \in {"begin", "settle"} /\ call[c].body \in Bodies
          /\ call[c].kind = "begin" => c \in Handlers /\ handler[c].phase = "begin"
  <2>1. \A c \in Callers : call[c].body \in Bodies
    BY <1>t DEF Calls
  <2>2. \A w \in Workers : call[w].state = "sent" => call[w].kind = "settle"
    BY DEF Inv, CallInv, Busy
  <2>3. \A h \in Handlers : handler[h].phase \in {"idle", "begin", "copying", "checkpoint", "finishing"}
    BY <1>t DEF Streams
  <2>4. \A h \in Handlers : call[h].state = "sent" =>
            call[h].kind \in {"begin", "settle"} /\ (call[h].kind = "begin" => handler[h].phase = "begin")
    BY <2>3 DEF Inv, CallInv
  <2> QED
    BY <2>1, <2>2, <2>4 DEF Callers
<1>u. \A m \in UnansweredOf(Callers) :
          m \in Requests /\ (m.kind = "begin" => \E h \in Handlers : handler[h].phase = "begin")
  <2> SUFFICES ASSUME NEW c \in Callers, call[c].state = "sent"
               PROVE  LET m == [kind |-> call[c].kind, body |-> call[c].body] IN
                      m \in Requests /\ (m.kind = "begin" => \E h \in Handlers : handler[h].phase = "begin")
    BY DEF UnansweredOf
  <2> QED
    BY <1>k DEF Requests
<1>1. TypeOK'
  <2>1. abandoned' \subseteq Requests
    BY <1>o, <1>t, <1>u
  <2> QED
    BY <1>h, <1>o, <1>t, <2>1 DEF TypeOK
<1>2. CallInv' /\ ClaimInv' /\ EventInv'
  <2>1. \A w \in Workers : ~Busy(w)'
    BY <1>i, <1>t DEF Busy
  <2>2. CallInv'
    BY <1>i, <1>t, <2>1 DEF CallInv
  <2>3. ClaimInv' /\ EventInv'
    BY <1>o, <2>1 DEF ClaimInv, EventInv, Inv, Closed
  <2> QED
    BY <2>2, <2>3
<1>3. \A h \in Handlers : GoesOn(h)
  BY <1>i DEF GoesOn
<1>4. Advances
  BY <1>o DEF Advances, Inv, MessageInv
<1>5. Reports
  <2>1. \A b : SettleOnWay(b)' => SettleOnWay(b)
    BY <1>i, <1>o, OnWayKept
  <2>2. \A w \in Workers : call'[w].reply # "ok"
    BY <1>i, <1>t
  <2> QED
    BY <1>i, <1>o, <1>u, <2>1, <2>2 DEF Reports
<1>6. ControlInv' /\ BeginInv' /\ StreamInv' /\ MessageInv'
  BY <1>1, <1>3, <1>4, <1>5, <1>o, <1>t, NodeAdvances
<1> QED
  BY <1>1, <1>2, <1>6 DEF Inv

\* While the node starts, nobody is at work.
LEMMA StartKeeps ==
    ASSUME Inv, boot # "up", boot' \in {"reset", "replayed", "up"},
           UNCHANGED <<control, object, handler, claimed, call, abandoned, delivered, faults>>,
           session' \in SessionRows, outbox' \in Events, letter' \in Letters,
           Advances, ClaimInv', EventInv'
    PROVE  Inv'
<1>t. TypeOK /\ delivered \in Nat
  BY DEF Inv, TypeOK
<1>i. /\ \A h \in Handlers : handler[h].phase = "idle"
      /\ \A c \in Callers : call[c].state = "idle"
  BY DEF Inv, CallInv
<1>1. TypeOK'
  BY <1>t DEF TypeOK
<1>2. CallInv'
  BY <1>i DEF Inv, CallInv, Busy
<1>3. \A h \in Handlers : GoesOn(h)
  BY <1>i DEF GoesOn, Inv, StreamInv
<1>4. Reports
  BY DEF Reports, SettleOnWay
<1>5. ControlInv' /\ BeginInv' /\ StreamInv' /\ MessageInv'
  BY <1>1, <1>3, <1>4, <1>t, NodeAdvances
<1> QED
  BY <1>1, <1>2, <1>5 DEF Inv

LEMMA NodeStepKeeps == ASSUME Inv, NodeStep PROVE Inv'
<1>t. /\ TypeOK /\ session \in SessionRows /\ outbox \in Events /\ letter \in Letters
      /\ outbox.attempts < MaxAttempts /\ 0 < MaxAttempts /\ NoLetter \in Letters
      /\ 0 \in 0 .. MaxAttempts
  BY EmptyTypes, NodeDownloadAssumption DEF Inv, TypeOK, ClaimInv
<1>q. boot # "up" /\ call' = call => \A w \in Workers : ~Busy(w)'
  BY DEF Inv, CallInv, Busy, Callers
<1>a. session' = session /\ delivered' = delivered => Advances
  BY DEF Advances, Inv, MessageInv
<1>1. CASE ResetOutboxClaims
  <2>1. /\ boot # "up" /\ boot' = "reset"
        /\ UNCHANGED <<control, session, letter, object, handler, claimed, call, abandoned, delivered, faults>>
    BY <1>1 DEF ResetOutboxClaims
  <2>2. /\ outbox' \in Events /\ outbox'.queued = outbox.queued /\ outbox'.body = outbox.body
        /\ outbox'.attempts = outbox.attempts /\ outbox'.replay = outbox.replay
    BY <1>1, <1>t DEF ResetOutboxClaims, Unclaimed, Events
  <2>3. ClaimInv' /\ EventInv'
    BY <1>q, <1>t, <2>1, <2>2 DEF ClaimInv, EventInv, Inv, Closed
  <2> QED
    BY <1>a, <1>t, <2>1, <2>2, <2>3, StartKeeps
<1>2. CASE ReplayDeadLetters
  <2>1. /\ boot # "up" /\ boot' = "replayed"
        /\ UNCHANGED <<control, session, object, handler, claimed, call, abandoned, delivered, faults>>
    BY <1>2 DEF ReplayDeadLetters
  <2>2. CASE UNCHANGED <<outbox, letter>>
    <3>1. ClaimInv' /\ EventInv'
      BY <1>q, <1>t, <2>1, <2>2 DEF ClaimInv, EventInv, Inv, Closed
    <3> QED
      BY <1>a, <1>t, <2>1, <2>2, <3>1, StartKeeps
  <2>3. CASE ~UNCHANGED <<outbox, letter>>
    <3> DEFINE v == IF outbox.queued THEN Larger(outbox.version, letter.version + 1) + 1
                    ELSE letter.version + 1
    <3>1. /\ letter.held /\ letter' = NoLetter
          /\ outbox' = [queued |-> TRUE, body |-> letter.body, attempts |-> 0, claim |-> None,
                        version |-> v, replay |-> TRUE]
      BY <1>2, <2>3 DEF ReplayDeadLetters
    <3>2. v \in Nat
      BY <1>t DEF Events, Letters, Larger
    <3>3. letter.body \in Bodies
      BY <1>t DEF Letters
    <3> HIDE DEF v
    <3>4. /\ outbox' \in Events /\ outbox'.queued /\ outbox'.body = letter.body
          /\ outbox'.attempts = 0 /\ outbox'.replay
      BY <1>t, <3>1, <3>2, <3>3 DEF Events
    <3>5. letter' \in Letters /\ ~letter'.held
      BY <1>t, <3>1 DEF NoLetter
    <3>6. ClaimInv' /\ EventInv'
      BY <1>q, <1>t, <2>1, <3>1, <3>4, <3>5 DEF ClaimInv, EventInv, Inv, Closed
    <3> QED
      BY <1>a, <1>t, <2>1, <3>4, <3>5, <3>6, StartKeeps
  <2> QED
    BY <2>2, <2>3
<1>3. CASE RecoverDownloadSessions
  <2>1. /\ boot # "up" /\ boot' = "up"
        /\ UNCHANGED <<control, letter, object, handler, claimed, call, abandoned, delivered, faults>>
    BY <1>3 DEF RecoverDownloadSessions
  <2>2. CASE RecoverSession
    BY <1>q, <1>t, <2>1, <2>2, RecoverEffect, StartKeeps
  <2>3. CASE UNCHANGED <<session, outbox>>
    <3>1. ClaimInv' /\ EventInv'
      BY <1>q, <1>t, <2>1, <2>3 DEF ClaimInv, EventInv, Inv, Closed
    <3> QED
      BY <1>a, <1>t, <2>1, <2>3, <3>1, StartKeeps
  <2> QED
    BY <1>3, <2>2, <2>3 DEF RecoverDownloadSessions
<1> QED
  BY <1>1, <1>2, <1>3, RecoverStaleKeeps, DeleteKeeps, CrashKeeps DEF NodeStep

-----------------------------------------------------------------------------
(* The theorems. *)

LEMMA StutterKeeps == ASSUME Inv, UNCHANGED vars PROVE Inv'
<1>1. TypeOK' /\ CallInv' /\ ClaimInv'
  BY DEF vars, Inv, TypeOK, CallInv, ClaimInv, Busy, Holds, Current
<1>2. EventInv' /\ ControlInv' /\ BeginInv'
  BY DEF vars, Inv, EventInv, ControlInv, BeginInv, Closed
<1>3. StreamInv'
  BY DEF vars, Inv, StreamInv, Serves, Sending, StreamIsAuthorised, ReadersKeepObject, Closed
<1>4. MessageInv'
  BY DEF vars, Inv, MessageInv, SettleOnWay, Closed
<1> QED
  BY <1>1, <1>2, <1>3, <1>4 DEF Inv

LEMMA NextInv == ASSUME Inv, [Next]_vars PROVE Inv'
BY ControlStepKeeps, HandlerStepKeeps, WorkerStepKeeps, NodeStepKeeps, StutterKeeps DEF Next

\* The inductive invariant holds in every run.
THEOREM Invariance == Spec => []Inv
BY InitInv, NextInv, PTL DEF Spec

\* Every run keeps the rows, calls and claims of both planes well formed.
THEOREM Typing == Spec => []TypeOK
<1>1. Inv => TypeOK
  BY DEF Inv
<1> QED
  BY <1>1, Invariance, PTL

\* A stream the control plane has begun always has its row on the node: no lost answer, late begin,
\* failed write or crash leaves a consuming reservation that nobody will settle.
THEOREM BegunStreamsHaveSessions == Spec => []BegunStreamHasSession
<1>1. Inv => BegunStreamHasSession
  BY DEF Inv, BeginInv, BegunStreamHasSession
<1> QED
  BY <1>1, Invariance, PTL

\* A session on its way out has its event in the outbox or among the dead letters, with its count.
THEOREM SettlementsAreQueued == Spec => []SettlementIsQueued
<1>1. Inv => SettlementIsQueued
  BY DEF Inv, EventInv, SettlementIsQueued
<1> QED
  BY <1>1, Invariance, PTL

\* The node streams only while the control plane has the stream on record.
THEOREM StreamsAreAuthorised == Spec => []StreamIsAuthorised
<1>1. Inv => StreamIsAuthorised
  BY DEF Inv, StreamInv
<1> QED
  BY <1>1, Invariance, PTL

\* No object is deleted under a reader whose row was not recovered as stale.
THEOREM ReadersKeepTheirObject == Spec => []ReadersKeepObject
<1>1. Inv => ReadersKeepObject
  BY DEF Inv, StreamInv
<1> QED
  BY <1>1, Invariance, PTL

\* Only an acknowledgement ends a session that is being settled; what it acknowledges is the
\* event of the row.
LEMMA ForgetStep ==
    ASSUME Inv, [Next]_vars, session.status = "settle_pending", session'.status = "none"
    PROVE  \/ control.status = "settled" /\ control.actual = session.actual
           \/ control.status = "released" /\ session.actual = 0
<1>t. session \in SessionRows /\ session.actual \in Chunks
  BY DEF Inv, TypeOK, SessionRows
<1>q. \A n : ~QueueSettlement(n)
  <2>1. \A n : QueueSettlement(n) => session'.status = "settle_pending"
    BY <1>t DEF QueueSettlement, SessionRows
  <2> QED
    BY <2>1
<1>n. session' # session
  OBVIOUS
<1>1. ~ControlStep
  BY <1>n DEF ControlStep, Answer, Refuse, TimeOut, ReceiveAbandoned, ReleaseExpired, PassDeadline, ForceSettle
<1>2. ~\E h \in Handlers : HandlerStep(h)
  <2> SUFFICES ASSUME NEW h \in Handlers, HandlerStep(h) PROVE FALSE
    OBVIOUS
  <2>1. ~FinishPending /\ ~FinishCheckpoint /\ ~FinishStreaming(handler[h].sent)
    BY <1>n, <1>q DEF FinishPending, FinishCheckpoint, FinishStreaming
  <2>2. /\ \A n \in 1 .. Length : ~Open(h, n)
        /\ ~CancelBegin(h) /\ ~AmbiguousBegin(h) /\ ~Activate(h) /\ ~ActivateFails(h) /\ ~LeaveSession(h)
    BY <1>n, <2>1 DEF Open, CancelBegin, AmbiguousBegin, Activate, ActivateFails, LeaveSession
  <2>3. ~WriteChunk(h) /\ ~Checkpoint(h) /\ ~EndCopy(h) /\ ~Finish(h) /\ ~FinishFails(h)
    BY <1>n, <2>1 DEF WriteChunk, Checkpoint, CheckpointAccepted, EndCopy, Finish, FinishFails
  <2>4. /\ \A n \in Chunks : ~Heartbeat(h, n)
        /\ ~HeartbeatRefused(h) /\ ~HeartbeatAnswered(h)
    BY <1>n DEF Heartbeat, HeartbeatRefused, HeartbeatAnswered
  <2> QED
    BY <2>2, <2>3, <2>4 DEF HandlerStep
<1>3. ~NodeStep
  BY <1>n, <1>q DEF NodeStep, RecoverStale, DeleteUpload, Crash, ResetOutboxClaims, ReplayDeadLetters,
                    RecoverDownloadSessions, RecoverSession
<1>4. PICK w \in Workers : WorkerStep(w)
  BY <1>1, <1>2, <1>3, <1>n DEF Next, vars
<1>5. Ack(w)
  BY <1>4, <1>n DEF WorkerStep, Claim, Retry, DeadLetter, LeaveClaim
<1>6. Holds(w) /\ Current(w) /\ call[w].reply = "ok"
  BY <1>5, <1>n DEF Ack, Acknowledges
<1>7. Busy(w)
  BY <1>6 DEF Inv, CallInv, Busy, Callers
<1>8. call[w].body = EncodeFinal(session.actual)
  <2>1. call[w].body = claimed[w].body /\ claimed[w].body = outbox.body
    BY <1>6, <1>7 DEF Inv, CallInv, ClaimInv
  <2>2. outbox.body = EncodeFinal(session.actual)
    BY <1>6 DEF Inv, EventInv, Holds
  <2> QED
    BY <2>1, <2>2
<1>9. DecodedBytes(call[w].body) = session.actual
  BY <1>8, <1>t, Encoding
<1> QED
  BY <1>6, <1>9 DEF Inv, MessageInv, ControlInv

\* The node forgets a settlement only when the control plane holds exactly its count, or has
\* released a ticket on which nothing was delivered.
THEOREM OnlySettledIsForgotten == Spec => ForgetsOnlySettled
<1>1. Inv /\ [Next]_vars =>
        [session.status = "settle_pending" /\ session'.status = "none" =>
          \/ control.status = "settled" /\ control.actual = session.actual
          \/ control.status = "released" /\ session.actual = 0]_vars
  BY ForgetStep
<1> QED
  BY <1>1, Invariance, PTL DEF Spec, ForgetsOnlySettled

-----------------------------------------------------------------------------
(* The two planes implement DownloadLedger. *)

\* What the control plane's steps do to the reservation.
LEMMA ControlEffect ==
    ASSUME Inv, ControlStep
    PROVE  /\ delivered' = delivered
           /\ \/ Settles(control')
              \/ /\ control.status = "reserved"
                 /\ control' = [control EXCEPT !.status = "consuming", !.begun = TRUE]
              \/ control' = [control EXCEPT !.overdue = TRUE]
<1>0. delivered' = delivered
  BY DEF ControlStep, Answer, Refuse, TimeOut, ReceiveAbandoned, ReleaseExpired, PassDeadline, ForceSettle
<1>1. ASSUME NEW c \in Callers, Answer(c)
      PROVE  \/ Settles(control')
             \/ /\ control.status = "reserved"
                /\ control' = [control EXCEPT !.status = "consuming", !.begun = TRUE]
  <2>1. PICK o \in Outcomes(call[c]) : control' = o.row
    BY <1>1 DEF Answer
  <2>2. CASE call[c].kind = "begin"
    BY <2>1, <2>2, BeginEffect DEF Outcomes
  <2>3. CASE call[c].kind # "begin"
    BY <1>1, <2>1, <2>3, WaitsForSettlement, SettleEffect DEF Outcomes, Answer
  <2> QED
    BY <2>2, <2>3
<1>2. ASSUME NEW m \in abandoned, ReceiveAbandoned(m)
      PROVE  \/ Settles(control')
             \/ /\ control.status = "reserved"
                /\ control' = [control EXCEPT !.status = "consuming", !.begun = TRUE]
  <2>1. PICK o \in Outcomes(m) : control' = o.row
    BY <1>2 DEF ReceiveAbandoned
  <2>2. m.kind \in {"begin", "settle"} /\ m.body \in Bodies
    BY DEF Inv, TypeOK, Requests
  <2>3. CASE m.kind = "begin"
    BY <2>1, <2>3, BeginEffect DEF Outcomes
  <2>4. CASE m.kind = "settle"
    BY <2>1, <2>2, <2>4, SettleEffect DEF Outcomes, SettleOnWay
  <2> QED
    BY <2>2, <2>3, <2>4
<1>3. ASSUME NEW c \in Callers, Refuse(c) \/ TimeOut(c) PROVE Settles(control')
  BY <1>3, KeepingSettles DEF Refuse, TimeOut
<1>4. ReleaseExpired => Settles(control')
  BY ReleaseSettles DEF ReleaseExpired
<1>5. PassDeadline => control' = [control EXCEPT !.overdue = TRUE]
  BY DEF PassDeadline
<1>6. CASE ForceSettle
  <2>1. control \in ControlRows /\ control.actual \in Nat
    BY DEF Inv, TypeOK, ControlRows, Chunks
  <2>2. /\ control' \in ControlRows /\ control'.status = "settled" /\ control'.actual = control.actual
        /\ control'.begun = control.begun /\ control'.overdue = control.overdue
    BY <1>6, <2>1 DEF ForceSettle, ControlRows, ControlStatus
  <2>3. control.status = "consuming" /\ control.overdue
    BY <1>6 DEF ForceSettle
  <2>4. Settles(control')
    BY <2>1, <2>2, <2>3 DEF Settles, Closed, Inv, ControlInv, MessageInv
  <2> QED
    BY <1>0, <2>4
<1> QED
  BY <1>0, <1>1, <1>2, <1>3, <1>4, <1>5, <1>6 DEF ControlStep

\* Each step of the planes is a step of the ledger, or none.
LEMMA LedgerStep == ASSUME Inv, [Next]_vars PROVE [Ledger!Next]_(Ledger!vars)
<1>t. /\ control \in ControlRows /\ control.status \in ControlStatus
      /\ control.actual \in Nat /\ delivered \in Nat
  BY DEF Inv, TypeOK, ControlRows, Chunks
<1>k. /\ control.status = "consuming" => control.begun
      /\ control.status \in {"reserved", "released"} => ~control.begun
      /\ ~control.begun => control.actual = 0
  BY DEF Inv, ControlInv
<1>s. control' = control /\ delivered' = delivered => UNCHANGED Ledger!vars
  BY DEF Ledger!vars, LedgerPhase
<1>1. CASE ControlStep
  <2>d. delivered' = delivered
    BY <1>1, ControlEffect
  <2>1. CASE Settles(control')
    <3>1. CASE Closed
      BY <1>s, <2>1, <2>d, <3>1 DEF Settles
    <3>2. CASE control.status = "consuming"
      <4>1. /\ control'.begun /\ control'.actual \in Nat
            /\ control.actual <= control'.actual /\ control'.actual <= delivered
        BY <1>k, <2>1, <3>2 DEF Settles, ControlRows, Chunks
      <4>2. LedgerPhase = "open" /\ LedgerPhase' \in {"open", "closed"}
        BY <1>k, <3>2, <4>1 DEF LedgerPhase
      <4>3. control'.actual \in control.actual .. delivered
        BY <1>t, <4>1
      <4> QED
        BY <2>d, <4>2, <4>3 DEF Ledger!Next, Ledger!Record
    <3>3. CASE control.status = "reserved"
      <4>1. /\ ~control.begun /\ ~control'.begun /\ control'.actual = control.actual
        BY <1>k, <2>1, <3>3 DEF Settles
      <4>2. LedgerPhase = "unused" /\ LedgerPhase' \in {"unused", "void"}
        BY <3>3, <4>1 DEF LedgerPhase
      <4> QED
        BY <2>d, <4>1, <4>2 DEF Ledger!Next, Ledger!Void, Ledger!vars
    <3> QED
      BY <1>t, <3>1, <3>2, <3>3 DEF Closed, ControlStatus
  <2>2. CASE /\ control.status = "reserved"
             /\ control' = [control EXCEPT !.status = "consuming", !.begun = TRUE]
    <3>1. control'.status = "consuming" /\ control'.begun /\ control'.actual = control.actual
      BY <1>t, <2>2 DEF ControlRows
    <3>2. LedgerPhase = "unused" /\ LedgerPhase' = "open"
      BY <1>k, <2>2, <3>1 DEF LedgerPhase
    <3> QED
      BY <2>d, <3>1, <3>2 DEF Ledger!Next, Ledger!Open
  <2>3. CASE control' = [control EXCEPT !.overdue = TRUE]
    <3>1. control'.status = control.status /\ control'.begun = control.begun /\ control'.actual = control.actual
      BY <1>t, <2>3 DEF ControlRows
    <3> QED
      BY <2>d, <3>1 DEF Ledger!vars, LedgerPhase
  <2> QED
    BY <1>1, <2>1, <2>2, <2>3, ControlEffect
<1>2. ASSUME NEW h \in Handlers, HandlerStep(h) PROVE [Ledger!Next]_(Ledger!vars)
  <2>1. CASE WriteChunk(h)
    <3>1. /\ control' = control /\ delivered' = delivered + 1 /\ handler[h].phase = "copying"
          /\ handler[h].sent < handler[h].length
      BY <2>1 DEF WriteChunk
    <3>2. handler[h].sent = delivered /\ control.begun
      BY <3>1 DEF Inv, StreamInv, Serves, Sending
    <3>3. handler[h].length \in 0 .. Length
      BY DEF Inv, TypeOK, Streams, Chunks
    <3>4. delivered < Length
      BY <1>t, <3>1, <3>2, <3>3, NodeDownloadAssumption
    <3>5. LedgerPhase \in {"open", "closed"} /\ LedgerPhase' = LedgerPhase
      BY <3>1, <3>2 DEF LedgerPhase
    <3> QED
      BY <3>1, <3>4, <3>5 DEF Ledger!Next, Ledger!Deliver
  <2>2. CASE ~WriteChunk(h)
    <3>1. control' = control /\ delivered' = delivered
      BY <1>2, <2>2 DEF HandlerStep, Open, CancelBegin, AmbiguousBegin, Activate, ActivateFails, LeaveSession,
           Checkpoint, EndCopy, Finish, FinishFails, Heartbeat, HeartbeatRefused, HeartbeatAnswered
    <3> QED
      BY <1>s, <3>1
  <2> QED
    BY <2>1, <2>2
<1>3. ASSUME NEW w \in Workers, WorkerStep(w) PROVE [Ledger!Next]_(Ledger!vars)
  BY <1>3, <1>s DEF WorkerStep, Claim, Ack, Retry, DeadLetter, LeaveClaim
<1>4. CASE NodeStep
  BY <1>4, <1>s DEF NodeStep, RecoverStale, DeleteUpload, Crash, ResetOutboxClaims, ReplayDeadLetters,
                    RecoverDownloadSessions
<1>5. CASE UNCHANGED vars
  BY <1>5, <1>s DEF vars
<1> QED
  BY <1>1, <1>2, <1>3, <1>4, <1>5 DEF Next

\* Refinement: a ticket opens at most once, nothing is delivered before, and what the control
\* plane records only grows and never exceeds what the node delivered.
THEOREM LedgerIsImplemented == Spec => ImplementsLedger
<1>1. Init => Ledger!Init
  BY DEF Init, Ledger!Init, LedgerPhase, NewReservation
<1>2. Inv /\ [Next]_vars => [Ledger!Next]_(Ledger!vars)
  BY LedgerStep
<1> QED
  BY <1>1, <1>2, Invariance, PTL DEF Spec, ImplementsLedger, Ledger!Spec

===============================================================================
