----------------------------- MODULE UploadTraffic -----------------------------
(***************************************************************************)
(* Upload traffic of one account: what an upload reserves, what it is      *)
(* charged, what is given back, and the orders that buy and return         *)
(* traffic. The uploads all belong to one transfer; those in Remote lie on *)
(* a storage node, the others in the data directory of the control plane.  *)
(*                                                                         *)
(* Each database action is one SQLite write transaction, so it is atomic;  *)
(* a refused transaction is rolled back and leaves no trace. Between the   *)
(* transactions run the createUpload handlers, the callbacks of the node   *)
(* and the single maintenance worker, which deletes uploads from a list it *)
(* read earlier.                                                           *)
(***************************************************************************)
EXTENDS Integers, FiniteSets, Functions, Sequences

CONSTANTS
    Uploads,          \* identifiers of uploads
    Remote,           \* the uploads with storage_kind 'node'
    Length,           \* declared length of each upload
    Orders,           \* orders, one for each idempotency key
    OrderSeq,         \* the orders in the order of their entitlements' ids
    Method,           \* payment_method of each order: "points" or "sandbox"
    Traffic,          \* traffic_bytes of the product of each order
    PointsPrice,      \* points_price of the product of each order
    Reward,           \* points a sandbox order earns: price_cents / 10, at least 1
    InitialTraffic,   \* UserMonthlyTraffic: what a new account is given, once
    InitialPoints,    \* points_balance at the start
    LegacyHold,       \* bytes held for downloads by a version before upload billing
    GuestDailyBytes,  \* what a guest may upload in a day; 0 for no limit
    MaxFiles,         \* PolicyMaxFiles of the transfer
    MaxBytes,         \* PolicyMaxTaskBytes of the transfer
    None,             \* no upload, no verdict
    MaxFaults         \* bound on restarts, failed steps and lost messages

ASSUME UploadTrafficAssumption ==
    /\ IsFiniteSet(Uploads) /\ IsFiniteSet(Orders)
    /\ Remote \subseteq Uploads
    /\ Length \in [Uploads -> Nat \ {0}]
    /\ OrderSeq \in [1 .. Cardinality(Orders) -> Orders]
    /\ \A o \in Orders : \E i \in DOMAIN OrderSeq : OrderSeq[i] = o
    /\ Method \in [Orders -> {"points", "sandbox"}]
    /\ Traffic \in [Orders -> Nat \ {0}]
    /\ PointsPrice \in Nat /\ Reward \in Nat
    /\ InitialTraffic \in Nat /\ InitialPoints \in Nat /\ LegacyHold \in Nat
    /\ GuestDailyBytes \in Nat /\ MaxFiles \in Nat /\ MaxBytes \in Nat
    /\ MaxFaults \in Nat
    /\ "free" \notin Orders
    /\ None \notin Uploads

VARIABLES
    transfer,  \* status, owner_type, file_count and total_bytes of the transfer
    due,       \* expires_at of the transfer has passed
    guestUsed, \* bytes in today's guest-bytes bucket
    upload,    \* status of each upload and whether offset = length
    ledger,    \* the account's balances, holds and charges
    legacy,    \* bytes still held by download reservations of an old version
    points,    \* points_balance
    order,     \* status of each order
    handler,   \* the createUpload handler of each upload
    issued,    \* uploads whose upload token reached the client
    old,       \* uploads created more than IncompleteLifetime ago
    node,      \* what the storage node has for each upload
    callback,  \* the completion on its way to the control plane
    worker,    \* what the maintenance worker is doing
    faults     \* faults so far

vars == <<transfer, due, guestUsed, upload, ledger, legacy, points, order, handler,
          issued, old, node, callback, worker, faults>>

uploadVars == <<transfer, due, guestUsed, upload, handler, issued, old, node, callback, worker>>
orderVars == <<points, order>>

Verdicts == {"ready", "blocked", "quarantined"}
UploadStatuses == {"none", "uploading", "uploaded", "scanning", "deleted"} \cup Verdicts
\* 'grandfathered', of uploads older than the charges, counts as none everywhere.
ChargeStatuses == {"none", "reserved", "settled", "refunded"}

\* Where traffic comes from: the balance given once, and the entitlement of each order.
Sources == {"free"} \cup Orders
SourceSeq == <<"free">> \o OrderSeq

NoCharge == [status |-> "none", alloc |-> [s \in Sources |-> 0]]

Larger(a, b) == IF a >= b THEN a ELSE b
Smaller(a, b) == IF a <= b THEN a ELSE b

-----------------------------------------------------------------------------
(* The ledger: resource_accounts, resource_entitlements, charges and       *)
(* allocations. remaining["free"] is free_traffic_remaining; opened says   *)
(* that free_traffic_period is 'permanent'; rows are the sources that have *)
(* a row; the amount of a charge is the length of its upload.              *)

\* ensureTrafficAccountTx: the first reservation gives the account its traffic.
EnsureTrafficAccount(l) ==
    IF l.opened THEN l
    ELSE [l EXCEPT !.opened = TRUE,
                   !.remaining["free"] = IF @ = 0 THEN InitialTraffic ELSE @]

Allocated(l, u) == SumFunctionOnSet(l.charge[u].alloc, Sources)

Reserved(l) == {u \in Uploads : l.charge[u].status = "reserved"}

\* What the reserved charges hold of a source.
SharesOf(l, s) == [u \in Uploads |-> l.charge[u].alloc[s]]
Held(l, s) == SumFunctionOnSet(SharesOf(l, s), Reserved(l))

\* Take need from the amounts in f, first things first; f is a sequence.
TakeInOrder(f, need) ==
    [i \in DOMAIN f |->
        Smaller(f[i], Larger(need - SumFunctionOnSet(f, 1 .. (i - 1)), 0))]

\* Mutant of AvailableInOrder: what other uploads hold is offered again.
AvailableIgnoringHolds(l) ==
    [i \in DOMAIN SourceSeq |->
        IF SourceSeq[i] \in l.rows THEN l.remaining[SourceSeq[i]] ELSE 0]

\* The sources in order with what is free in each, less the holds no charge accounts for.
AvailableInOrder(l) ==
    LET snapshotted == SumFunction([s \in Sources |-> Held(l, s)])
        unheld == [i \in DOMAIN SourceSeq |->
                      IF SourceSeq[i] \in l.rows
                      THEN Larger(l.remaining[SourceSeq[i]] - Held(l, SourceSeq[i]), 0)
                      ELSE 0]
        legacyPart == TakeInOrder(unheld, Larger(l.reserved - snapshotted, 0))
    IN  [i \in DOMAIN SourceSeq |-> unheld[i] - legacyPart[i]]

\* planUploadTrafficAllocationsTx: the allocation of required bytes over the sources.
PlanAllocations(l, required) ==
    LET taken == TakeInOrder(AvailableInOrder(l), required)
    IN  [s \in Sources |-> taken[CHOOSE i \in DOMAIN SourceSeq : SourceSeq[i] = s]]

PlanSuffices(l, required) ==
    SumFunctionOnSet(PlanAllocations(l, required), Sources) = required

\* reserveUploadTrafficTx, on the account as ensureTrafficAccountTx leaves it.
CanReserve(l, u) == PlanSuffices(EnsureTrafficAccount(l), Length[u])

ReserveUploadTraffic(l, u) ==
    LET opened == EnsureTrafficAccount(l)
    IN  [opened EXCEPT
            !.charge[u] = [status |-> "reserved", alloc |-> PlanAllocations(opened, Length[u])],
            !.reserved = @ + Length[u]]

\* settleUploadTrafficTx refuses what it cannot take exactly, and a refunded charge.
CanSettle(l, u) ==
    \/ l.charge[u].status \in {"none", "settled"}
    \/ /\ l.charge[u].status = "reserved"
       /\ Allocated(l, u) = Length[u]
       /\ \A s \in Sources : l.charge[u].alloc[s] > 0 =>
              s \in l.rows /\ l.remaining[s] >= l.charge[u].alloc[s]
       /\ l.reserved >= Length[u]

\* Mutant of SettleUploadTraffic: the hold is not taken off the counter.
SettleKeepsHold(l, u) ==
    IF l.charge[u].status # "reserved" THEN l
    ELSE [l EXCEPT !.charge[u].status = "settled",
                   !.remaining = [s \in Sources |-> @[s] - l.charge[u].alloc[s]]]

SettleUploadTraffic(l, u) ==
    IF l.charge[u].status # "reserved" THEN l
    ELSE [l EXCEPT !.charge[u].status = "settled",
                   !.reserved = @ - Length[u],
                   !.remaining = [s \in Sources |-> @[s] - l.charge[u].alloc[s]]]

\* refundUploadTrafficTx leaves every charge alone that is not reserved.
CanRefund(l, u) ==
    l.charge[u].status = "reserved" =>
        Allocated(l, u) = Length[u] /\ l.reserved >= Length[u]

\* Mutant of RefundUploadTraffic: settled charges are refunded too.
RefundAnyCharge(l, u) ==
    IF l.charge[u].status = "none" THEN l
    ELSE [l EXCEPT !.charge[u].status = "refunded", !.reserved = @ - Length[u]]

RefundUploadTraffic(l, u) ==
    IF l.charge[u].status # "reserved" THEN l
    ELSE [l EXCEPT !.charge[u].status = "refunded", !.reserved = @ - Length[u]]

\* completeOrderTx: the entitlement a paid order grants.
GrantEntitlement(l, o) ==
    [l EXCEPT !.rows = @ \cup {o}, !.remaining[o] = Traffic[o]]

-----------------------------------------------------------------------------
(* Orders and points. *)

\* CreateOrder: a second request with the same key returns the first order.
CreateOrder(o) ==
    /\ order[o] = "none"
    /\ order' = [order EXCEPT ![o] = "pending"]
    /\ UNCHANGED <<uploadVars, ledger, legacy, points, faults>>

\* PayOrderWithPoints, refused while the points do not suffice.
PayOrderWithPoints(o) ==
    /\ order[o] = "pending" /\ Method[o] = "points"
    /\ points >= PointsPrice
    /\ points' = points - PointsPrice
    /\ order' = [order EXCEPT ![o] = "paid"]
    /\ ledger' = GrantEntitlement(ledger, o)
    /\ UNCHANGED <<uploadVars, legacy, faults>>

\* CompleteSandboxOrder: the order is paid and earns points.
CompleteSandboxOrder(o) ==
    /\ order[o] = "pending" /\ Method[o] = "sandbox"
    /\ points' = points + Reward
    /\ order' = [order EXCEPT ![o] = "paid"]
    /\ ledger' = GrantEntitlement(ledger, o)
    /\ UNCHANGED <<uploadVars, legacy, faults>>

\* RefundOrder: only traffic that is neither consumed nor held can be returned,
\* and only while the points it earned are still there.
Refundable(o) ==
    /\ order[o] = "paid"
    /\ ledger.remaining[o] = Traffic[o]
    /\ \A u \in Reserved(ledger) : ledger.charge[u].alloc[o] = 0
    /\ Method[o] = "sandbox" => points >= Reward

\* Mutant of RefundOrder: the points a sandbox order earned are kept.
RefundKeepsReward(o) ==
    /\ Refundable(o)
    /\ points' = IF Method[o] = "points" THEN points + PointsPrice ELSE points
    /\ order' = [order EXCEPT ![o] = "refunded"]
    /\ ledger' = [ledger EXCEPT !.rows = @ \ {o}, !.remaining[o] = 0]
    /\ UNCHANGED <<uploadVars, legacy, faults>>

RefundOrder(o) ==
    /\ Refundable(o)
    /\ points' = IF Method[o] = "points" THEN points + PointsPrice ELSE points - Reward
    /\ order' = [order EXCEPT ![o] = "refunded"]
    /\ ledger' = [ledger EXCEPT !.rows = @ \ {o}, !.remaining[o] = 0]
    /\ UNCHANGED <<uploadVars, legacy, faults>>

\* CleanupIdentity closes orders nobody has paid for within a day.
CloseOrder(o) ==
    /\ order[o] = "pending"
    /\ order' = [order EXCEPT ![o] = "closed"]
    /\ UNCHANGED <<uploadVars, ledger, legacy, points, faults>>

-----------------------------------------------------------------------------
(* Creation of an upload. *)

\* ensureDownloadReservationStateSchema: the first upload of the process drops the
\* holds that an older version took for downloads, in a transaction of its own.
RetireLegacyHolds ==
    /\ legacy > 0
    /\ ledger' = [ledger EXCEPT !.reserved = Larger(@ - legacy, 0)]
    /\ legacy' = 0
    /\ UNCHANGED <<uploadVars, orderVars, faults>>

FitsTransfer(u) ==
    /\ transfer.status = "active" /\ ~due
    /\ transfer.files + 1 <= MaxFiles
    /\ transfer.bytes + Length[u] <= MaxBytes

\* CreateUploadWithQuota. The handler goes on to the node when the upload is remote.
CreateUpload(u) ==
    /\ upload[u].status = "none" /\ legacy = 0
    /\ FitsTransfer(u)
    /\ \/ /\ transfer.owner = "guest"
          /\ GuestDailyBytes > 0 => guestUsed + Length[u] <= GuestDailyBytes
          /\ guestUsed' = IF GuestDailyBytes > 0 THEN guestUsed + Length[u] ELSE guestUsed
          /\ UNCHANGED ledger
       \/ /\ transfer.owner = "user"
          /\ CanReserve(ledger, u)
          /\ ledger' = ReserveUploadTraffic(ledger, u)
          /\ UNCHANGED guestUsed
    /\ upload' = [upload EXCEPT ![u].status = "uploading"]
    /\ transfer' = [transfer EXCEPT !.files = @ + 1, !.bytes = @ + Length[u]]
    /\ handler' = [handler EXCEPT ![u] = IF u \in Remote THEN "reserving" ELSE "idle"]
    /\ issued' = IF u \in Remote THEN issued ELSE issued \cup {u}
    /\ UNCHANGED <<due, old, node, callback, worker, legacy, orderVars, faults>>

\* The node's reserveUpload. It may run after the control plane stopped waiting.
ReserveOnNode(u) ==
    /\ u \in Remote /\ upload[u].status # "none"
    /\ node[u].state = "none"
    /\ node' = [node EXCEPT ![u].state = "open"]
    /\ UNCHANGED <<transfer, due, guestUsed, upload, handler, issued, old, callback, worker,
                   ledger, legacy, orderVars, faults>>

\* The reservation is confirmed: the client gets its token.
ReserveSucceeds(u) ==
    /\ handler[u] = "reserving" /\ node[u].state # "none"
    /\ handler' = [handler EXCEPT ![u] = "idle"]
    /\ issued' = issued \cup {u}
    /\ UNCHANGED <<transfer, due, guestUsed, upload, old, node, callback, worker, ledger,
                   legacy, orderVars, faults>>

\* The node refuses, or its answer does not arrive.
ReserveFails(u) ==
    /\ handler[u] = "reserving"
    /\ handler' = [handler EXCEPT ![u] = "failed"]
    /\ UNCHANGED <<transfer, due, guestUsed, upload, issued, old, node, callback, worker,
                   ledger, legacy, orderVars, faults>>

\* The node's DeleteUpload removes the upload and its queued completion.
NodeDeletes(u) ==
    [node EXCEPT ![u] = IF @.state \in {"open", "finished"}
                        THEN [@ EXCEPT !.state = "gone", !.queued = FALSE] ELSE @]

\* Mutant of MarkDeleted: the bytes are subtracted by the status of the row today.
MarkDeletedByCurrentStatus(u, seen) ==
    /\ CanRefund(ledger, u)
    /\ ledger' = RefundUploadTraffic(ledger, u)
    /\ upload' = [upload EXCEPT ![u].status = "deleted"]
    /\ transfer' = IF upload[u].status = "uploading"
                   THEN [transfer EXCEPT !.files = Larger(@ - 1, 0),
                                         !.bytes = Larger(@ - Length[u], 0)]
                   ELSE transfer

\* MarkDeleted(upload): seen is the status in the row the caller read earlier. The
\* bytes of an incomplete upload no longer count against the transfer.
MarkDeleted(u, seen) ==
    /\ CanRefund(ledger, u)
    /\ ledger' = RefundUploadTraffic(ledger, u)
    /\ upload' = [upload EXCEPT ![u].status = "deleted"]
    /\ transfer' = IF seen = "uploading"
                   THEN [transfer EXCEPT !.files = Larger(@ - 1, 0),
                                         !.bytes = Larger(@ - Length[u], 0)]
                   ELSE transfer

\* createUpload after a failed reservation: delete on the node, which may fail, then
\* MarkDeleted, which fails when the client has gone (request.Context is cancelled).
AbandonUpload(u) ==
    /\ handler[u] = "failed"
    /\ handler' = [handler EXCEPT ![u] = "idle"]
    /\ node' \in {node, NodeDeletes(u)}
    /\ \/ /\ MarkDeleted(u, "uploading")
          /\ UNCHANGED faults
       \/ /\ faults < MaxFaults /\ faults' = faults + 1
          /\ UNCHANGED <<ledger, upload, transfer>>
    /\ UNCHANGED <<due, guestUsed, issued, old, callback, worker, legacy, orderVars>>

-----------------------------------------------------------------------------
(* Completion of an upload. *)

\* External to this module: the client sends the bytes to the node, which scans them
\* and queues the verdict in its outbox.
FinishOnNode(u, v) ==
    /\ node[u].state = "open" /\ u \in issued
    /\ node' = [node EXCEPT ![u] = [state |-> "finished", verdict |-> v, queued |-> TRUE]]
    /\ UNCHANGED <<transfer, due, guestUsed, upload, handler, issued, old, callback, worker,
                   ledger, legacy, orderVars, faults>>

\* The outbox worker sends the queued completion, again and again until it is acknowledged.
SendCompletion(u) ==
    /\ node[u].queued /\ callback[u] = None
    /\ callback' = [callback EXCEPT ![u] = node[u].verdict]
    /\ UNCHANGED <<transfer, due, guestUsed, upload, handler, issued, old, node, worker,
                   ledger, legacy, orderVars, faults>>

\* The request is lost.
LoseCompletion(u) ==
    /\ faults < MaxFaults
    /\ callback[u] # None
    /\ callback' = [callback EXCEPT ![u] = None]
    /\ faults' = faults + 1
    /\ UNCHANGED <<transfer, due, guestUsed, upload, handler, issued, old, node, worker,
                   ledger, legacy, orderVars>>

\* Mutant of CommitTerminal: storage is released before the charge is settled.
ReleaseThenSettle(l, u, v) ==
    SettleUploadTraffic(IF v = "blocked" THEN RefundUploadTraffic(l, u) ELSE l, u)

\* commitTerminal: settle, and release the storage of a blocked upload.
CommitTerminal(l, u, v) ==
    LET settled == SettleUploadTraffic(l, u)
    IN  IF v = "blocked" THEN RefundUploadTraffic(settled, u) ELSE settled

\* Mutant of Completes: the status of the row is not looked at.
CompletesAnyUpload(u, v) == CanSettle(ledger, u)

\* CompleteRemoteUploadPlacement accepts a verdict once, and the same verdict again.
Completes(u, v) ==
    /\ upload[u].status \in {"uploading", "uploaded", "scanning", v}
    /\ CanSettle(ledger, u)

\* The answer to an accepted completion acknowledges it, unless the answer is lost.
CompleteRemoteUpload(u) ==
    /\ callback[u] # None
    /\ Completes(u, callback[u])
    /\ upload' = [upload EXCEPT ![u] = [status |-> callback[u], full |-> TRUE]]
    /\ ledger' = CommitTerminal(ledger, u, callback[u])
    /\ callback' = [callback EXCEPT ![u] = None]
    /\ \/ /\ node' = [node EXCEPT ![u].queued = FALSE]
          /\ UNCHANGED faults
       \/ /\ faults < MaxFaults /\ faults' = faults + 1
          /\ UNCHANGED node
    /\ UNCHANGED <<transfer, due, guestUsed, handler, issued, old, worker, legacy, orderVars>>

\* A refused completion changes nothing. The outbox gives up on it in the end.
RefuseCompletion(u) ==
    /\ callback[u] # None
    /\ ~ Completes(u, callback[u])
    /\ callback' = [callback EXCEPT ![u] = None]
    /\ node' = [node EXCEPT ![u].queued = FALSE]
    /\ UNCHANGED <<transfer, due, guestUsed, upload, handler, issued, old, worker, ledger,
                   legacy, orderVars, faults>>

\* patchUpload of a local upload: UpdateUploadOffset reaches the length.
ReceiveBytes(u) ==
    /\ u \in issued \ Remote
    /\ upload[u] = [status |-> "uploading", full |-> FALSE]
    /\ upload' = [upload EXCEPT ![u].full = TRUE]
    /\ UNCHANGED <<transfer, due, guestUsed, handler, issued, old, node, callback, worker,
                   ledger, legacy, orderVars, faults>>

\* MarkUploaded, by the handler of the last chunk or by the worker's recovery.
MarkUploaded(u) ==
    /\ u \notin Remote
    /\ upload[u] = [status |-> "uploading", full |-> TRUE]
    /\ CanSettle(ledger, u)
    /\ ledger' = SettleUploadTraffic(ledger, u)
    /\ upload' = [upload EXCEPT ![u].status = "uploaded"]
    /\ UNCHANGED <<transfer, due, guestUsed, handler, issued, old, node, callback, worker,
                   legacy, orderVars, faults>>

-----------------------------------------------------------------------------
(* The maintenance worker: one goroutine that scans or cleans up. *)

WorkerIdle == worker.scans = {} /\ worker.batch = {}

\* ClaimUploads: the uploads to be scanned are claimed together.
ClaimUploads ==
    LET claimed == {u \in Uploads \ Remote : upload[u].status = "uploaded"}
    IN  /\ WorkerIdle
        /\ claimed # {}
        /\ upload' = [u \in Uploads |->
               IF u \in claimed THEN [upload[u] EXCEPT !.status = "scanning"] ELSE upload[u]]
        /\ worker' = [worker EXCEPT !.scans = claimed]
        /\ UNCHANGED <<transfer, due, guestUsed, handler, issued, old, node, callback,
                       ledger, legacy, orderVars, faults>>

\* MarkReady changes a scanning upload only; MarkBlocked and MarkQuarantined any upload.
\* MarkBlocked also releases the storage.
FinishScan(u, v) ==
    /\ u \in worker.scans
    /\ upload' = [upload EXCEPT ![u].status =
                      IF v = "ready" /\ @ # "scanning" THEN @ ELSE v]
    /\ IF v = "blocked" THEN CanRefund(ledger, u) /\ ledger' = RefundUploadTraffic(ledger, u)
                        ELSE UNCHANGED ledger
    /\ worker' = [worker EXCEPT !.scans = @ \ {u}]
    /\ UNCHANGED <<transfer, due, guestUsed, handler, issued, old, node, callback, legacy,
                   orderVars, faults>>

\* Mutant of Candidates: incomplete uploads are kept as long as the transfer lives.
CandidatesOfDeadTransfers(status) ==
    {u \in Uploads :
        status \in {"expired", "revoked"} /\ upload[u].status \notin {"none", "deleted"}}

\* MaintenanceCandidates: a transfer past its time expires; the uploads of a dead
\* transfer and old incomplete ones are listed with the status they have now.
Candidates(status) ==
    {u \in Uploads :
        \/ status \in {"expired", "revoked"} /\ upload[u].status \notin {"none", "deleted"}
        \/ upload[u].status = "uploading" /\ u \in old}

StartCleanup ==
    LET status == IF transfer.status = "active" /\ due THEN "expired" ELSE transfer.status
    IN  /\ WorkerIdle
        /\ transfer' = [transfer EXCEPT !.status = status]
        /\ worker' = [worker EXCEPT !.batch =
               {[id |-> u, seen |-> upload[u].status] : u \in Candidates(status)}]
        /\ transfer' # transfer \/ worker' # worker
        /\ UNCHANGED <<due, guestUsed, upload, handler, issued, old, node, callback, ledger,
                       legacy, orderVars, faults>>

\* The bytes of a listed upload are removed, from the node or from the data directory.
RemoveBytes(r) ==
    /\ r \in worker.batch /\ worker.removed = None
    /\ node' = IF r.id \in Remote THEN NodeDeletes(r.id) ELSE node
    /\ worker' = [worker EXCEPT !.removed = r.id]
    /\ UNCHANGED <<transfer, due, guestUsed, upload, handler, issued, old, callback, ledger,
                   legacy, orderVars, faults>>

\* The removal or the transaction after it fails: left to a later pass.
SkipUpload(r) ==
    /\ faults < MaxFaults
    /\ r \in worker.batch /\ worker.removed \in {None, r.id}
    /\ worker' = [worker EXCEPT !.batch = @ \ {r}, !.removed = None]
    /\ faults' = faults + 1
    /\ UNCHANGED <<transfer, due, guestUsed, upload, handler, issued, old, node, callback,
                   ledger, legacy, orderVars>>

DeleteListed(r) ==
    /\ r \in worker.batch /\ worker.removed = r.id
    /\ MarkDeleted(r.id, r.seen)
    /\ worker' = [worker EXCEPT !.batch = @ \ {r}, !.removed = None]
    /\ UNCHANGED <<due, guestUsed, handler, issued, old, node, callback, legacy, orderVars,
                   faults>>

-----------------------------------------------------------------------------
(* The transfer, time and restarts. *)

\* ClaimTransfer: a guest's transfer becomes the user's. Its uploads stay uncharged.
ClaimTransfer ==
    /\ transfer.owner = "guest"
    /\ transfer' = [transfer EXCEPT !.owner = "user"]
    /\ UNCHANGED <<due, guestUsed, upload, handler, issued, old, node, callback, worker,
                   ledger, legacy, orderVars, faults>>

RevokeTransfer ==
    /\ transfer.status = "active"
    /\ transfer' = [transfer EXCEPT !.status = "revoked"]
    /\ UNCHANGED <<due, guestUsed, upload, handler, issued, old, node, callback, worker,
                   ledger, legacy, orderVars, faults>>

ExpiryPasses ==
    /\ ~due
    /\ due' = TRUE
    /\ UNCHANGED <<transfer, guestUsed, upload, handler, issued, old, node, callback, worker,
                   ledger, legacy, orderVars, faults>>

\* IncompleteLifetime is hours, a createUpload handler lives for seconds.
GrowOld(u) ==
    /\ upload[u].status = "uploading" /\ u \notin old
    /\ handler[u] = "idle"
    /\ old' = old \cup {u}
    /\ UNCHANGED <<transfer, due, guestUsed, upload, handler, issued, node, callback, worker,
                   ledger, legacy, orderVars, faults>>

\* The window of the guest-bytes bucket is a day.
NewDay ==
    /\ guestUsed > 0
    /\ guestUsed' = 0
    /\ UNCHANGED <<transfer, due, upload, handler, issued, old, node, callback, worker,
                   ledger, legacy, orderVars, faults>>

\* The control plane stops and starts again: handlers, requests and the worker are gone.
Restart ==
    /\ faults < MaxFaults
    /\ faults' = faults + 1
    /\ handler' = [u \in Uploads |-> "idle"]
    /\ callback' = [u \in Uploads |-> None]
    /\ worker' = [scans |-> {}, batch |-> {}, removed |-> None]
    /\ UNCHANGED <<transfer, due, guestUsed, upload, issued, old, node, ledger, legacy,
                   orderVars>>

-----------------------------------------------------------------------------
Init ==
    /\ \E owner \in {"guest", "user"} :
           transfer = [status |-> "active", owner |-> owner, files |-> 0, bytes |-> 0]
    /\ due = FALSE
    /\ guestUsed = 0
    /\ upload = [u \in Uploads |-> [status |-> "none", full |-> FALSE]]
    /\ legacy = LegacyHold
    /\ ledger = [opened |-> FALSE, remaining |-> [s \in Sources |-> 0], rows |-> {"free"},
                 reserved |-> legacy, charge |-> [u \in Uploads |-> NoCharge]]
    /\ points = InitialPoints
    /\ order = [o \in Orders |-> "none"]
    /\ handler = [u \in Uploads |-> "idle"]
    /\ issued = {}
    /\ old = {}
    /\ node = [u \in Uploads |-> [state |-> "none", verdict |-> None, queued |-> FALSE]]
    /\ callback = [u \in Uploads |-> None]
    /\ worker = [scans |-> {}, batch |-> {}, removed |-> None]
    /\ faults = 0

Next ==
    \/ RetireLegacyHolds
    \/ \E o \in Orders : \/ CreateOrder(o) \/ PayOrderWithPoints(o)
                         \/ CompleteSandboxOrder(o) \/ RefundOrder(o) \/ CloseOrder(o)
    \/ \E u \in Uploads : \/ CreateUpload(u) \/ ReserveOnNode(u) \/ ReserveSucceeds(u)
                          \/ ReserveFails(u) \/ AbandonUpload(u)
    \/ \E u \in Uploads, v \in Verdicts : FinishOnNode(u, v) \/ FinishScan(u, v)
    \/ \E u \in Uploads : \/ SendCompletion(u) \/ LoseCompletion(u)
                          \/ CompleteRemoteUpload(u) \/ RefuseCompletion(u)
    \/ \E u \in Uploads : ReceiveBytes(u) \/ MarkUploaded(u) \/ GrowOld(u)
    \/ ClaimUploads \/ StartCleanup
    \/ \E r \in worker.batch : RemoveBytes(r) \/ SkipUpload(r) \/ DeleteListed(r)
    \/ ClaimTransfer \/ RevokeTransfer \/ ExpiryPasses \/ NewDay \/ Restart

Spec == Init /\ [][Next]_vars

\* The worker's tickers never stop, a handler ends, the node answers in the end, and
\* hours pass. Nothing makes a client send its bytes or a node finish a scan.
Fairness ==
    /\ WF_vars(ClaimUploads) /\ WF_vars(StartCleanup)
    /\ WF_vars(\E u \in Uploads, v \in Verdicts : FinishScan(u, v))
    /\ WF_vars(\E r \in worker.batch : RemoveBytes(r))
    /\ WF_vars(\E r \in worker.batch : DeleteListed(r))
    /\ \A u \in Uploads :
           /\ WF_vars(ReserveOnNode(u)) /\ WF_vars(ReserveSucceeds(u))
           /\ WF_vars(AbandonUpload(u)) /\ WF_vars(GrowOld(u))

FairSpec == Spec /\ Fairness

-----------------------------------------------------------------------------
(* Properties. *)

Charges == [status : ChargeStatuses, alloc : [Sources -> Nat]]
Ledgers == [opened : BOOLEAN, remaining : [Sources -> Nat], rows : SUBSET Sources,
            reserved : Nat, charge : [Uploads -> Charges]]

TypeOK ==
    /\ transfer \in [status : {"active", "expired", "revoked"}, owner : {"guest", "user"},
                     files : Nat, bytes : Nat]
    /\ due \in BOOLEAN
    /\ guestUsed \in Nat
    /\ upload \in [Uploads -> [status : UploadStatuses, full : BOOLEAN]]
    /\ ledger \in Ledgers
    /\ legacy \in Nat
    /\ points \in Nat
    /\ order \in [Orders -> {"none", "pending", "paid", "refunded", "closed"}]
    /\ handler \in [Uploads -> {"idle", "reserving", "failed"}]
    /\ issued \subseteq Uploads
    /\ old \subseteq Uploads
    /\ node \in [Uploads -> [state : {"none", "open", "finished", "gone"},
                             verdict : Verdicts \cup {None}, queued : BOOLEAN]]
    /\ callback \in [Uploads -> Verdicts \cup {None}]
    /\ worker \in [scans : SUBSET Uploads,
                   batch : SUBSET [id : Uploads, seen : UploadStatuses],
                   removed : Uploads \cup {None}]
    /\ faults \in Nat

\* Every hold of an account is covered: what the reserved charges have been allocated of a
\* source is still there, so settleUploadTrafficTx, which takes exactly the allocation it
\* was given, can never refuse a completed upload, whatever was settled, refunded or
\* returned meanwhile.
HoldsAreCovered ==
    /\ \A s \in Sources : Held(ledger, s) <= ledger.remaining[s]
    /\ \A u \in Reserved(ledger) : CanSettle(ledger, u) /\ CanRefund(ledger, u)

\* No byte appears or disappears: a balance is what was given less what was settled from
\* it, and traffic_reserved_bytes is the sum of the charges that are reserved (and of the
\* holds of an older version, until they are retired).
Given(s) ==
    IF s = "free" THEN IF ledger.opened THEN InitialTraffic ELSE 0
    ELSE IF order[s] = "paid" THEN Traffic[s] ELSE 0

TrafficIsConserved ==
    /\ \A s \in Sources :
           ledger.remaining[s] = Given(s) - SumFunctionOnSet(SharesOf(ledger, s),
               {u \in Uploads : ledger.charge[u].status = "settled"})
    /\ ledger.reserved = legacy + SumFunctionOnSet(Length, Reserved(ledger))

\* An upload is charged when its bytes have arrived and only then: a charge is reserved
\* exactly while the upload is incomplete, settled once the upload is complete (a verdict
\* of "blocked" gives nothing back), and refunded only for an upload that was deleted.
ChargeFollowsUpload ==
    \A u \in Uploads : LET c == ledger.charge[u].status IN
        /\ c = "reserved" => upload[u].status = "uploading"
        /\ c = "settled" => upload[u].full /\ upload[u].status # "uploading"
        /\ c = "refunded" => upload[u].status = "deleted"

\* A returned order was never used: no upload was charged to its entitlement and none
\* holds a part of it, and the points the order earned or cost have been taken back.
ReturnedOrderIsUnused ==
    /\ \A o \in Orders : order[o] = "refunded" =>
           \A u \in Uploads : ledger.charge[u].status \in {"reserved", "settled"} =>
               ledger.charge[u].alloc[o] = 0
    /\ points = InitialPoints + SumFunctionOnSet(
           [o \in Orders |-> IF Method[o] = "points" THEN - PointsPrice ELSE Reward],
           {o \in Orders : order[o] = "paid"})

\* While a transfer takes files, file_count and total_bytes are those of its uploads that
\* are not deleted, although MarkDeleted subtracts by the status the worker read earlier.
TransferCountsUploads ==
    LET live == {u \in Uploads : upload[u].status \notin {"none", "deleted"}}
    IN  transfer.status = "active" =>
            /\ transfer.files = Cardinality(live)
            /\ transfer.bytes = SumFunctionOnSet(Length, live)

\* A deleted upload stays deleted, although MarkBlocked and MarkQuarantined do not ask for
\* the status, and although completions arrive late and repeatedly.
DeletedStaysDeleted ==
    [][\A u \in Uploads : upload[u].status = "deleted" => upload'[u].status = "deleted"]_vars

\* No hold lasts for ever: the upload completes or maintenance gives the bytes back.
HoldsEnd ==
    \A u \in Uploads :
        ledger.charge[u].status = "reserved" ~> ledger.charge[u].status # "reserved"

===============================================================================
