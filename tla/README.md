# QuickTransfer: a TLA+ model of its state machines

QuickTransfer moves files between people through a link or a pick-up code. A
*control plane* (`internal/app/server.go` and the stores around it, one SQLite
database) owns users, transfers, entitlements and tickets. A *storage node*
(`storage_node.go`, `storage_store.go`, a second SQLite database and a file tree)
receives the chunks, scans them and serves the downloads. The two talk over signed
HTTP calls, and the node keeps an outbox so that no result of its work is lost.

The modules here model the parts of that system whose correctness depends on the
order of events, check them with TLC on small instances, and prove the central
safety properties with TLAPS for every instance.

## 1. Inventory

| Part | State it keeps | Operations | Talks to |
| --- | --- | --- | --- |
| Retrieval sessions, reservations (`retrieval_store.go`, `commerce_store.go`, `server.go`) | transfer status and counter, `retrieval_sessions`, `download_reservations` and their runtime rows | issue a ticket (reuse or open a session), abort, begin, progress, settle | recipients, storage node, worker |
| Maintenance worker (`worker.go`, `store.go`) | none but the list of one pass | release reservations, force-settle streams, release sessions, expire, delete | all tables, storage node |
| Storage-node download (`storage_node.go`, `storage_store.go`) | `storage_download_sessions`, goroutines | prepare, begin call, activate, copy, checkpoint, heartbeat, settle, recover | control plane, outbox |
| Storage outbox | `storage_outbox`, dead letters | enqueue, claim, ack, retry, dead-letter, replay | control plane |
| Storage-node upload and scan | `storage_uploads`, `tmp/`, `quarantine/`, `objects/` | reserve, patch, finalise, claim scan, publish, delete | control plane, scanner |
| Upload traffic ledger (`commerce_store.go`) | entitlements, allocations, accounts | reserve, settle, refund | upload life cycle |
| Transfers and uploads of the control plane | `transfers`, `uploads` | create, patch, publish, claim, revoke, mark | worker, traffic ledger |
| Orders and points (`commerce_store.go`, `admin_store.go`) | orders, points | create, pay, complete, refund, close | entitlements |
| Redemption, membership, check-in (`redemption_store.go`, `welfare_store.go`, `vip_daily_login_store.go`) | batches, codes, `vip_plan`, daily rows | print, withdraw, redeem, check in, grant at login | entitlements, identity |
| Identity (`identity_store.go`, `auth_server.go`, `password_change.go`, `email_store.go`) | users, verification codes, delivery limits, sessions | register, verify, reset, log in and out, change password, clean up | mail, worker |
| Settings, human verification, migration | settings versions, receipts, data directory | save, verify, migrate | - |

What is hard to get right, part by part:

* **Retrieval.** Handlers read the clock and check before they hold the write lock;
  several requests share one provisional session; the worker acts on lists it read
  earlier. Correct means: the counter equals what it counts, only unused sessions
  give slots back, status follows the counter, a stream keeps its session, deletion
  waits for readers, and abandoned tickets do not hold slots for ever.
* **Storage-node download.** Calls time out while their requests still travel; the
  process stops anywhere; two requests use one ticket; heartbeats and checkpoints
  write the same row. Correct means: whatever the control plane has begun can be
  settled from a durable row, the settlement is never separated from its event,
  nothing is forgotten before the control plane has it, no byte is recorded that
  was not delivered, and the object stays while it is read.
* **Traffic and orders.** Bytes are planned when an upload is created and taken when
  it completes; completions come late, twice or after the upload was deleted; the
  worker deletes by a status it read earlier; orders are returned meanwhile. Correct
  means: every hold stays covered, no byte appears or disappears, an upload is
  charged exactly when it completed, a returned order was not used, holds end.
* **Storage-node upload.** Row and file change in separate steps and the process stops
  between any two; leases lapse; mutexes live in a map that deletion changes; workers
  act on lists read without locks. Correct means: no acknowledged byte is lost, mixed
  up or left behind, one verdict reaches the control plane, every complete upload is
  decided, every expired one disappears.
* **Accounts and benefits.** A code is stored, mailed and taken back in separate steps
  of concurrent requests; handlers look before their transaction; administrators
  withdraw meanwhile; cleanup deletes by age. Correct means: the code in the newest
  mail works, a benefit is given once and to one user, a membership never shrinks, and
  nothing of an account that is in use is deleted.
* **Creation and publication of transfers.** Publication against creation; not
  modelled.

`PROJECT.json` lists every part, modelled or not, and every hazard with its line.

## 2. Plan

1. `Retrieval` with its runs and proofs (done).
2. `NodeDownload` and the abstract `DownloadLedger`, with the proof of the refinement
   (done).
3. `UploadTraffic`: reserve, settle and refund of upload traffic, the orders that buy
   and return it, conservation of bytes (done, with proofs).
4. `StorageUpload`: offsets, finalisation, scan leases, promotion, deletion and crash
   recovery of the files; the upload-complete event of the outbox (done, with proofs).
5. `Identity`, `Benefits` and their composition `Account`: verification codes,
   sessions, redemption codes, membership and daily grants (done, with proofs).
6. `SumTheorems`: what the library's sum over a set computes, and with it the properties
   of `UploadTraffic` that are about sums (done).
7. Left for a later extension: transfers of the control plane from creation to
   publication, and the migration of a data directory.

## 3. Modules

| Module | Role |
| --- | --- |
| `Retrieval` | one published transfer on the control plane |
| `MCRetrieval` | instances of it for TLC |
| `MCRevocation` | `Retrieval` with the owner's view of a revocation |
| `RetrievalProofs` | theorems about `Retrieval` |
| `DownloadLedger` | what both planes together promise about one ticket |
| `NodeDownload` | one ticket on the storage node, and the control plane's end of its calls |
| `MCNodeDownload` | instances of it for TLC |
| `NodeDownloadProofs` | theorems about `NodeDownload`, and the refinement of `DownloadLedger` |
| `UploadTraffic` | the traffic of one account, its orders, and the uploads of one transfer |
| `MCUploadTraffic` | instances of it for TLC |
| `UploadTrafficProofs` | theorems about the status of charges and uploads |
| `SumTheorems` | what `SumFunctionOnSet` of the community module `Functions` computes |
| `UploadLedgerProofs` | theorems about the balances, holds, orders and counters of `UploadTraffic` |
| `StorageUpload` | one upload on the storage node, with its files and every goroutine that touches it |
| `MCStorageUpload` | instance of it for TLC |
| `StorageUploadProofs` | theorems about `StorageUpload` |
| `Identity` | the account of one email address: codes, mails, sessions |
| `Benefits` | redemption codes, membership and daily traffic of that account |
| `Account` | `Identity` and `Benefits` with one clock, one restart and the login that joins them |
| `MCAccount` | instance of it for TLC |
| `AccountProofs` | theorems about `Account` |

### Retrieval

Tables are functions from identifiers to rows; a row with status `none` is not
inserted. An action that changes the database is one SQLite write transaction, with
every statement of it; handlers and the worker run between transactions:

* `createDownloadTicket` is `CheckTicketRequest` (its reads), then `ReserveInSession`,
  `ReserveInNewSession` or `ReserveLegacy` (its transaction), then
  `AnswerTicketRequest`, `AbortTicketRequest` or `DropTicketRequest` (a refusal, a
  lost answer, an abort that fails).
* `BeginDownload` and `SettleDownload` are the callbacks (and the local download,
  which calls the same store functions). Reports go through
  `decodeNodeDownloadBytes`.
* A cleanup pass is `ReleaseExpiredReservations`, one `ForceSettleStream` per listed
  stream, `ReleaseExpiredSessions`, `MaintenanceCandidates`, one `DeleteCandidate`
  per file, `FinishCleanup`; `FailCleanupStep` is a call that fails and is logged.
* `Stamps` are the timestamps a transaction may run with: it was read before the
  write lock was obtained, at most `MaxDelay` ticks ago.

Abstracted: tokens and keys are identifiers, a file is a number of chunks, times are
ticks. Downloads of files on a node and on the local disk use the same actions, so
a report may be any of `Reports`. The candidates query also lists incomplete
uploads; all uploads of this model are ready. The worker settles at most 100 overdue
streams per pass (`LIMIT 100`); the model has fewer.

### NodeDownload

`control` is the reservation row with its runtime row, `session`, `outbox` and
`letter` are the node's rows for the ticket, `handler` the GET requests, `call` the
call each goroutine waits for. A caller may give up (`TimeOut`) while its request is
on the way: it moves to `abandoned` and may be served later or never. A crash loses
goroutines and keeps rows; start-up is one action per transaction of
`RunStorageNode`. The handler's own call of `retryOutbox` is one of the `Workers`.

There is no clock here. A claim whose worker is gone, or a session nobody works on,
times out at any moment; a lease or staleness limit that hits a live goroutine is a
failure. `Failures` names the kinds of failure an instance may have and `MaxFaults`
their number: `timeout`, `deny` (401), `control` (a failed transaction, 409),
`crash`, `stale`, `lease`, `disk` (a write on the node fails) and `deadline` (the 48
hours of the stream pass; the node ends its own streams a minute before, so none is
alive). Backoff only delays and is left out. The settlement callback never answers
410, so that branch of `storageOutboxSemanticTerminal` is not modelled.

`DownloadLedger` is the abstract specification: a ticket opens at most once, no
chunk leaves before it is open, and the record only grows and stays within what was
delivered. `ImplementsLedger` is the refinement, with the phase of the ledger read
off the reservation and its runtime row.

### UploadTraffic

`ledger` is the account with its entitlements, charges and allocations; the operators
on it (`PlanAllocations`, `ReserveUploadTraffic`, `SettleUploadTraffic`,
`RefundUploadTraffic`) are the functions of `commerce_store.go` of the same names, and
`CanReserve`, `CanSettle`, `CanRefund` the conditions under which they return an error
and the transaction is rolled back. Planning takes from the free balance first, then
from the entitlements in order, less what other charges hold and less holds that no
charge explains.

* `createUpload` is `CreateUpload` (its transaction); for a remote upload
  `ReserveOnNode` is the node's part, `ReserveSucceeds` the answer, `ReserveFails` and
  `AbandonUpload` the compensation, either half of which may fail.
* `FinishOnNode`, `SendCompletion`, `CompleteRemoteUpload`, `RefuseCompletion` and
  `LoseCompletion` are the way of a verdict through the outbox. The message stays
  queued until it is acknowledged, so it may arrive again, or after the deletion.
* A local upload goes through `ReceiveBytes`, `MarkUploaded`, `ClaimUploads`,
  `FinishScan`; the worker is one goroutine, which scans or cleans up.
* A cleanup pass is `StartCleanup`, then `RemoveBytes` and `DeleteListed` for each
  upload with the status it had in the list; `SkipUpload` is a failure, left to a
  later pass.
* Orders: `CreateOrder`, `PayOrderWithPoints`, `CompleteSandboxOrder`, `RefundOrder`, and
  `CloseOrder`, which the worker does in `CleanupIdentity`.

Abstracted: entitlements do not expire (every traffic product is sold with
`valid_days` 0, and a migration has made the older ones permanent); products with a
VIP plan, which `RefundOrder` refuses, are left out; a repeated `CreateUpload` with
the same identifier cannot happen, because the handler draws a fresh one; the digest
and the placement version of a completion always match; a charge marked
`grandfathered` behaves like none. Chunks and files are in `StorageUpload`; here an
upload is complete or it is not. The deletion of exhausted transfers is in `Retrieval`.

### StorageUpload

`row` is the row of `storage_uploads` (with `live` for a lease that still runs),
`files` the contents of the three paths the node generates for the upload, as
sequences of chunks. The other variables are the goroutines: the reserve and PATCH
handlers, `recoverCompletedUploads`, `scanPendingUploads`, the DELETE handler
(`"deleter"`) and `cleanupExpiredUploads` (`"cleaner"`), and a download up to its
session row. One step is one SQL statement or transaction, or one change of a file.

* `reserveUpload`: `ReserveInsert`, `ReserveCreateFile`, `ReserveFails`.
* `patchUpload`: `PatchCheck` (row read without the lock), `PatchEnter` (`TryLock`, row
  read again, body), `PatchRefused`, `PatchWrite` or `PatchWriteFails`
  (`writeUploadChunk`), `PatchRecord` or `PatchUnrecorded` (`UpdateUploadOffset`), then
  `PatchQuarantine`, `PatchMarkPending`, `PatchIsolationFails`
  (`finalizeCompletedUpload`). `RecoverQuarantine` and `RecoverMarkPending` are the same
  function in the worker.
* A scan: `ClaimPendingScans`, `ScanStart`, `ScanEnds` with any verdict, `ScanPromote`,
  `ScanQuarantine`, `CompleteScan` (with its event), `ScanDiscard`, `ScanReleases`.
* A removal: `StartRemoval`, `EnterRemoval` or `SkipRemoval`, `RemoveFiles` or
  `RemovalFails`, `DeleteRow`, and for the worker `DropLock`.
* `mutex`, `held` and `epoch` are the mutexes of `uploadLock`: a goroutine fetches the
  one in the map (`Fetch`), waits for it and may hold one that is no longer there.

Not in the model: a second reservation of the same id, since the control plane draws
an id and sends one reservation for it (`server.go:680`); power failures, after which
an unsynced rename might be undone (a crash here is the process only); a statement that
fails after it was committed; several scanners (`RunWorkers` starts one). A lease that
lapses while its scanner waits for the lock or for the scanner is a fault; the lease of
a scan that is gone lapses by itself. The ghosts `acked` and `doomed` remember the
chunks whose offsets were recorded and that a removal has touched the files.

### Identity, Benefits, Account

`Identity` has the rows of one address and the handlers that send codes. A request is
`Register` or `Reserve(r, "reset")` (the cooldown), then `CreatePendingUser`,
`RefreshPendingUser` or `InvalidateReset` and `CreatePasswordReset`, then
`MailDelivered` or `MailFails`; `RequestConflicts` and `RequestFails` are its other
ends. `VerifyUser`, `ResetPassword` and `WrongCode` are the client's use of a code,
`LoginCheck`, `CreateUserSession`, `SessionFails`, `Logout`, `ChangeCheck` and
`ChangeUserPassword` the sessions, `CleanupIdentity` the worker. `Benefits` adds
`CreateRedemptionBatch`, `DisableRedemptionBatch`, `RedeemCheck` and
`RedeemRedemptionCode`, `CheckInRead` and `ClaimDailyCheckIn`, `GrantVIPDailyLogin`.
`Account` joins them: `Login` is the transaction that creates a session and grants the
member's daily traffic.

`Cooldown` is longer than a handler takes after its reservation (`DeliveryTimeout`):
settings require at least 60 seconds (`settings.go:302`), the mail gives up after 12
(`email.go:182`), and the hash in between is assumed not to wait for the rest. The
property `DeliveredCodeIsCurrent` rests on it. A mail may arrive although the handler
saw an error, and an error may leave the code open, because a client that has gone
cancels the context of the statement that would take it back. The hourly and daily
limits and human verification only refuse more. Sessions and codes deleted a week after
their end could not be used any more and are kept here. Reward sizes, the traffic
entitlement of a code and the membership of the other user are not tracked; `paid`
counts how often each code's benefit was given. Paid VIP products call the same
`applyVIPBenefitTx` and are not modelled. `MaxOperations` bounds what clients and
administrators start; the server's own steps are not bounded by it.

## 4. Runs

| Run | Shows |
| --- | --- |
| `retrieval_slots` | slots, status, sessions and deletion are consistent: `SlotAccounting`, `StatusTracksSlots`, `StreamKeepsSession`, `NoConcurrentFileDownload`, `ExhaustedDeletionIsQuiet`, `OnlyUnusedSlotsReturn` |
| `retrieval_live` | two files of two chunks: `TypeOK`, `EarlyCloseIsComplete`; `ExpiredFilesAreDeleted`, `ProvisionalEnds` under fairness |
| `retrieval_window` | violation: `WindowAdmitsTickets` |
| `revocation` | violation: `RevokedIsUnavailable` |
| `node_settlement` | `BegunStreamHasSession`, `SettlementIsQueued`, `StreamIsAuthorised`, `ReadersKeepObject`, `ForgetsOnlySettled` and the refinement, under every kind of failure |
| `node_live` | `SessionsEnd`, `BegunIsSettled` under fairness |
| `node_reuse` | violation: `EndedDownloadsLetGo` |
| `node_checkpoint` | violation: `CheckpointsDoNotInterrupt` |
| `traffic_settlement` | `TypeOK`, `ChargeFollowsUpload`, `TransferCountsUploads`, `DeletedStaysDeleted` with late, repeated and lost completions and stale deletion lists; `HoldsEnd` under fairness |
| `traffic_orders` | `HoldsAreCovered`, `TrafficIsConserved`, `ReturnedOrderIsUnused` while orders are bought and returned |
| `storage_upload` | `AcknowledgedBytesAreStored`, `OneWorkerPerRow`, `VerdictIsReported`, `NoOrphanBytes`; `CompleteIsDecided`, `ExpiredIsRemoved` under fairness, the latter if no download session stays for ever |
| `account` | `DeliveredCodeIsCurrent`, `AccountIsWhole`, `BenefitsOnce`, `DisabledIsFinal`, `VipIsKept` |

**Bounds.** `retrieval_slots`: two recipients, one slot, two sessions and two
reservations are enough for a race for the last slot, a slot that is returned and
taken again, and two rows for one file; `MaxDelay = 1` gives every transaction a
current and an old timestamp; three ticks pass every deadline. One slot makes the
transfer exhausted and reopened. `retrieval_live` has one recipient, two files and two
reservations, so that one file can be downloaded twice while the other is missing.
`node_settlement`: two handlers and two workers (reuse of a ticket, claims taken
over), three chunks (two different partial counts and the whole), two attempts
(retry, then dead letter), three failures. `node_live` has five attempts for three
failures, so that only a real conflict uses them up. `traffic_settlement`: one remote
and one local upload, whose lengths fill the account and the transfer exactly, and one
fault (a restart, a lost message or answer, a failed step); guests have no daily limit
there. `traffic_orders`: a remote and a local upload and three sources, none of which is enough
for both uploads and two of which are too small for the larger one; one order for each
way of paying, points that suffice only after the sandbox order's reward, one byte held
by an older version, and a daily limit for guests. `storage_upload`: two chunks (one
that is followed by another, one that completes) of two possible contents, so that a
chunk in the wrong place shows; two PATCH handlers; two lease ids, enough because a
claim needs one that neither the row nor the scanner has; two faults, so that a
recovery can fail as well. `account`: two request handlers, two batches with a code
each, three redeemers (two of one user, one of another), two check-ins, two codes and
three sessions (a member who signed in at verification logs in twice), three instants of which the last is another day and past every lifetime
of the instance, six client requests and one fault. Four kinds of batch cover a plan
that ends, a longer one, one that does not, and traffic, with and without an end of
the batch. Deadlock is not checked where the bounded clock, the bounded requests or a
used-up ticket let the system stop.

**Fairness.** `retrieval_live`: the clock advances and the worker's ticker keeps
running passes; recipients and owner owe nothing. `node_live`: the control plane
answers calls that reach it; the goroutines of a running node proceed, a stream at
the latest at its write deadline; a stopped node is started again; the stale-session
worker runs. Heartbeats, abandoned requests and clients owe nothing. `traffic_settlement`:
the worker's tickers keep running, a handler ends (its calls have deadlines), the node
answers in the end, and hours pass, so that an incomplete upload grows old. No client
has to send its bytes, no node has to finish a scan and no completion has to arrive.
`storage_upload`: the tickers of the workers keep running and their goroutines proceed
(the scanner has a deadline), a request ends, the lease of a scan that is gone lapses,
a download gets its session row. Clients need not send chunks, the control plane need
not delete, and the expiry need not come. Nor need a session row end: the handler and the
stale-session worker only bring it to `settle_pending`, which still keeps the upload, and
the row goes when the control plane acknowledges the settlement, which `node_reuse` shows
may never happen. `ExpiredIsRemoved` therefore says on its left side that no session
stays for ever (`[]<>(download # "active")`). For the same reason `ExpiredFilesAreDeleted`
in `retrieval_live` holds when the storage refuses a removal only finitely often: a node
that refuses because of a session row is one of the bounded faults there. `account`
checks safety only.
Failures are bounded in number.

## 5. Findings

* `revocation`: revoking an exhausted transfer changes nothing and is reported as
  done; open sessions go on downloading.
* `retrieval_window`: inside the ticket window, a file whose ticket has expired gets
  an error instead of a new ticket until the next cleanup pass, because the expired
  row still occupies the unique index of live reservations.
* `node_reuse`: a ticket that was settled with bytes, requested again with a begin
  call that stays unanswered, queues a settlement of zero that the control plane
  refuses for ever. The event becomes a dead letter, the session row keeps the object
  from being deleted, and the node reports itself not ready; a replay ends the same.
* `node_checkpoint`: a heartbeat that stores the count between its publication and
  its checkpoint makes the checkpoint fail, and with it the download.

A related state has no document to be measured against: when a node is away until
the control plane force-settles its stream, and its checkpoint is ahead of the last
progress the control plane saw, the node's own settlement is refused in the same
way. That is why `node_live` leaves out `deadline`.

## 6. Proofs

`RetrievalProofs` proves, for every value of the constants that satisfies
`RetrievalAssumption` (finite sets of files, sessions and reservations, positive lifetimes,
a provisional lifetime within the session's):

| Theorem | Property | Inductive invariant |
| --- | --- | --- |
| `Typing` | `TypeOK` | `TypeInv`: types, and a request past its reservation names a row |
| `StreamsKeepSessions` | `StreamKeepsSession` | `SessionInv`: also, rows link to inserted sessions, legacy transfers have none, and a provisional session has no begun download |
| `SlotsAreAccounted` | `SlotAccounting` | `SlotInv`: both of the above and the count itself |
| `OnlyUnusedSlotsAreReturned` | `OnlyUnusedSlotsReturn` | follows from `SlotInv` |
| `StatusFollowsSlots` | `StatusTracksSlots` | `StatusInv` |
| `ExhaustedDeletionWaits` | `ExhaustedDeletionIsQuiet` | `DeletionInv`: while an exhausted transfer's files are listed, it stays quiet |
| `FileDownloadsAreExclusive` | `NoConcurrentFileDownload` | `UniqueLive`: at most one live row per session and file |
| `EarlyClosesAreComplete` | `EarlyCloseIsComplete` | `EarlyInv`: files go only when the transfer is over, and an active session expires at its hard limit |

The argument for the slots: every action that changes `downloads` changes the set it
counts by the same number of elements. That needs two facts that are not visible in
the action itself: a provisional session has never seen a download begin (so
releasing it is right and nothing streams in it), and reservations point to sessions
that exist. The proof has one lemma per action for the changed set, a cardinality
lemma for adding or removing elements, and a case per action.

Deletion works because an exhausted transfer with no open session can open none: new
sessions need the status `active`, and only a returned slot of an open session
brings that back. So a list made while the transfer was quiet is still right when
the last file of it is deleted. The same fact carries `EarlyClosesAreComplete`: while a
session is open no file has been deleted, so the set of files it must complete does not
shrink under it, and it can close before its hard limit only by completing them all.

`UploadTrafficProofs` proves, for any uploads, lengths, orders and balances:

| Theorem | Property | Inductive invariant |
| --- | --- | --- |
| `ChargesFollowUploads` | `ChargeFollowsUpload` | `ChargeInv` |
| `DeletedUploadsStayDeleted` | `DeletedStaysDeleted` | follows from `ChargeInv` |

Neither property is inductive. `MarkBlocked` and `MarkQuarantined` write a status
without looking at the row, and `MarkDeleted` deletes whatever it finds; that they do
no harm rests on facts the code states nowhere, which `ChargeInv` adds: an upload the
worker has claimed is local and still `scanning`, and nothing is being deleted
meanwhile (`ScansAreExclusive`); handlers that wait, objects and callbacks belong to
remote uploads, which the worker never scans (`NodeWorkIsRemote`); a charge and an
entry of a deletion list belong to an upload that exists (`CreatedFirst`). The proof
has a lemma for what each ledger operator does to the status of a charge, one lemma
(`OneUploadMoves`) for steps that move one upload with its charge, and a lemma per
action or group of actions.

`UploadLedgerProofs` proves the rest of `UploadTraffic` from the same assumption:

| Theorem | Property | Inductive invariant |
| --- | --- | --- |
| `HoldsAlwaysCovered` | `HoldsAreCovered` | `LedgerInv` |
| `TrafficAlwaysConserved` | `TrafficIsConserved` | `LedgerInv` |
| `ReturnedOrdersUnused` | `ReturnedOrderIsUnused` | `LedgerInv` |
| `TransfersCountUploads` | `TransferCountsUploads` | `TransferInv` |
| `UploadTrafficTypes` | `TypeOK` | all three: no balance and no counter becomes negative |

Conservation and cover need each other: a settlement keeps a balance from becoming
negative because the hold was covered, and a source that has given nothing has no hold
because its balance, which covers the holds, is zero. `LedgerOK` states both for any
ledger, with the counter and with the fact that a reserved charge is allocated in full
from sources that have a row; each operator of the ledger has a lemma that it keeps
`LedgerOK`, and `PlanIsFree` shows that a plan takes only what nobody holds. `LedgerInv`
adds that the rows are those of paid orders (so a new charge takes nothing from a returned
order) and what each order did to the points.

`TransferInv` is about the status the worker read earlier. `MarkDeleted` subtracts from
the transfer when that status was `uploading`, whatever the row says now. This is right
while the transfer is active because the list then has old incomplete uploads only, each
once, and nobody else deletes those: the other caller is a `createUpload` handler, whose
upload is not old, has no token out and cannot be completed (`HandlersWait`).

`SumTheorems` is where sums come from. `SumFunctionOnSet` is defined by recursion over
finite sets, and the library's induction theorems take an operator, which the provers
cannot instantiate. Instead each fact is proved by a smallest counterexample: the strict
subset order on the finite subsets of a set is well-founded
(`FS_StrictSubsetOrderingWellFounded`, `WFMin`), so a fact that fails somewhere fails at a
smallest set, and taking an element out of it gives a smaller one (`SmallestSet`).

`NodeDownloadProofs` proves, for any requests, outbox workers, length, number of
attempts and faults (`NodeDownloadAssumption`: handlers and workers are different
goroutines, length and attempts are positive):

| Theorem | Property |
| --- | --- |
| `Typing` | `TypeOK` |
| `BegunStreamsHaveSessions` | `BegunStreamHasSession` |
| `SettlementsAreQueued` | `SettlementIsQueued` |
| `StreamsAreAuthorised` | `StreamIsAuthorised` |
| `ReadersKeepTheirObject` | `ReadersKeepObject` |
| `OnlySettledIsForgotten` | `ForgetsOnlySettled` |
| `LedgerIsImplemented` | `ImplementsLedger` |

All rest on one invariant, `Inv` (theorem `Invariance`), because the properties need
each other. A begin call that may still take effect, also one whose caller has given up,
finds the row on the node or a closed reservation (`BeginInv`); at most one request was
ever granted the stream, and the bytes delivered are those it sent (`StreamInv`); what is
on its way to an open reservation is either progress of at most the row's count or
exactly its final count, so a late progress report cannot overtake a settlement with more
than was delivered (`MessageInv`); an event in the outbox or among the dead letters has
the final count of the row, unless it is a replay whose reservation is closed
(`EventInv`); a worker whose claim is current knows the event as it is (`ClaimInv`). The
refinement is proved step by step: only a granted begin opens the ledger, only copying
delivers, only a settlement that is accepted moves the record, and it moves it up and at
most to what was delivered; every other step leaves the ledger's state as it is.

`StorageUploadProofs` proves, for any requests, contents, length and faults
(`StorageUploadAssumption`, and `NoneAssumption`: no directory, verdict or file content
is the value that stands for nothing):

| Theorem | Property | Part of `Inv` |
| --- | --- | --- |
| `Typing` | `TypeOK` | `TypeInv` |
| `OneWorkerAtATime` | `OneWorkerPerRow` | `LockInv` |
| `VerdictsAreReported` | `VerdictIsReported` | `RowInv`, `VerdictInv` |
| `NoBytesAreOrphaned` | `NoOrphanBytes` | `RowInv`, `OrphanInv` |
| `AcknowledgedBytesAreKept` | `AcknowledgedBytesAreStored` | `ContentInv` |

The mutexes come first. Removal takes a mutex out of the map while others may hold or
wait for it, so mutual exclusion is not a property of the mutex alone: `MapOutlivesRow`
says that a mutex leaves the map only when the row has gone, and the row does not come
back. While there is a row everybody has the first mutex, and one goroutine works.
`RowInv` is what that worker then knows of the row it has read, and `ContentInv` where
the acknowledged bytes are: in `tmp/` while chunks are missing, then whole in one of the
places the row allows, with what each goroutine has moved and not yet recorded.

`AccountProofs` proves, for any handlers, codes, batches and durations
(`IdentityAssumption`, in which a handler ends before the cooldown does and `None` is not
a time, and `BenefitsAssumption`):

| Theorem | Property | Inductive invariant |
| --- | --- | --- |
| `Typing` | `TypeOK` | `TypeInv`: also, handlers of an address take turns (`RequestsTakeTurns`) |
| `DeliveredCodesAreCurrent` | `DeliveredCodeIsCurrent` | `DeliveryInv`: the handler under way is the newest request of its purpose, and its code is the last row |
| `AccountsAreWhole` | `AccountIsWhole` | `WholeInv`: also, whatever is under way for the account has an active one |
| `BenefitsAreGivenOnce` | `BenefitsOnce` | the property itself, with `TypeInv` |
| `DisablingIsFinal` | `DisabledIsFinal` | `TypeInv` |
| `MembershipIsKept` | `VipIsKept` | `TypeInv` |

The turns are the heart of it. Two handlers that send codes share no lock; they exclude
each other because the address is reserved for a cooldown that is longer than a handler
may take. From that follow the types (a code to be inserted finds room, since the bound
on codes is checked once per request) and the order of codes: nothing that an earlier
handler still does can consume or outdate the code of a later one.

Every invariant and action property that a passing run checks is proved. Only
model-checked: the liveness properties (`ExpiredFilesAreDeleted`,
`ProvisionalEnds`, `SessionsEnd`, `BegunIsSettled`, `HoldsEnd`, `CompleteIsDecided`,
`ExpiredIsRemoved`), because fairness is out of the prover's reach here.

## 7. Not modelled

The `components` of `PROJECT.json` give the reason for each part. In short:

* creation, editing and publication of transfers, and the chunks and files of local
  uploads, which follow the protocol of `StorageUpload` in simpler code;
* the migration of a data directory: an offline tool, one actor, mostly checks of the
  file system; schema statements at start-up;
* service settings (one row under a version check), guest sessions, profile edits,
  suspension of users, lists and statistics, which read only;
* human verification, rate limits and the replay guard, which only refuse requests;
* cryptography, the contents of messages, mail transport, configuration, platform code
  and the web client.

Two states the models reach have no document to be measured against: an address
registered again shortly before its 48 hours are over can be deleted while its new code
is valid (`RefreshPendingUser` leaves `created_at` as it is), and a deletion that races
the reservation of its upload can leave an empty file in `tmp/`, which `NoOrphanBytes`
allows. A removal that fails or crashes after the files are gone leaves a row that only
another deletion or the expiry removes; `CompleteIsDecided` makes that exception with
`doomed`.
