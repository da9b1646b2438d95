----------------------------- MODULE StorageUpload -----------------------------
(***************************************************************************)
(* One upload on the storage node: its row in storage_uploads, its file    *)
(* under tmp/, quarantine/ or objects/, and the goroutines that work on    *)
(* both. Row and file are changed in separate steps, the process may stop  *)
(* between any two of them, and nothing is repaired at start-up: recovery  *)
(* is what the workers do with what they find.                             *)
(*                                                                         *)
(* Goroutines exclude each other with a mutex kept in a map (uploadLock),  *)
(* from which the deletion of the upload removes it. epoch numbers the     *)
(* mutexes: a goroutine that fetched an older one does not exclude a       *)
(* goroutine that fetches the next.                                        *)
(***************************************************************************)
EXTENDS Integers, Sequences

CONSTANTS
    Handlers,   \* PATCH requests that may run at the same time
    Data,       \* contents a chunk may have
    Torn,       \* what a failed write leaves in the file
    Leases,     \* scan lease ids; a claim takes another one than the row has
    Length,     \* length of the upload in chunks
    None,       \* no file, no lease, no mutex, no verdict
    MaxFaults   \* bound on crashes, failed calls and lapsed leases

ASSUME StorageUploadAssumption ==
    /\ Length \in Nat \ {0} /\ MaxFaults \in Nat
    /\ Torn \notin Data /\ None \notin Leases
    /\ Handlers \cap {"recoverer", "scanner", "deleter", "cleaner", "reader"} = {}

VARIABLES
    row,       \* the row: status, offset, path, lease and whether the lease still runs
    files,     \* contents of the three server-generated paths
    expired,   \* expires_at has passed
    download,  \* the download handler and its session
    reserving, \* the reserve handler
    issued,    \* the control plane has handed the upload token to the client
    patch,     \* the PATCH handlers
    recover,   \* the worker recoverCompletedUploads
    scan,      \* the worker scanPendingUploads
    remove,    \* the DELETE handler and the worker cleanupExpiredUploads
    mutex,     \* the mutex each goroutine has fetched
    held,      \* the goroutines that hold theirs
    epoch,     \* the mutex the map holds now
    event,     \* the upload-complete event of the outbox
    told,      \* verdicts the control plane has received
    acked,     \* contents of the chunks whose offsets were recorded
    doomed,    \* the removal of the files has begun
    faults     \* failures so far

fileVars == <<row, files>>
clockVars == <<expired, download>>
reserveVars == <<reserving, issued>>
lockVars == <<mutex, held, epoch>>
outboxVars == <<event, told>>
ghostVars == <<acked, doomed>>
vars == <<row, files, expired, download, reserving, issued, patch, recover, scan, remove,
          mutex, held, epoch, event, told, acked, doomed, faults>>

Directories == {"tmp", "quarantine", "objects"}
Removers == {"deleter", "cleaner"}
Actors == Handlers \cup Removers \cup {"recoverer", "scanner", "reader"}
Verdicts == {"ready", "blocked", "quarantined"}
UploadStatus == {"none", "uploading", "pending_scan", "scanning", "clean", "blocked", "scanner_error"}
Contents == UNION {[1 .. n -> Data \cup {Torn}] : n \in 0 .. Length}

ASSUME NoneAssumption == None \notin Directories \cup Verdicts \cup Contents

NoRow == [status |-> "none", offset |-> 0, path |-> None, lease |-> None, live |-> FALSE]
NewRow == [NoRow EXCEPT !.status = "uploading", !.path = "tmp"]
NoFiles == [d \in Directories |-> None]
IdlePatch == [pc |-> "idle", offset |-> 0, data |-> None]
IdleScan == [pc |-> "idle", lease |-> None, path |-> None, file |-> None]

\* What the control plane is told about a finished upload (scanOneUpload).
VerdictOf(status) ==
    CASE status = "clean" -> "ready"
      [] status = "blocked" -> "blocked"
      [] status = "scanner_error" -> "quarantined"
      [] OTHER -> None

Rows == [status : UploadStatus, offset : 0 .. Length, path : Directories \cup {None},
         lease : Leases \cup {None}, live : BOOLEAN]
Patches == [pc : {"idle", "checked", "ready", "written", "recorded", "moved"},
            offset : 0 .. Length, data : Data \cup {None}]
Scans == [pc : {"idle", "claimed", "scanning", "clean", "blocked", "error",
                "publish", "report", "discard"},
          lease : Leases \cup {None}, path : Directories \cup {None}, file : Directories \cup {None}]

TypeOK ==
    /\ row \in Rows
    /\ files \in [Directories -> Contents \cup {None}]
    /\ expired \in BOOLEAN /\ download \in {"idle", "opened", "active"}
    /\ reserving \in {"new", "inserted", "idle"} /\ issued \in BOOLEAN
    /\ patch \in [Handlers -> Patches]
    /\ recover \in {"idle", "listed", "moved"}
    /\ scan \in Scans
    /\ remove \in [Removers -> {"idle", "waiting", "checked", "removed", "unlocked"}]
    /\ mutex \in [Actors -> Nat \cup {None}]
    /\ held \in [Actors -> BOOLEAN]
    /\ epoch \in Nat
    /\ event \in Verdicts \cup {None} /\ told \subseteq Verdicts
    /\ acked \in Contents /\ doomed \in BOOLEAN
    /\ faults \in 0 .. MaxFaults

Init ==
    /\ row = NoRow /\ files = NoFiles
    /\ expired = FALSE /\ download = "idle"
    /\ reserving = "new" /\ issued = FALSE
    /\ patch = [h \in Handlers |-> IdlePatch]
    /\ recover = "idle" /\ scan = IdleScan
    /\ remove = [r \in Removers |-> "idle"]
    /\ mutex = [a \in Actors |-> None] /\ held = [a \in Actors |-> FALSE] /\ epoch = 0
    /\ event = None /\ told = {}
    /\ acked = <<>> /\ doomed = FALSE
    /\ faults = 0

HasActiveDownloadSessions == download = "active"

Fault == faults < MaxFaults /\ faults' = faults + 1

-----------------------------------------------------------------------------
(* Locks. *)

\* lockForUpload: LoadOrStore returns the mutex of the map, or puts a new one there.
Fetch(a) ==
    /\ mutex' = [mutex EXCEPT ![a] = epoch]
    /\ UNCHANGED <<held, epoch>>

LockFree(a) == \A b \in Actors : held[b] => mutex[b] # mutex[a]

Lock(a) ==
    /\ LockFree(a)
    /\ held' = [held EXCEPT ![a] = TRUE]
    /\ UNCHANGED <<mutex, epoch>>

\* Unlock, or give up a mutex that was fetched and never locked.
Leave(a) ==
    /\ held' = [held EXCEPT ![a] = FALSE]
    /\ mutex' = [mutex EXCEPT ![a] = None]
    /\ UNCHANGED epoch

\* lockForUpload, Lock, work and Unlock within one step.
LockAndLeave(a) == LockFree(a) /\ Leave(a)

-----------------------------------------------------------------------------
(* Reservation by the control plane. *)

\* reserveUpload for an unknown id: the row is inserted. The control plane draws a
\* fresh id for every upload and sends one reservation, so this happens once and the
\* handler's branch for an id that exists is not reached.
ReserveInsert ==
    /\ reserving = "new" /\ ~expired /\ row.status = "none"
    /\ row' = NewRow
    /\ reserving' = "inserted"
    /\ UNCHANGED <<files, clockVars, issued, patch, recover, scan, remove, lockVars, outboxVars,
                   ghostVars, faults>>

\* ensureUploadingFile for a new row, without the upload's lock: O_EXCL, but an empty
\* file that is already there will do. The answer gives the client its token.
ReserveCreateFile ==
    /\ reserving = "inserted" /\ files["tmp"] \in {None, <<>>}
    /\ files' = [files EXCEPT !["tmp"] = <<>>]
    /\ reserving' = "idle" /\ issued' = TRUE
    /\ UNCHANGED <<row, clockVars, patch, recover, scan, remove, lockVars, outboxVars, ghostVars,
                   faults>>

\* The file cannot be created: DeleteUpload takes the row back, if it can.
ReserveFails ==
    /\ reserving = "inserted" /\ Fault
    /\ row' \in {row, NoRow}
    /\ reserving' = "idle"
    /\ UNCHANGED <<files, clockVars, issued, patch, recover, scan, remove, lockVars, outboxVars, ghostVars>>

-----------------------------------------------------------------------------
(* Chunks. *)

PatchAs(h, pc) == patch' = [patch EXCEPT ![h].pc = pc]
EndPatch(h) == patch' = [patch EXCEPT ![h] = IdlePatch] /\ Leave(h)

\* Mutant: the length of the upload is not looked at.
WritableAnywhere == row.status = "uploading" /\ ~expired

\* authorizedStorageUpload and the first checks of patchUpload.
Writable == row.status = "uploading" /\ ~expired /\ row.offset < Length

\* patchUpload up to lockForUpload: the row is read without the lock, and the client's
\* Upload-Offset is compared with it.
PatchCheck(h, d) ==
    /\ patch[h].pc = "idle" /\ issued /\ Writable
    /\ patch' = [patch EXCEPT ![h] = [pc |-> "checked", offset |-> row.offset, data |-> d]]
    /\ Fetch(h)
    /\ UNCHANGED <<fileVars, clockVars, reserveVars, recover, scan, remove, outboxVars, ghostVars,
                   faults>>

\* The row as patchUpload reads it again under the lock.
StillWritable(h) ==
    row.status = "uploading" /\ row.offset = patch[h].offset /\ ~expired

\* TryLock, the second look at the row, and the body has arrived.
PatchEnter(h) ==
    /\ patch[h].pc = "checked"
    /\ Lock(h)
    /\ StillWritable(h)
    /\ PatchAs(h, "ready")
    /\ UNCHANGED <<fileVars, clockVars, reserveVars, recover, scan, remove, outboxVars, ghostVars,
                   faults>>

\* The lock is taken, the row has changed, the node is not ready, no slot or space is
\* left, or the body does not arrive.
PatchRefused(h) ==
    /\ patch[h].pc = "checked"
    /\ EndPatch(h)
    /\ UNCHANGED <<fileVars, clockVars, reserveVars, recover, scan, remove, outboxVars, ghostVars,
                   faults>>

\* Mutant: the chunk goes to the end of the file.
ChunkedAtEnd(h, d) == Append(files["tmp"], d)

\* writeUploadChunk: bytes past the recorded offset are cut off, then the chunk is
\* written and synced.
Appendable(h) == files["tmp"] # None /\ Len(files["tmp"]) >= patch[h].offset
Chunked(h, d) == Append(SubSeq(files["tmp"], 1, patch[h].offset), d)

PatchWrite(h) ==
    /\ patch[h].pc = "ready" /\ Appendable(h)
    /\ files' = [files EXCEPT !["tmp"] = Chunked(h, patch[h].data)]
    /\ PatchAs(h, "written")
    /\ UNCHANGED <<row, clockVars, reserveVars, recover, scan, remove, lockVars, outboxVars,
                   ghostVars, faults>>

\* The file is missing or too short, or the write fails half way.
PatchWriteFails(h) ==
    /\ patch[h].pc = "ready"
    /\ \/ ~Appendable(h) /\ UNCHANGED <<files, faults>>
       \/ /\ Appendable(h) /\ Fault
          /\ files' \in {files, [files EXCEPT !["tmp"] = Chunked(h, Torn)]}
    /\ EndPatch(h)
    /\ UNCHANGED <<row, clockVars, reserveVars, recover, scan, remove, outboxVars, ghostVars>>

\* UpdateUploadOffset: a conditional UPDATE.
OffsetMatches(h) == row.status = "uploading" /\ row.offset = patch[h].offset

PatchRecord(h) ==
    /\ patch[h].pc = "written" /\ OffsetMatches(h)
    /\ row' = [row EXCEPT !.offset = @ + 1]
    /\ acked' = Append(acked, patch[h].data)
    /\ IF row.offset + 1 = Length
       THEN PatchAs(h, "recorded") /\ UNCHANGED lockVars
       ELSE EndPatch(h)
    /\ UNCHANGED <<files, clockVars, reserveVars, recover, scan, remove, outboxVars, doomed, faults>>

\* The statement fails: the chunk is cut off again, if that does not fail as well.
\* A row that changed would end here too, but the lock keeps it from changing.
PatchUnrecorded(h) ==
    /\ patch[h].pc = "written" /\ Fault
    /\ files' \in {files, [files EXCEPT !["tmp"] = SubSeq(@, 1, patch[h].offset)]}
    /\ EndPatch(h)
    /\ UNCHANGED <<row, clockVars, reserveVars, recover, scan, remove, outboxVars, ghostVars>>

-----------------------------------------------------------------------------
(* Completed uploads enter quarantine: finalizeCompletedUpload. *)

CanQuarantine ==
    IF files["quarantine"] = None THEN files["tmp"] # None
    ELSE Len(files["quarantine"]) = Length

\* An earlier attempt may have moved the file already; then what is in tmp goes.
Quarantined ==
    [files EXCEPT !["tmp"] = None,
                  !["quarantine"] = IF @ = None THEN files["tmp"] ELSE @]

\* MarkPendingScan: no effect on a row that is no longer uploading.
PendingRow ==
    IF row.status = "uploading" /\ row.offset = Length
    THEN [row EXCEPT !.status = "pending_scan", !.path = "quarantine", !.lease = None, !.live = FALSE]
    ELSE row

PatchQuarantine(h) ==
    /\ patch[h].pc = "recorded" /\ CanQuarantine
    /\ files' = Quarantined
    /\ PatchAs(h, "moved")
    /\ UNCHANGED <<row, clockVars, reserveVars, recover, scan, remove, lockVars, outboxVars,
                   ghostVars, faults>>

PatchMarkPending(h) ==
    /\ patch[h].pc = "moved"
    /\ row' = PendingRow
    /\ EndPatch(h)
    /\ UNCHANGED <<files, clockVars, reserveVars, recover, scan, remove, outboxVars, ghostVars, faults>>

\* isolation_failed: the upload stays 'uploading' with all its bytes.
PatchIsolationFails(h) ==
    /\ patch[h].pc \in {"recorded", "moved"}
    /\ \/ patch[h].pc = "recorded" /\ ~CanQuarantine /\ UNCHANGED faults
       \/ Fault
    /\ EndPatch(h)
    /\ UNCHANGED <<fileVars, clockVars, reserveVars, recover, scan, remove, outboxVars, ghostVars>>

\* recoverCompletedUploads: the list is read before the lock is taken.
RecoverList ==
    /\ recover = "idle" /\ row.status = "uploading" /\ row.offset = Length
    /\ recover' = "listed"
    /\ Fetch("recoverer")
    /\ UNCHANGED <<fileVars, clockVars, reserveVars, patch, scan, remove, outboxVars, ghostVars, faults>>

RecoverQuarantine ==
    /\ recover = "listed" /\ CanQuarantine
    /\ Lock("recoverer")
    /\ files' = Quarantined
    /\ recover' = "moved"
    /\ UNCHANGED <<row, clockVars, reserveVars, patch, scan, remove, outboxVars, ghostVars, faults>>

RecoverMarkPending ==
    /\ recover = "moved"
    /\ row' = PendingRow
    /\ recover' = "idle" /\ Leave("recoverer")
    /\ UNCHANGED <<files, clockVars, reserveVars, patch, scan, remove, outboxVars, ghostVars, faults>>

\* An error is logged; the next pass tries again.
RecoverFails ==
    /\ \/ recover = "listed" /\ LockFree("recoverer") /\ ~CanQuarantine /\ UNCHANGED faults
       \/ recover = "listed" /\ LockFree("recoverer") /\ Fault
       \/ recover = "moved" /\ Fault
    /\ recover' = "idle" /\ Leave("recoverer")
    /\ UNCHANGED <<fileVars, clockVars, reserveVars, patch, scan, remove, outboxVars, ghostVars>>

-----------------------------------------------------------------------------
(* Scanning. *)

ScanAs(pc) == scan' = [scan EXCEPT !.pc = pc]
EndScan == scan' = IdleScan /\ Leave("scanner")

\* Mutant: only uploads nobody has claimed.
NeverClaimed == row.status = "pending_scan"

\* What ClaimPendingScans selects: new work, or the claim of a scan that is gone.
Claimable == row.status = "pending_scan" \/ (row.status = "scanning" /\ ~row.live)

\* ClaimPendingScans: one transaction, before the upload's lock is taken.
ClaimPendingScans(l) ==
    /\ scan.pc = "idle" /\ ~expired
    /\ Claimable
    /\ l \notin {row.lease, scan.lease}
    /\ row' = [row EXCEPT !.status = "scanning", !.lease = l, !.live = TRUE]
    /\ scan' = [IdleScan EXCEPT !.pc = "claimed", !.lease = l, !.path = row.path]
    /\ Fetch("scanner")
    /\ UNCHANGED <<files, clockVars, reserveVars, patch, recover, remove, outboxVars, ghostVars, faults>>

\* resolveScanPath: the path of the claimed row, then quarantine, then objects.
Complete(d) == d # None /\ files[d] # None /\ Len(files[d]) = Length
ScanPath ==
    CASE scan.path # None /\ Complete(scan.path) -> scan.path
      [] Complete("quarantine") -> "quarantine"
      [] Complete("objects") -> "objects"
      [] OTHER -> None

ScanStart ==
    /\ scan.pc = "claimed"
    /\ Lock("scanner")
    /\ scan' = [scan EXCEPT !.pc = "scanning", !.file = ScanPath]
    /\ UNCHANGED <<fileVars, clockVars, reserveVars, patch, recover, remove, outboxVars, ghostVars, faults>>

\* RenewScanLease and CompleteScan succeed only for the lease in the row, while it runs.
HoldsLease == row.status = "scanning" /\ row.lease = scan.lease /\ row.live

\* ReleaseScanClaim: by lease id, whether or not the lease still runs.
ReleasedRow ==
    IF row.status = "scanning" /\ row.lease = scan.lease
    THEN [row EXCEPT !.status = "pending_scan", !.lease = None, !.live = FALSE] ELSE row

\* The scanner answers and stopLeaseRenewal renews the lease once more.
ScanEnds(pc) ==
    /\ scan.pc = "scanning" /\ HoldsLease
    /\ pc \in {"clean", "blocked", "error"}
    /\ scan.file = None => pc = "error"
    /\ ScanAs(pc)
    /\ UNCHANGED <<fileVars, clockVars, reserveVars, patch, recover, remove, lockVars, outboxVars,
                   ghostVars, faults>>

\* The lease is lost, a renewal fails, the file cannot be moved, the result cannot be
\* recorded, or the node shuts down: the claim is released, if the database can.
ScanReleases ==
    /\ \/ /\ scan.pc \in {"scanning", "publish", "blocked", "report"} /\ ~HoldsLease
          /\ row' = ReleasedRow /\ UNCHANGED faults
       \/ /\ scan.pc \in {"claimed", "scanning", "clean", "publish", "blocked", "report"} /\ Fault
          /\ row' \in {row, ReleasedRow}
    /\ EndScan
    /\ UNCHANGED <<files, clockVars, reserveVars, patch, recover, remove, outboxVars, ghostVars>>

Move(from, to) == [files EXCEPT ![from] = None, ![to] = files[from]]

\* A clean file is renamed into objects/ before the row says so.
ScanPromote ==
    /\ scan.pc = "clean"
    /\ files' = IF scan.file = "objects" THEN files ELSE Move(scan.file, "objects")
    /\ scan' = [scan EXCEPT !.pc = "publish", !.path = "objects"]
    /\ UNCHANGED <<row, clockVars, reserveVars, patch, recover, remove, lockVars, outboxVars,
                   ghostVars, faults>>

\* finishScannerError: the file goes back to quarantine; if that fails it stays.
ScanQuarantine ==
    /\ scan.pc = "error"
    /\ LET current == IF scan.file = None THEN scan.path ELSE scan.file IN
       \/ /\ files' = IF current \in {None, "quarantine"} \/ files[current] = None
                      THEN files ELSE Move(current, "quarantine")
          /\ scan' = [scan EXCEPT !.pc = "report", !.path = "quarantine"]
          /\ UNCHANGED faults
       \/ /\ current \notin {None, "quarantine"} /\ files[current] # None /\ Fault
          /\ scan' = [scan EXCEPT !.pc = "report", !.path = current]
          /\ UNCHANGED files
    /\ UNCHANGED <<row, clockVars, reserveVars, patch, recover, remove, lockVars, outboxVars, ghostVars>>

FinalStatus ==
    CASE scan.pc = "publish" -> "clean" [] scan.pc = "blocked" -> "blocked" [] OTHER -> "scanner_error"

\* CompleteScan: the verdict and its outbox event, one transaction.
CompleteScan ==
    /\ scan.pc \in {"publish", "blocked", "report"} /\ HoldsLease
    /\ row' = [row EXCEPT !.status = FinalStatus, !.lease = None, !.live = FALSE,
                          !.path = IF scan.pc = "blocked" THEN None ELSE scan.path]
    /\ event' = VerdictOf(FinalStatus)
    /\ IF scan.pc = "blocked" THEN ScanAs("discard") /\ UNCHANGED lockVars ELSE EndScan
    /\ UNCHANGED <<files, clockVars, reserveVars, patch, recover, remove, told, ghostVars, faults>>

\* The file of a blocked upload goes after the verdict is recorded; a failure to
\* remove it is ignored.
ScanDiscard ==
    /\ scan.pc = "discard"
    /\ \/ files' = [files EXCEPT ![scan.file] = None] /\ UNCHANGED faults
       \/ Fault /\ UNCHANGED files
    /\ EndScan
    /\ UNCHANGED <<row, clockVars, reserveVars, patch, recover, remove, outboxVars, ghostVars>>

\* Time passes without a renewal: always when the claim's owner is gone, otherwise
\* only when the renewals fail.
LeaseLapses ==
    /\ row.live
    /\ IF row.lease = scan.lease THEN Fault ELSE UNCHANGED faults
    /\ row' = [row EXCEPT !.live = FALSE]
    /\ UNCHANGED <<files, clockVars, reserveVars, patch, recover, scan, remove, lockVars, outboxVars,
                   ghostVars>>

-----------------------------------------------------------------------------
(* The outbox. NodeDownload has its claims, retries and dead letters. *)

\* The event is sent, any number of times until it is acknowledged.
DeliverEvent ==
    /\ event # None
    /\ told' = told \cup {event}
    /\ UNCHANGED <<fileVars, clockVars, reserveVars, patch, recover, scan, remove, lockVars, event,
                   ghostVars, faults>>

\* Mutant: the event is dropped when it is sent.
DropEvent ==
    /\ event # None
    /\ event' = None
    /\ UNCHANGED <<fileVars, clockVars, reserveVars, patch, recover, scan, remove, lockVars, told,
                   ghostVars, faults>>

AckEvent ==
    /\ event # None /\ event \in told
    /\ event' = None
    /\ UNCHANGED <<fileVars, clockVars, reserveVars, patch, recover, scan, remove, lockVars, told,
                   ghostVars, faults>>

-----------------------------------------------------------------------------
(* Deletion, by the control plane or after expiry. *)

RemoveAs(r, pc) == remove' = [remove EXCEPT ![r] = pc]

\* Mutant: claimed scans are left to the scanner.
ListedUnclaimed == expired /\ row.status \notin {"none", "scanning"} /\ ~HasActiveDownloadSessions

\* ExpiredUploads.
Listed == expired /\ row.status # "none" /\ ~HasActiveDownloadSessions

\* deleteUpload fetches the lock; ExpiredUploads lists the upload first.
StartRemoval(r) ==
    /\ remove[r] = "idle"
    /\ r = "cleaner" => Listed
    /\ RemoveAs(r, "waiting")
    /\ Fetch(r)
    /\ UNCHANGED <<fileVars, clockVars, reserveVars, patch, recover, scan, outboxVars, ghostVars, faults>>

\* Under the lock: an active download keeps the upload; cleanupExpiredUploads does not
\* look at the row again.
MayRemove(r) == ~HasActiveDownloadSessions /\ (r = "deleter" => row.status # "none")

EnterRemoval(r) ==
    /\ remove[r] = "waiting" /\ MayRemove(r)
    /\ Lock(r)
    /\ RemoveAs(r, "checked")
    /\ UNCHANGED <<fileVars, clockVars, reserveVars, patch, recover, scan, outboxVars, ghostVars, faults>>

SkipRemoval(r) ==
    /\ remove[r] = "waiting" /\ ~MayRemove(r)
    /\ LockAndLeave(r)
    /\ RemoveAs(r, "idle")
    /\ UNCHANGED <<fileVars, clockVars, reserveVars, patch, recover, scan, outboxVars, ghostVars, faults>>

\* Mutant: only the file the row names goes.
AllButPath == [d \in Directories |-> IF d = row.path THEN None ELSE files[d]]

\* removeUploadFiles: all three paths, whatever the row says.
RemainingFiles == NoFiles

RemoveFiles(r) ==
    /\ remove[r] = "checked"
    /\ files' = RemainingFiles
    /\ doomed' = TRUE
    /\ RemoveAs(r, "removed")
    /\ UNCHANGED <<row, clockVars, reserveVars, patch, recover, scan, lockVars, outboxVars, acked, faults>>

\* Mutant: the mutex goes although the upload stays.
ForgetFailed(r) ==
    /\ held' = [held EXCEPT ![r] = FALSE]
    /\ mutex' = [mutex EXCEPT ![r] = None]
    /\ epoch' = epoch + 1

\* A failed removal keeps the mutex in the map.
LeaveFailed(r) == Leave(r)

\* Some file cannot be removed, or the row cannot be deleted.
RemovalFails(r) ==
    /\ remove[r] \in {"checked", "removed"} /\ Fault
    /\ \E gone \in IF remove[r] = "checked" THEN {{}, {"tmp"}, {"tmp", "quarantine"}} ELSE {{}} :
           /\ files' = [d \in Directories |-> IF d \in gone THEN None ELSE files[d]]
           /\ doomed' = (doomed \/ gone # {})
    /\ RemoveAs(r, "idle") /\ LeaveFailed(r)
    /\ UNCHANGED <<row, clockVars, reserveVars, patch, recover, scan, outboxVars, acked>>

\* DeleteUpload: the row and its event. deleteUpload then drops the mutex from the map
\* while it still holds it; cleanupExpiredUploads unlocks first.
DeleteRow(r) ==
    /\ remove[r] = "removed" /\ ~HasActiveDownloadSessions
    /\ row' = NoRow /\ event' = None
    /\ held' = [held EXCEPT ![r] = FALSE]
    /\ mutex' = [mutex EXCEPT ![r] = None]
    /\ IF r = "deleter" THEN epoch' = epoch + 1 /\ RemoveAs(r, "idle")
       ELSE UNCHANGED epoch /\ RemoveAs(r, "unlocked")
    /\ UNCHANGED <<files, clockVars, reserveVars, patch, recover, scan, told, ghostVars, faults>>

DropLock ==
    /\ remove["cleaner"] = "unlocked"
    /\ epoch' = epoch + 1
    /\ RemoveAs("cleaner", "idle")
    /\ UNCHANGED <<fileVars, clockVars, reserveVars, patch, recover, scan, mutex, held, outboxVars,
                   ghostVars, faults>>

-----------------------------------------------------------------------------
(* Environment. *)

\* The download handler takes the lock, finds the clean row and the whole object,
\* and only then records its session. NodeDownload has the rest of it.
OpenObject ==
    /\ download = "idle" /\ row.status = "clean" /\ ~expired /\ Complete("objects")
    /\ \A a \in Actors : held[a] => mutex[a] # epoch
    /\ mutex' = [mutex EXCEPT !["reader"] = epoch] /\ held' = [held EXCEPT !["reader"] = TRUE]
    /\ download' = "opened"
    /\ UNCHANGED <<fileVars, expired, reserveVars, patch, recover, scan, remove, epoch, outboxVars,
                   ghostVars, faults>>

\* PrepareDownloadSession; the lock is released before the stream.
PrepareSession ==
    /\ download = "opened"
    /\ download' = "active" /\ Leave("reader")
    /\ UNCHANGED <<fileVars, expired, reserveVars, patch, recover, scan, remove, outboxVars,
                   ghostVars, faults>>

\* The session's row goes: its begin was refused (CancelDownloadSession), or the
\* control plane has acknowledged its settlement (AckClaimedOutbox). Its handler and
\* recoverStaleDownloadSessions only move it to settle_pending, which keeps the upload
\* like the states before: "active" stands for all of them.
EndSession ==
    /\ HasActiveDownloadSessions
    /\ download' = "idle"
    /\ UNCHANGED <<fileVars, expired, reserveVars, patch, recover, scan, remove, lockVars, outboxVars,
                   ghostVars, faults>>

Expire ==
    /\ ~expired
    /\ expired' = TRUE
    /\ UNCHANGED <<fileVars, download, reserveVars, patch, recover, scan, remove, lockVars, outboxVars,
                   ghostVars, faults>>

\* The process stops and is started again: rows and files stay as they are.
Crash ==
    /\ Fault
    /\ reserving' = IF reserving = "new" THEN "new" ELSE "idle"
    /\ patch' = [h \in Handlers |-> IdlePatch]
    /\ recover' = "idle" /\ scan' = IdleScan
    /\ remove' = [r \in Removers |-> "idle"]
    /\ mutex' = [a \in Actors |-> None] /\ held' = [a \in Actors |-> FALSE] /\ epoch' = 0
    /\ download' = IF download = "opened" THEN "idle" ELSE download
    /\ UNCHANGED <<fileVars, expired, issued, outboxVars, ghostVars>>

-----------------------------------------------------------------------------
ReserveStep ==
    \/ ReserveInsert \/ ReserveCreateFile \/ ReserveFails

PatchStep(h) ==
    \/ \E d \in Data : PatchCheck(h, d)
    \/ PatchEnter(h) \/ PatchRefused(h)
    \/ PatchWrite(h) \/ PatchWriteFails(h)
    \/ PatchRecord(h) \/ PatchUnrecorded(h)
    \/ PatchQuarantine(h) \/ PatchMarkPending(h) \/ PatchIsolationFails(h)

RecoverStep == RecoverList \/ RecoverQuarantine \/ RecoverMarkPending \/ RecoverFails

ScanStep ==
    \/ \E l \in Leases : ClaimPendingScans(l)
    \/ ScanStart \/ ScanReleases \/ ScanPromote \/ ScanQuarantine \/ CompleteScan \/ ScanDiscard
    \/ \E pc \in {"clean", "blocked", "error"} : ScanEnds(pc)

RemoveStep(r) ==
    \/ StartRemoval(r) \/ EnterRemoval(r) \/ SkipRemoval(r)
    \/ RemoveFiles(r) \/ RemovalFails(r) \/ DeleteRow(r)

Next ==
    \/ ReserveStep
    \/ \E h \in Handlers : PatchStep(h)
    \/ RecoverStep
    \/ ScanStep \/ LeaseLapses
    \/ DeliverEvent \/ AckEvent
    \/ \E r \in Removers : RemoveStep(r)
    \/ DropLock
    \/ OpenObject \/ PrepareSession \/ EndSession \/ Expire
    \/ Crash

Spec == Init /\ [][Next]_vars

\* The tickers of the workers keep running and their goroutines proceed; a request
\* ends (its body and its calls have deadlines). Failures are bounded. Clients and the
\* control plane owe nothing, so a session may stay for ever; the expiry may be far away.
Fairness ==
    /\ WF_vars(RecoverStep) /\ WF_vars(ScanStep)
    /\ WF_vars(row.lease # scan.lease /\ LeaseLapses)
    /\ \A h \in Handlers :
           WF_vars(patch[h].pc # "idle" /\ PatchStep(h))
    /\ \A r \in Removers :
           WF_vars((remove[r] # "idle" \/ r = "cleaner") /\ RemoveStep(r))
    /\ WF_vars(DropLock)
    /\ WF_vars(PrepareSession)

FairSpec == Spec /\ Fairness

-----------------------------------------------------------------------------
(* Properties. *)

\* No acknowledged byte is lost or replaced: whatever crashed, failed or raced, the
\* chunks whose offsets UpdateUploadOffset recorded are the start of the file, in
\* one place until the scan is over, and a clean row has exactly them in objects/. A
\* download reads exactly them, and they stay while it reads, whatever is deleted.
AcknowledgedBytesAreStored ==
    /\ download # "idle" => files["objects"] = acked
    /\ ~doomed =>
      CASE row.status = "uploading" ->
               \/ /\ row.offset < Length
                  /\ row.offset > 0 => /\ files["tmp"] # None /\ Len(files["tmp"]) >= row.offset
                                       /\ SubSeq(files["tmp"], 1, row.offset) = acked
               \/ row.offset = Length /\ acked \in {files["tmp"], files["quarantine"]}
        [] row.status \in {"pending_scan", "scanning"} -> acked \in {files["quarantine"], files["objects"]}
        [] row.status = "clean" -> files["objects"] = acked
        [] row.status = "scanner_error" -> row.path # None /\ files[row.path] = acked
        [] OTHER -> TRUE

\* The mutex map excludes: two goroutines with different mutexes of one upload meet
\* only after its row is gone for good, although deleteUpload drops the mutex while
\* others wait for it and cleanupExpiredUploads drops one it no longer holds.
OneWorkerPerRow ==
    \A a, b \in Actors : held[a] /\ held[b] /\ a # b => row.status = "none"

\* A recorded verdict is queued for the control plane until it has arrived, and the
\* control plane never hears two different ones (CompleteScan's one transaction).
VerdictIsReported ==
    /\ VerdictOf(row.status) # None => VerdictOf(row.status) \in {event} \cup told
    /\ \A v, w \in told \cup ({event} \ {None}) : v = w

\* No bytes outlive the row: cleanup and deletion leave no file behind that nobody
\* would ever remove, except an empty one of a reservation that lost a race.
NoOrphanBytes ==
    row.status = "none" => \A d \in Directories : files[d] \in {None, <<>>}

\* Every complete upload gets a verdict, without waiting for its expiry, unless its
\* deletion has begun: a failed or crashed finalizeCompletedUpload, scan or lease is
\* taken up again by recoverCompletedUploads and ClaimPendingScans.
Undecided == row.status \in {"uploading", "pending_scan", "scanning"} /\ row.offset = Length
CompleteIsDecided == Undecided /\ ~expired ~> ~Undecided \/ expired \/ doomed

\* An expired upload disappears, unless a download session of it stays for ever: a
\* row whose settlement the control plane never acknowledges keeps the upload out of
\* ExpiredUploads. Removals that stopped half way are taken up by the next pass.
ExpiredIsRemoved == []<>(download # "active") => (expired ~> row.status = "none")

===============================================================================
