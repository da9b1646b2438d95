-------------------------- MODULE StorageUploadProofs --------------------------
(***************************************************************************)
(* Proofs about StorageUpload, for any number of requests, any contents,   *)
(* any length and any number of faults: the mutex map excludes, no         *)
(* acknowledged byte is lost, a verdict is reported, and no bytes outlive  *)
(* their row.                                                              *)
(***************************************************************************)
EXTENDS StorageUpload, SequenceTheorems, TLAPS

-----------------------------------------------------------------------------
(* The inductive invariant. *)

\* A request carries what it has checked; a scan that reached a verdict has a file.
TypeInv ==
    /\ TypeOK
    /\ \A h \in Handlers : patch[h].pc # "idle" => patch[h].offset < Length /\ patch[h].data \in Data
    /\ scan.pc \in {"clean", "blocked", "publish", "discard"} => scan.file \in Directories
    /\ row.status = "uploading" => Len(acked) = row.offset
    /\ reserving = "new" => row.status = "none" /\ acked = <<>>

\* Where a goroutine holds the upload's mutex, and where it has fetched one.
Busy(a) ==
    \/ a \in Handlers /\ patch[a].pc \in {"ready", "written", "recorded", "moved"}
    \/ a = "recoverer" /\ recover = "moved"
    \/ a = "scanner" /\ scan.pc \notin {"idle", "claimed"}
    \/ a \in Removers /\ remove[a] \in {"checked", "removed"}
    \/ a = "reader" /\ download = "opened"

Waits(a) ==
    \/ a \in Handlers /\ patch[a].pc = "checked"
    \/ a = "recoverer" /\ recover = "listed"
    \/ a = "scanner" /\ scan.pc = "claimed"
    \/ a \in Removers /\ remove[a] = "waiting"

Inside == \A a \in Actors : held[a] <=> Busy(a)
Fetched == \A a \in Actors : Busy(a) \/ Waits(a) => mutex[a] \in 0 .. epoch
Exclusive == \A a, b \in Actors : held[a] /\ held[b] /\ a # b => mutex[a] # mutex[b]

\* A mutex leaves the map only after the row is gone, and the row never returns: while
\* there is a row, everybody has the same mutex.
MapOutlivesRow ==
    /\ epoch > 0 => row.status = "none" /\ reserving # "new"
    /\ \A r \in Removers : remove[r] \in {"checked", "removed", "unlocked"} => reserving # "new"
    /\ remove["cleaner"] # "idle" => reserving # "new"
    /\ remove["cleaner"] = "unlocked" => row.status = "none"

LockInv == Inside /\ Fetched /\ Exclusive /\ MapOutlivesRow

\* What the goroutines know of the row.
RowInv ==
    /\ ~issued => /\ row.status \in {"none", "uploading"} /\ row.offset = 0
                  /\ \A h \in Handlers : patch[h].pc = "idle"
                  /\ recover = "idle" /\ scan.pc = "idle"
                  /\ files["tmp"] \in {None, <<>>} /\ files["quarantine"] = None /\ files["objects"] = None
    /\ reserving \in {"new", "inserted"} => ~issued
    /\ \A h \in Handlers :
           /\ patch[h].pc \in {"ready", "written", "recorded", "moved"} => row.status = "uploading"
           /\ patch[h].pc \in {"ready", "written"} => row.offset = patch[h].offset
           /\ patch[h].pc \in {"recorded", "moved"} => row.offset = Length
    /\ recover # "idle" /\ row.status = "uploading" => row.offset = Length
    /\ row.status \in {"pending_scan", "scanning"} => row.path = "quarantine"
    /\ row.status \notin {"none", "uploading"} => row.offset = Length /\ Len(acked) = Length
    /\ row.live => row.status = "scanning"
    /\ scan.pc \notin {"idle", "discard"} =>
           row.status = "none" \/ (row.status = "scanning" /\ row.lease = scan.lease)
    /\ scan.pc \in {"clean", "blocked", "error", "publish", "report"} => row.status = "scanning"
    /\ scan.pc = "discard" => row.status = "blocked"
    /\ scan.pc \in {"claimed", "scanning", "error"} => scan.path = "quarantine"
    /\ scan.pc = "publish" => scan.path = "objects"
    /\ scan.pc = "report" => scan.path \in {"quarantine", "objects"}
    /\ scan.file # "tmp"
    /\ download # "idle" =>
           row.status = "clean" /\ \A r \in Removers : remove[r] \notin {"checked", "removed"}

VerdictInv ==
    /\ row.status \in {"uploading", "pending_scan", "scanning"} \/ reserving = "new" =>
           told = {} /\ event = None
    /\ VerdictIsReported

OrphanInv ==
    /\ \A r \in Removers : remove[r] = "removed" => \A d \in Directories : files[d] \in {None, <<>>}
    /\ NoOrphanBytes

\* Where the acknowledged bytes are: in tmp/ while chunks are missing, then whole in at
\* most three places; a file is missing only when a removal has begun.
UploadingInv ==
    row.status = "uploading" =>
        /\ files["objects"] = None
        /\ row.offset < Length =>
               /\ files["quarantine"] = None
               /\ files["tmp"] # None => /\ Len(files["tmp"]) >= row.offset
                                         /\ SubSeq(files["tmp"], 1, row.offset) = acked
               /\ row.offset > 0 /\ ~doomed => files["tmp"] # None
        /\ row.offset = Length =>
               /\ files["tmp"] \in {None, acked} /\ files["quarantine"] \in {None, acked}
               /\ ~doomed => acked \in {files["tmp"], files["quarantine"]}

StoredInv ==
    /\ row.status \notin {"none", "uploading"} =>
           /\ files["tmp"] = None
           /\ files["quarantine"] \in {None, acked} /\ files["objects"] \in {None, acked}
    /\ row.status \in {"pending_scan", "scanning"} /\ ~doomed =>
           acked \in {files["quarantine"], files["objects"]}
    /\ row.status = "clean" /\ ~doomed => files["objects"] = acked
    /\ row.status = "scanner_error" /\ ~doomed => row.path # None /\ files[row.path] = acked
    /\ download # "idle" => files["objects"] = acked

WorkInv ==
    /\ \A h \in Handlers :
           /\ patch[h].pc = "written" => files["tmp"] = Append(acked, patch[h].data)
           /\ patch[h].pc = "moved" => files["quarantine"] = acked /\ files["tmp"] = None
    /\ recover = "moved" /\ row.status = "uploading" => files["quarantine"] = acked /\ files["tmp"] = None
    /\ scan.pc \in {"scanning", "clean", "error", "blocked"} /\ row.status # "none" =>
           IF scan.file = None THEN doomed ELSE files[scan.file] = acked
    /\ scan.pc = "publish" => files["objects"] = acked
    /\ scan.pc = "report" /\ ~doomed => files[scan.path] = acked

ContentInv == UploadingInv /\ StoredInv /\ WorkInv

-----------------------------------------------------------------------------
(* Contents. *)

\* A file holds at most Length chunks.
LEMMA ContentsAreSequences ==
    ASSUME NEW x
    PROVE  x \in Contents <=> x \in Seq(Data \cup {Torn}) /\ Len(x) <= Length
<1>1. ASSUME x \in Contents PROVE x \in Seq(Data \cup {Torn}) /\ Len(x) <= Length
  <2>1. PICK n \in 0 .. Length : x \in [1 .. n -> Data \cup {Torn}]
    BY <1>1 DEF Contents
  <2> QED
    BY <2>1, StorageUploadAssumption
<1>2. ASSUME x \in Seq(Data \cup {Torn}), Len(x) <= Length PROVE x \in Contents
  <2>1. Len(x) \in 0 .. Length /\ x \in [1 .. Len(x) -> Data \cup {Torn}]
    BY <1>2, LenProperties, StorageUploadAssumption
  <2> QED
    BY <2>1 DEF Contents
<1> QED
  BY <1>1, <1>2

\* Cutting a file off at an offset and writing one chunk behind it.
LEMMA CutAndWrite ==
    ASSUME NEW t \in Contents, NEW o \in Nat, o < Length, o <= Len(t), NEW d \in Data \cup {Torn}
    PROVE  LET cut == SubSeq(t, 1, o)
               chunked == Append(cut, d)
           IN  /\ cut \in Contents /\ Len(cut) = o /\ SubSeq(cut, 1, o) = cut
               /\ chunked \in Contents /\ Len(chunked) = o + 1 /\ SubSeq(chunked, 1, o) = cut
<1> DEFINE cut == SubSeq(t, 1, o)
           chunked == Append(cut, d)
<1>1. t \in Seq(Data \cup {Torn}) /\ Len(t) \in Nat /\ Len(t) <= Length
  BY ContentsAreSequences, LenProperties
<1>2. /\ cut \in Seq(Data \cup {Torn}) /\ Len(cut) = o
      /\ \A i \in 1 .. o : cut[i] = t[i]
  BY <1>1
<1>3. /\ chunked \in Seq(Data \cup {Torn}) /\ Len(chunked) = o + 1
      /\ \A i \in 1 .. o : chunked[i] = cut[i]
  BY <1>2, AppendProperties
<1> HIDE DEF cut, chunked
<1>4. \A s \in Seq(Data \cup {Torn}) : Len(s) >= o =>
          /\ SubSeq(s, 1, o) \in Seq(Data \cup {Torn}) /\ Len(SubSeq(s, 1, o)) = o
          /\ \A i \in 1 .. o : SubSeq(s, 1, o)[i] = s[i]
  OBVIOUS
<1>5. SubSeq(cut, 1, o) = cut
  BY <1>2, <1>4, SeqEqual
<1>6. SubSeq(chunked, 1, o) = cut
  BY <1>2, <1>3, <1>4, SeqEqual
<1>7. cut \in Contents /\ chunked \in Contents
  BY <1>2, <1>3, ContentsAreSequences, StorageUploadAssumption
<1> QED
  BY <1>2, <1>3, <1>5, <1>6, <1>7 DEF cut, chunked

LEMMA EmptyTypes ==
    /\ NoRow \in Rows /\ NewRow \in Rows /\ NoFiles \in [Directories -> Contents \cup {None}]
    /\ IdlePatch \in Patches /\ IdleScan \in Scans
    /\ <<>> \in Contents /\ Len(<<>>) = 0
<1>1. <<>> \in Seq(Data \cup {Torn}) /\ Len(<<>>) = 0
  OBVIOUS
<1>2. <<>> \in Contents
  <2> DEFINE e == <<>>
  <2>1. e \in Seq(Data \cup {Torn}) /\ Len(e) <= Length
    BY <1>1, StorageUploadAssumption
  <2> HIDE DEF e
  <2>2. e \in Contents
    BY <2>1, ContentsAreSequences
  <2> QED
    BY <2>2 DEF e
<1>3. NoRow \in Rows
  BY StorageUploadAssumption DEF NoRow, Rows, UploadStatus
<1>4. NewRow \in Rows
  BY <1>3 DEF NewRow, Rows, UploadStatus, Directories
<1>5. IdlePatch \in Patches /\ IdleScan \in Scans
  BY StorageUploadAssumption DEF IdlePatch, IdleScan, Patches, Scans
<1>6. NoFiles \in [Directories -> Contents \cup {None}]
  BY DEF NoFiles
<1> QED
  BY <1>1, <1>2, <1>3, <1>4, <1>5, <1>6

LEMMA InitTypes == Init => TypeInv
<1> SUFFICES ASSUME Init PROVE TypeInv
  OBVIOUS
<1>1. TypeOK
  <2>1. acked \in Contents
    BY EmptyTypes DEF Init
  <2>2. row \in Rows /\ files \in [Directories -> Contents \cup {None}] /\ scan \in Scans
    BY EmptyTypes DEF Init
  <2>3. patch \in [Handlers -> Patches]
    BY EmptyTypes DEF Init
  <2>4. /\ remove \in [Removers -> {"idle", "waiting", "checked", "removed", "unlocked"}]
        /\ mutex \in [Actors -> Nat \cup {None}] /\ held \in [Actors -> BOOLEAN]
    BY DEF Init
  <2>5. faults \in 0 .. MaxFaults /\ epoch \in Nat
    BY StorageUploadAssumption DEF Init
  <2> QED
    BY <2>1, <2>2, <2>3, <2>4, <2>5 DEF Init, TypeOK
<1>2. row.status = "none" /\ scan.pc = "idle" /\ \A h \in Handlers : patch[h].pc = "idle"
  BY DEF Init, NoRow, IdleScan, IdlePatch
<1> QED
  BY <1>1, <1>2 DEF Init, TypeInv

-----------------------------------------------------------------------------
(* Types. *)

Carried(p) == p.pc # "idle" => p.offset < Length /\ p.data \in Data

LEMMA FaultType == TypeOK /\ Fault => faults' \in 0 .. MaxFaults
BY StorageUploadAssumption DEF TypeOK, Fault

LEMMA LockTypes ==
    ASSUME TypeOK, NEW a \in Actors, Fetch(a) \/ Lock(a) \/ Leave(a) \/ UNCHANGED lockVars
    PROVE  mutex' \in [Actors -> Nat \cup {None}] /\ held' \in [Actors -> BOOLEAN] /\ epoch' \in Nat
BY DEF TypeOK, Fetch, Lock, Leave, lockVars

LEMMA PatchTypes ==
    ASSUME TypeInv, NEW h \in Handlers, NEW pc \in {"ready", "written", "recorded", "moved"},
           EndPatch(h) \/ (patch[h].pc # "idle" /\ PatchAs(h, pc))
    PROVE  patch' \in [Handlers -> Patches] /\ \A g \in Handlers : Carried(patch'[g])
<1>1. patch \in [Handlers -> Patches] /\ \A g \in Handlers : Carried(patch[g])
  BY DEF TypeInv, TypeOK, Carried
<1>2. CASE EndPatch(h)
  <2>1. IdlePatch \in Patches /\ IdlePatch.pc = "idle"
    BY EmptyTypes DEF IdlePatch
  <2> QED
    BY <1>1, <1>2, <2>1 DEF EndPatch, Carried
<1>3. CASE patch[h].pc # "idle" /\ PatchAs(h, pc)
  <2>1. patch' = [patch EXCEPT ![h] = [patch[h] EXCEPT !.pc = pc]]
    BY <1>1, <1>3 DEF PatchAs
  <2>2. [patch[h] EXCEPT !.pc = pc] \in Patches /\ Carried([patch[h] EXCEPT !.pc = pc])
    BY <1>1, <1>3 DEF Patches, Carried
  <2> QED
    BY <1>1, <2>1, <2>2
<1> QED
  BY <1>2, <1>3

LEMMA RowTypes ==
    ASSUME TypeOK
    PROVE  PendingRow \in Rows /\ ReleasedRow \in Rows
<1>1. row \in Rows
  BY DEF TypeOK
<1>2. /\ [row EXCEPT !.status = "pending_scan", !.path = "quarantine", !.lease = None, !.live = FALSE] \in Rows
      /\ [row EXCEPT !.status = "pending_scan", !.lease = None, !.live = FALSE] \in Rows
  BY <1>1 DEF Rows, UploadStatus, Directories
<1> QED
  BY <1>1, <1>2 DEF PendingRow, ReleasedRow

\* The files are those the type says whatever a step moves, cuts or removes.
LEMMA FileTypes ==
    ASSUME TypeOK
    PROVE  /\ \A d \in Directories : [files EXCEPT ![d] = None] \in [Directories -> Contents \cup {None}]
           /\ \A d, e \in Directories : Move(d, e) \in [Directories -> Contents \cup {None}]
           /\ Quarantined \in [Directories -> Contents \cup {None}]
           /\ \A c \in Contents : [files EXCEPT !["tmp"] = c] \in [Directories -> Contents \cup {None}]
           /\ \A gone \in SUBSET Directories :
                  [d \in Directories |-> IF d \in gone THEN None ELSE files[d]] \in [Directories -> Contents \cup {None}]
BY DEF TypeOK, Move, Quarantined, Directories

LEMMA ReserveTypes == ASSUME TypeInv, ReserveStep PROVE TypeInv'
<1> USE DEF clockVars, lockVars, outboxVars, ghostVars
<1>1. CASE ReserveInsert
  <2>1. NewRow \in Rows /\ NewRow.status = "uploading" /\ NewRow.offset = 0
    BY EmptyTypes DEF NewRow, NoRow
  <2> QED
    BY <1>1, <2>1, EmptyTypes DEF ReserveInsert, TypeInv, TypeOK
<1>2. CASE ReserveCreateFile
  <2>1. files' \in [Directories -> Contents \cup {None}]
    BY <1>2, FileTypes, EmptyTypes DEF ReserveCreateFile, TypeInv
  <2> QED
    BY <1>2, <2>1 DEF ReserveCreateFile, TypeInv, TypeOK
<1>3. CASE ReserveFails
  <2>0. NoRow.status = "none"
    BY DEF NoRow
  <2>1. row' \in Rows /\ (row'.status = "uploading" => row' = row)
    BY <1>3, <2>0, EmptyTypes DEF ReserveFails, TypeInv, TypeOK
  <2> QED
    BY <1>3, <2>1, FaultType DEF ReserveFails, TypeInv, TypeOK
<1> QED
  BY <1>1, <1>2, <1>3 DEF ReserveStep

\* What is being recorded stands in the file behind the acknowledged chunks.
LEMMA WrittenFile ==
    ASSUME TypeInv, RowInv, WorkInv, NEW h \in Handlers, patch[h].pc = "written"
    PROVE  /\ files["tmp"] \in Contents /\ Len(files["tmp"]) = patch[h].offset + 1
           /\ patch[h].offset \in Nat /\ patch[h].offset < Length
           /\ SubSeq(files["tmp"], 1, patch[h].offset) = acked
<1>1. /\ row.status = "uploading" /\ row.offset = patch[h].offset /\ Len(acked) = row.offset
      /\ patch[h].data \in Data /\ row.offset \in Nat /\ patch[h].offset < Length
      /\ files["tmp"] = Append(acked, patch[h].data) /\ acked \in Contents
  BY DEF TypeInv, TypeOK, RowInv, WorkInv, Rows
<1>2. acked \in Seq(Data \cup {Torn})
  BY <1>1, ContentsAreSequences
<1>3. SubSeq(acked, 1, Len(acked)) = acked
  BY <1>2, SubSeqFull
<1>4. LET o == row.offset
          c == Append(SubSeq(acked, 1, o), patch[h].data)
      IN  c \in Contents /\ Len(c) = o + 1 /\ SubSeq(c, 1, o) = SubSeq(acked, 1, o)
  <2>1. row.offset <= Len(acked) /\ row.offset < Length /\ patch[h].data \in Data \cup {Torn}
    BY <1>1
  <2> QED
    BY <1>1, <2>1, CutAndWrite
<1> QED
  BY <1>1, <1>3, <1>4

LEMMA PatchStepTypes ==
    ASSUME TypeInv, RowInv, WorkInv, NEW h \in Handlers, PatchStep(h)
    PROVE  TypeInv'
<1> USE DEF fileVars, clockVars, reserveVars, outboxVars, ghostVars
<1>a. h \in Actors
  BY DEF Actors
<1>t. TypeOK /\ \A g \in Handlers : Carried(patch[g])
  BY DEF TypeInv, Carried
<1>p. ASSUME patch' \in [Handlers -> Patches], \A g \in Handlers : Carried(patch'[g]),
             row' \in Rows, row'.status = "uploading" => Len(acked') = row'.offset, acked' \in Contents,
             reserving = "new" => row'.status = "none" /\ acked' = acked,
             files' \in [Directories -> Contents \cup {None}], faults' \in 0 .. MaxFaults,
             mutex' \in [Actors -> Nat \cup {None}] /\ held' \in [Actors -> BOOLEAN] /\ epoch' \in Nat,
             UNCHANGED <<expired, download, reserving, issued, recover, scan, remove, event, told, doomed>>
      PROVE  TypeInv'
  BY <1>p, <1>t DEF TypeInv, TypeOK, Carried
<1>q. ASSUME patch' \in [Handlers -> Patches], \A g \in Handlers : Carried(patch'[g]),
             files' \in [Directories -> Contents \cup {None}], faults' \in 0 .. MaxFaults,
             mutex' \in [Actors -> Nat \cup {None}] /\ held' \in [Actors -> BOOLEAN] /\ epoch' \in Nat,
             UNCHANGED <<row, acked, expired, download, reserving, issued, recover, scan, remove, event, told, doomed>>
      PROVE  TypeInv'
  BY <1>q, <1>t DEF TypeInv, TypeOK, Carried
<1>f. TypeOK => faults \in 0 .. MaxFaults /\ files \in [Directories -> Contents \cup {None}]
  BY DEF TypeOK
<1>1. ASSUME NEW d \in Data, PatchCheck(h, d) PROVE TypeInv'
  <2> DEFINE p == [pc |-> "checked", offset |-> row.offset, data |-> d]
  <2>1. p \in Patches /\ Carried(p)
    BY <1>1, <1>t DEF PatchCheck, Writable, TypeOK, Rows, Patches, Carried
  <2>2. patch' = [patch EXCEPT ![h] = p]
    BY <1>1 DEF PatchCheck
  <2> HIDE DEF p
  <2>3. patch' \in [Handlers -> Patches] /\ \A g \in Handlers : Carried(patch'[g])
    BY <1>t, <2>1, <2>2 DEF TypeOK
  <2> QED
    BY <1>1, <1>a, <1>f, <1>q, <1>t, <2>3, LockTypes DEF PatchCheck
<1>2. CASE PatchEnter(h)
  BY <1>2, <1>a, <1>f, <1>q, <1>t, LockTypes, PatchTypes DEF PatchEnter
<1>3. CASE PatchRefused(h)
  BY <1>3, <1>a, <1>f, <1>q, <1>t, LockTypes, PatchTypes DEF PatchRefused, EndPatch
<1>w. ASSUME patch[h].pc = "ready", Appendable(h), NEW d \in Data \cup {Torn}
      PROVE  Chunked(h, d) \in Contents
  <2>1. patch[h].offset \in Nat /\ patch[h].offset < Length /\ files["tmp"] \in Contents
    BY <1>t, <1>w DEF Appendable, TypeOK, Patches, Carried, Directories
  <2> QED
    BY <1>w, <2>1, CutAndWrite DEF Appendable, Chunked
<1>4. CASE PatchWrite(h)
  <2>1. patch[h].data \in Data
    BY <1>4, <1>t DEF PatchWrite, Carried
  <2>2. files' \in [Directories -> Contents \cup {None}]
    BY <1>4, <1>t, <1>w, <2>1, FileTypes DEF PatchWrite
  <2> QED
    BY <1>4, <1>a, <1>f, <1>q, <1>t, <2>2, LockTypes, PatchTypes DEF PatchWrite
<1>5. CASE PatchWriteFails(h)
  <2>1. files' \in [Directories -> Contents \cup {None}]
    BY <1>5, <1>f, <1>t, <1>w, FileTypes DEF PatchWriteFails
  <2>2. faults' \in 0 .. MaxFaults
    BY <1>5, <1>f, <1>t, FaultType DEF PatchWriteFails
  <2> QED
    BY <1>5, <1>a, <1>q, <1>t, <2>1, <2>2, LockTypes, PatchTypes DEF PatchWriteFails, EndPatch
<1>6. CASE PatchRecord(h)
  <2>1. /\ row.offset = patch[h].offset /\ row.offset \in Nat /\ row.offset < Length
        /\ row.status = "uploading" /\ Len(acked) = row.offset /\ patch[h].data \in Data
    BY <1>6, <1>t DEF PatchRecord, OffsetMatches, TypeInv, TypeOK, Rows, Carried
  <2>2. row' \in Rows /\ row'.offset = row.offset + 1 /\ row'.status = "uploading"
    <3>1. row.offset + 1 \in 0 .. Length
      BY <2>1, StorageUploadAssumption
    <3>2. row' = [row EXCEPT !.offset = row.offset + 1]
      BY <1>6, <1>t DEF PatchRecord, TypeOK, Rows
    <3> QED
      BY <1>t, <2>1, <3>1, <3>2 DEF TypeOK, Rows
  <2>3. acked' \in Contents /\ Len(acked') = Len(acked) + 1
    <3>1. acked \in Seq(Data \cup {Torn})
      BY <1>t, ContentsAreSequences DEF TypeOK
    <3>2. acked' \in Seq(Data \cup {Torn}) /\ Len(acked') = Len(acked) + 1
      BY <1>6, <2>1, <3>1, AppendProperties DEF PatchRecord
    <3> QED
      BY <2>1, <3>2, ContentsAreSequences, StorageUploadAssumption
  <2>4. patch' \in [Handlers -> Patches] /\ \A g \in Handlers : Carried(patch'[g])
    BY <1>6, <1>t, PatchTypes DEF PatchRecord
  <2>5. mutex' \in [Actors -> Nat \cup {None}] /\ held' \in [Actors -> BOOLEAN] /\ epoch' \in Nat
    BY <1>6, <1>t, <1>a, LockTypes DEF PatchRecord, EndPatch
  <2>6. reserving # "new"
    BY <2>1 DEF TypeInv
  <2> QED
    BY <1>6, <1>f, <1>p, <1>t, <2>1, <2>2, <2>3, <2>4, <2>5, <2>6 DEF PatchRecord
<1>7. CASE PatchUnrecorded(h)
  <2>1. SubSeq(files["tmp"], 1, patch[h].offset) \in Contents
    BY <1>7, <1>t, WrittenFile DEF PatchUnrecorded, TypeOK
  <2>2. files' \in [Directories -> Contents \cup {None}]
    BY <1>7, <1>f, <1>t, <2>1, FileTypes DEF PatchUnrecorded
  <2> QED
    BY <1>7, <1>a, <1>q, <1>t, <2>2, FaultType, LockTypes, PatchTypes DEF PatchUnrecorded, EndPatch
<1>8. CASE PatchQuarantine(h)
  BY <1>8, <1>a, <1>f, <1>q, <1>t, FileTypes, LockTypes, PatchTypes DEF PatchQuarantine
<1>9. CASE PatchMarkPending(h)
  <2>1. /\ row' \in Rows /\ (row'.status = "uploading" => row' = row)
        /\ (row.status = "none" => row'.status = "none")
    BY <1>9, <1>t, RowTypes DEF PatchMarkPending, PendingRow, TypeOK, Rows
  <2>2. acked \in Contents
    BY <1>t DEF TypeOK
  <2> QED
    BY <1>9, <1>a, <1>f, <1>p, <1>t, <2>1, <2>2, LockTypes, PatchTypes DEF PatchMarkPending, EndPatch, TypeInv
<1>10. CASE PatchIsolationFails(h)
  <2>1. faults' \in 0 .. MaxFaults
    BY <1>10, <1>f, <1>t, FaultType DEF PatchIsolationFails
  <2> QED
    BY <1>10, <1>a, <1>f, <1>q, <1>t, <2>1, LockTypes, PatchTypes DEF PatchIsolationFails, EndPatch
<1> QED
  BY <1>1, <1>2, <1>3, <1>4, <1>5, <1>6, <1>7, <1>8, <1>9, <1>10 DEF PatchStep

LEMMA RecoverStepTypes == ASSUME TypeInv, RecoverStep PROVE TypeInv'
<1> USE DEF fileVars, clockVars, reserveVars, outboxVars, ghostVars
<1>a. "recoverer" \in Actors
  BY DEF Actors
<1>t. TypeOK
  BY DEF TypeInv
<1>l. Fetch("recoverer") \/ Lock("recoverer") \/ Leave("recoverer") =>
          mutex' \in [Actors -> Nat \cup {None}] /\ held' \in [Actors -> BOOLEAN] /\ epoch' \in Nat
  BY <1>a, <1>t, LockTypes
<1>1. CASE RecoverList
  BY <1>1, <1>l DEF RecoverList, TypeInv, TypeOK
<1>2. CASE RecoverQuarantine
  <2>1. files' \in [Directories -> Contents \cup {None}]
    BY <1>2, <1>t, FileTypes DEF RecoverQuarantine
  <2> QED
    BY <1>2, <1>l, <2>1 DEF RecoverQuarantine, TypeInv, TypeOK
<1>3. CASE RecoverMarkPending
  <2>1. /\ row' \in Rows /\ (row'.status = "uploading" => row' = row)
        /\ (row.status = "none" => row'.status = "none")
    BY <1>3, <1>t, RowTypes DEF RecoverMarkPending, PendingRow, TypeOK, Rows
  <2> QED
    BY <1>3, <1>l, <2>1 DEF RecoverMarkPending, TypeInv, TypeOK
<1>4. CASE RecoverFails
  <2>1. faults' \in 0 .. MaxFaults
    BY <1>4, <1>t, FaultType DEF RecoverFails, TypeOK
  <2> QED
    BY <1>4, <1>l, <2>1 DEF RecoverFails, TypeInv, TypeOK
<1> QED
  BY <1>1, <1>2, <1>3, <1>4 DEF RecoverStep

LEMMA ScanStepTypes == ASSUME TypeInv, ScanStep PROVE TypeInv'
<1> USE DEF fileVars, clockVars, reserveVars, outboxVars, ghostVars
<1>a. "scanner" \in Actors
  BY DEF Actors
<1>t. TypeOK /\ row \in Rows /\ scan \in Scans
  BY DEF TypeInv, TypeOK
<1>l. Fetch("scanner") \/ Lock("scanner") \/ Leave("scanner") \/ UNCHANGED lockVars =>
          mutex' \in [Actors -> Nat \cup {None}] /\ held' \in [Actors -> BOOLEAN] /\ epoch' \in Nat
  BY <1>a, <1>t, LockTypes
<1>e. IdleScan \in Scans /\ IdleScan.pc = "idle"
  BY EmptyTypes DEF IdleScan
<1>s. ASSUME scan' \in Scans, scan'.pc \in {"clean", "blocked", "publish", "discard"} => scan'.file \in Directories,
             row' \in Rows, row'.status # "uploading" \/ row' = row, row.status = "none" => row'.status = "none",
             files' \in [Directories -> Contents \cup {None}], faults' \in 0 .. MaxFaults,
             mutex' \in [Actors -> Nat \cup {None}] /\ held' \in [Actors -> BOOLEAN] /\ epoch' \in Nat,
             event' \in Verdicts \cup {None},
             UNCHANGED <<expired, download, reserving, issued, patch, recover, remove, told, acked, doomed>>
      PROVE  TypeInv'
  BY <1>s DEF TypeInv, TypeOK
<1>f. /\ faults \in 0 .. MaxFaults /\ files \in [Directories -> Contents \cup {None}]
      /\ event \in Verdicts \cup {None}
  BY <1>t DEF TypeOK
<1>1. ASSUME NEW l \in Leases, ClaimPendingScans(l) PROVE TypeInv'
  <2>1. row' \in Rows /\ row'.status = "scanning" /\ row.status # "none"
    BY <1>1, <1>t DEF ClaimPendingScans, Claimable, Rows, UploadStatus
  <2>2. scan' \in Scans /\ scan'.pc = "claimed"
    BY <1>1, <1>t, <1>e DEF ClaimPendingScans, Scans, Rows
  <2> QED
    BY <1>1, <1>f, <1>l, <1>s, <2>1, <2>2 DEF ClaimPendingScans
<1>2. CASE ScanStart
  <2>1. ScanPath \in Directories \cup {None}
    BY <1>t DEF ScanPath, Scans, Directories
  <2>2. scan' \in Scans /\ scan'.pc = "scanning"
    BY <1>2, <1>t, <2>1 DEF ScanStart, Scans
  <2> QED
    BY <1>2, <1>f, <1>l, <1>s, <1>t, <2>2 DEF ScanStart
<1>3. CASE ScanReleases
  <2>1. row' \in Rows /\ (row'.status # "uploading" \/ row' = row) /\ (row.status = "none" => row'.status = "none")
    BY <1>3, <1>t, RowTypes DEF ScanReleases, ReleasedRow, Rows
  <2>2. faults' \in 0 .. MaxFaults
    BY <1>3, <1>t, <1>f, FaultType DEF ScanReleases
  <2> QED
    BY <1>3, <1>e, <1>f, <1>l, <1>s, <2>1, <2>2 DEF ScanReleases, EndScan
<1>4. CASE ScanPromote
  <2>1. scan.file \in Directories /\ "objects" \in Directories
    BY <1>4 DEF ScanPromote, TypeInv, Directories
  <2>2. files' \in [Directories -> Contents \cup {None}]
    BY <1>4, <1>f, <1>t, <2>1, FileTypes DEF ScanPromote
  <2>3. scan' \in Scans /\ scan'.pc = "publish" /\ scan'.file = scan.file
    BY <1>4, <1>t, <2>1 DEF ScanPromote, Scans
  <2> QED
    BY <1>4, <1>f, <1>l, <1>s, <1>t, <2>1, <2>2, <2>3 DEF ScanPromote
<1>5. CASE ScanQuarantine
  <2> DEFINE current == IF scan.file = None THEN scan.path ELSE scan.file
  <2>1. current \in Directories \cup {None} /\ "quarantine" \in Directories
    BY <1>t DEF Scans, Directories
  <2>2. \/ /\ files' = IF current \in {None, "quarantine"} \/ files[current] = None
                       THEN files ELSE Move(current, "quarantine")
           /\ scan' = [scan EXCEPT !.pc = "report", !.path = "quarantine"]
           /\ UNCHANGED faults
        \/ /\ current \notin {None, "quarantine"} /\ files[current] # None /\ Fault
           /\ scan' = [scan EXCEPT !.pc = "report", !.path = current]
           /\ UNCHANGED files
    BY <1>5 DEF ScanQuarantine
  <2> HIDE DEF current
  <2>3. files' \in [Directories -> Contents \cup {None}]
    BY <1>f, <1>t, <2>1, <2>2, FileTypes
  <2>4. scan' \in Scans /\ scan'.pc = "report"
    BY <1>t, <2>1, <2>2 DEF Scans
  <2>5. faults' \in 0 .. MaxFaults
    BY <1>f, <1>t, <2>2, FaultType
  <2> QED
    BY <1>5, <1>f, <1>l, <1>s, <1>t, <2>3, <2>4, <2>5 DEF ScanQuarantine
<1>6. CASE CompleteScan
  <2>1. row' \in Rows /\ row'.status # "uploading" /\ row.status # "none"
    BY <1>6, <1>t DEF CompleteScan, HoldsLease, FinalStatus, Rows, Scans, UploadStatus
  <2>2. event' \in Verdicts \cup {None}
    BY <1>6 DEF CompleteScan, VerdictOf, Verdicts
  <2>3. CASE scan.pc = "blocked"
    <3>1. scan' \in Scans /\ scan'.pc = "discard" /\ scan'.file = scan.file /\ scan.file \in Directories
      BY <1>6, <1>t, <2>3 DEF CompleteScan, ScanAs, Scans, TypeInv
    <3> QED
      BY <1>6, <1>f, <1>l, <1>s, <2>1, <2>2, <2>3, <3>1 DEF CompleteScan
  <2>4. CASE scan.pc # "blocked"
    BY <1>6, <1>e, <1>f, <1>l, <1>s, <2>1, <2>2, <2>4 DEF CompleteScan, EndScan
  <2> QED
    BY <2>3, <2>4
<1>7. CASE ScanDiscard
  <2>1. files' \in [Directories -> Contents \cup {None}]
    BY <1>7, <1>f, <1>t, FileTypes DEF ScanDiscard, TypeInv
  <2>2. faults' \in 0 .. MaxFaults
    BY <1>7, <1>t, <1>f, FaultType DEF ScanDiscard
  <2> QED
    BY <1>7, <1>e, <1>f, <1>l, <1>s, <1>t, <2>1, <2>2 DEF ScanDiscard, EndScan
<1>8. ASSUME NEW pc \in {"clean", "blocked", "error"}, ScanEnds(pc) PROVE TypeInv'
  <2>1. scan' \in Scans /\ scan'.pc = pc /\ scan'.file = scan.file
    BY <1>8, <1>t DEF ScanEnds, ScanAs, Scans
  <2>2. pc # "error" => scan.file \in Directories
    BY <1>8, <1>t DEF ScanEnds, Scans
  <2> QED
    BY <1>8, <1>f, <1>l, <1>s, <1>t, <2>1, <2>2 DEF ScanEnds
<1> QED
  BY <1>1, <1>2, <1>3, <1>4, <1>5, <1>6, <1>7, <1>8 DEF ScanStep

LEMMA RemoveStepTypes == ASSUME TypeInv, NEW r \in Removers, RemoveStep(r) PROVE TypeInv'
<1> USE DEF fileVars, clockVars, reserveVars, outboxVars, ghostVars
<1>a. r \in Actors
  BY DEF Actors
<1>t. TypeOK
  BY DEF TypeInv
<1>l. Fetch(r) \/ Lock(r) \/ Leave(r) \/ UNCHANGED lockVars =>
          mutex' \in [Actors -> Nat \cup {None}] /\ held' \in [Actors -> BOOLEAN] /\ epoch' \in Nat
  BY <1>a, <1>t, LockTypes
<1>r. \A pc \in {"idle", "waiting", "checked", "removed", "unlocked"} : RemoveAs(r, pc) =>
          remove' \in [Removers -> {"idle", "waiting", "checked", "removed", "unlocked"}]
  BY <1>t DEF RemoveAs, TypeOK
<1>1. CASE StartRemoval(r) \/ EnterRemoval(r) \/ SkipRemoval(r)
  <2>1. /\ mutex' \in [Actors -> Nat \cup {None}] /\ held' \in [Actors -> BOOLEAN] /\ epoch' \in Nat
        /\ remove' \in [Removers -> {"idle", "waiting", "checked", "removed", "unlocked"}]
        /\ UNCHANGED <<row, files, expired, download, reserving, issued, patch, recover, scan, event, told,
                       acked, doomed, faults>>
    BY <1>1, <1>l, <1>r DEF StartRemoval, EnterRemoval, SkipRemoval, LockAndLeave
  <2> QED
    BY <2>1 DEF TypeInv, TypeOK
<1>2. CASE RemoveFiles(r)
  <2>1. files' \in [Directories -> Contents \cup {None}]
    BY <1>2, EmptyTypes DEF RemoveFiles, RemainingFiles
  <2> QED
    BY <1>2, <1>l, <1>r, <2>1 DEF RemoveFiles, TypeInv, TypeOK
<1>3. CASE RemovalFails(r)
  <2>1. PICK gone \in SUBSET Directories :
            /\ files' = [d \in Directories |-> IF d \in gone THEN None ELSE files[d]]
            /\ doomed' = (doomed \/ gone # {})
    BY <1>3 DEF RemovalFails, Directories
  <2>2. files' \in [Directories -> Contents \cup {None}]
    BY <1>t, <2>1, FileTypes
  <2>3. doomed' \in BOOLEAN
    BY <1>t, <2>1 DEF TypeOK
  <2>4. faults' \in 0 .. MaxFaults
    BY <1>3, <1>t, FaultType DEF RemovalFails
  <2>5. /\ mutex' \in [Actors -> Nat \cup {None}] /\ held' \in [Actors -> BOOLEAN] /\ epoch' \in Nat
        /\ remove' \in [Removers -> {"idle", "waiting", "checked", "removed", "unlocked"}]
    BY <1>3, <1>l, <1>r DEF RemovalFails, LeaveFailed
  <2> QED
    BY <1>3, <2>2, <2>3, <2>4, <2>5 DEF RemovalFails, TypeInv, TypeOK
<1>4. CASE DeleteRow(r)
  <2>1. NoRow \in Rows /\ NoRow.status = "none"
    BY EmptyTypes DEF NoRow
  <2>2. remove' \in [Removers -> {"idle", "waiting", "checked", "removed", "unlocked"}]
    BY <1>4, <1>r DEF DeleteRow
  <2>3. mutex' \in [Actors -> Nat \cup {None}] /\ held' \in [Actors -> BOOLEAN] /\ epoch' \in Nat
    BY <1>4, <1>t, <1>a DEF DeleteRow, TypeOK
  <2> QED
    BY <1>4, <2>1, <2>2, <2>3 DEF DeleteRow, TypeInv, TypeOK
<1> QED
  BY <1>1, <1>2, <1>3, <1>4 DEF RemoveStep

\* Leases, the outbox, downloads, the clock and crashes.
EnvironmentStep ==
    \/ LeaseLapses \/ DeliverEvent \/ AckEvent \/ DropLock
    \/ OpenObject \/ PrepareSession \/ EndSession \/ Expire \/ Crash

LEMMA EnvironmentTypes == ASSUME TypeInv, EnvironmentStep PROVE TypeInv'
<1> USE DEF fileVars, reserveVars, lockVars, outboxVars, ghostVars
<1>t. TypeOK
  BY DEF TypeInv
<1>1. CASE LeaseLapses
  <2>1. row' \in Rows /\ row'.status = row.status /\ row'.offset = row.offset
    BY <1>1, <1>t DEF LeaseLapses, TypeOK, Rows
  <2>2. faults' \in 0 .. MaxFaults
    BY <1>1, <1>t, FaultType DEF LeaseLapses, TypeOK
  <2> QED
    BY <1>1, <2>1, <2>2 DEF LeaseLapses, TypeInv, TypeOK, clockVars
<1>2. CASE DeliverEvent \/ AckEvent
  BY <1>2 DEF DeliverEvent, AckEvent, TypeInv, TypeOK, clockVars
<1>3. CASE DropLock
  <2>1. remove' \in [Removers -> {"idle", "waiting", "checked", "removed", "unlocked"}]
    BY <1>3, <1>t DEF DropLock, RemoveAs, TypeOK, Removers
  <2> QED
    BY <1>3, <2>1 DEF DropLock, TypeInv, TypeOK, clockVars
<1>4. CASE OpenObject
  <2>1. mutex' \in [Actors -> Nat \cup {None}] /\ held' \in [Actors -> BOOLEAN]
    BY <1>4, <1>t DEF OpenObject, TypeOK
  <2> QED
    BY <1>4, <2>1 DEF OpenObject, TypeInv, TypeOK
<1>5. CASE PrepareSession
  <2>1. mutex' \in [Actors -> Nat \cup {None}] /\ held' \in [Actors -> BOOLEAN]
    BY <1>5, <1>t DEF PrepareSession, Leave, TypeOK
  <2> QED
    BY <1>5, <2>1 DEF PrepareSession, Leave, TypeInv, TypeOK
<1>6. CASE EndSession \/ Expire
  BY ZenonT(40), <1>6 DEF EndSession, Expire, TypeInv, TypeOK
<1>7. CASE Crash
  <2>1. /\ patch' \in [Handlers -> Patches] /\ \A h \in Handlers : patch'[h].pc = "idle"
        /\ scan' \in Scans /\ scan'.pc = "idle"
    BY <1>7, EmptyTypes DEF Crash, IdlePatch, IdleScan
  <2>2. /\ remove' \in [Removers -> {"idle", "waiting", "checked", "removed", "unlocked"}]
        /\ mutex' \in [Actors -> Nat \cup {None}] /\ held' \in [Actors -> BOOLEAN] /\ epoch' \in Nat
        /\ reserving' \in {"new", "idle"} /\ (reserving' = "new" => reserving = "new")
        /\ download' \in {"idle", "opened", "active"} /\ recover' = "idle"
    BY <1>7, <1>t DEF Crash, TypeOK
  <2>3. faults' \in 0 .. MaxFaults
    BY <1>7, <1>t, FaultType DEF Crash
  <2> QED
    BY <1>7, <2>1, <2>2, <2>3 DEF Crash, TypeInv, TypeOK
<1> QED
  BY <1>1, <1>2, <1>3, <1>4, <1>5, <1>6, <1>7 DEF EnvironmentStep

LEMMA NextTypes ==
    ASSUME TypeInv, RowInv, WorkInv, [Next]_vars
    PROVE  TypeInv'
<1>1. CASE UNCHANGED vars
  BY <1>1 DEF vars, TypeInv, TypeOK
<1> QED
  BY <1>1, ReserveTypes, PatchStepTypes, RecoverStepTypes, ScanStepTypes, RemoveStepTypes, EnvironmentTypes
     DEF Next, EnvironmentStep

-----------------------------------------------------------------------------
(* Locks. *)

LEMMA ActorsAreDistinct ==
    /\ "recoverer" \in Actors /\ "scanner" \in Actors /\ "reader" \in Actors
    /\ Handlers \subseteq Actors /\ Removers \subseteq Actors
    /\ \A h \in Handlers : h \notin Removers \cup {"recoverer", "scanner", "reader"}
BY StorageUploadAssumption DEF Actors, Removers

\* While there is a row, one goroutine at most holds a mutex.
LEMMA Alone ==
    ASSUME TypeOK, LockInv, row.status # "none", NEW a \in Actors, NEW b \in Actors, Busy(a), Busy(b)
    PROVE  a = b
<1>1. epoch = 0
  BY DEF TypeOK, LockInv, MapOutlivesRow
<1>2. held[a] /\ held[b] /\ mutex[a] = 0 /\ mutex[b] = 0
  BY <1>1 DEF LockInv, Inside, Fetched
<1> QED
  BY <1>2 DEF LockInv, Exclusive

\* Who locks while there is a row finds nobody at work.
LEMMA LockFindsNobody ==
    ASSUME TypeOK, LockInv, row.status # "none", NEW a \in Actors, Waits(a), LockFree(a)
    PROVE  \A b \in Actors : ~Busy(b)
<1>1. epoch = 0
  BY DEF TypeOK, LockInv, MapOutlivesRow
<1>2. mutex[a] = 0 /\ \A b \in Actors : Busy(b) => held[b] /\ mutex[b] = 0
  BY <1>1 DEF LockInv, Inside, Fetched
<1> QED
  BY <1>2 DEF LockFree

\* One goroutine fetches, locks, works on or leaves; the others stay where they are.
LEMMA OneActorMoves ==
    ASSUME TypeOK, LockInv, NEW a \in Actors,
           \A b \in Actors \ {a} : (Busy(b)' <=> Busy(b)) /\ (Waits(b)' <=> Waits(b)),
           \/ Fetch(a) /\ ~Busy(a) /\ ~Busy(a)'
           \/ Lock(a) /\ Waits(a) /\ Busy(a)'
           \/ UNCHANGED lockVars /\ (Busy(a)' <=> Busy(a)) /\ (Waits(a)' => Busy(a) \/ Waits(a))
           \/ Leave(a) /\ ~Busy(a)' /\ ~Waits(a)'
    PROVE  Inside' /\ Fetched' /\ Exclusive' /\ epoch' = epoch
<1>t. held \in [Actors -> BOOLEAN] /\ mutex \in [Actors -> Nat \cup {None}] /\ epoch \in Nat
  BY DEF TypeOK
<1>1. CASE Fetch(a) /\ ~Busy(a) /\ ~Busy(a)'
  BY <1>1, <1>t DEF Fetch, LockInv, Inside, Fetched, Exclusive
<1>2. CASE Lock(a) /\ Waits(a) /\ Busy(a)'
  <2>1. /\ held' = [held EXCEPT ![a] = TRUE] /\ UNCHANGED <<mutex, epoch>>
        /\ \A b \in Actors : held[b] => mutex[b] # mutex[a]
    BY <1>2 DEF Lock, LockFree
  <2> QED
    BY <1>2, <1>t, <2>1 DEF LockInv, Inside, Fetched, Exclusive
<1>3. CASE UNCHANGED lockVars /\ (Busy(a)' <=> Busy(a)) /\ (Waits(a)' => Busy(a) \/ Waits(a))
  BY <1>3, <1>t DEF lockVars, LockInv, Inside, Fetched, Exclusive
<1>4. CASE Leave(a) /\ ~Busy(a)' /\ ~Waits(a)'
  BY <1>4, <1>t DEF Leave, LockInv, Inside, Fetched, Exclusive
<1> QED
  BY <1>1, <1>2, <1>3, <1>4

LEMMA ReserveLocks == ASSUME TypeInv, LockInv, ReserveStep PROVE LockInv'
<1> USE DEF clockVars, lockVars, outboxVars, ghostVars
<1>1. /\ UNCHANGED <<patch, recover, scan, remove, download, mutex, held, epoch>>
      /\ reserving' # "new" /\ (row.status # "none" \/ reserving # "new" => row'.status \in {row.status, "none"})
  BY DEF ReserveStep, ReserveInsert, ReserveCreateFile, ReserveFails, TypeInv, NoRow
<1>2. Inside' /\ Fetched' /\ Exclusive'
  BY <1>1 DEF LockInv, Inside, Fetched, Exclusive, Busy, Waits
<1>3. MapOutlivesRow'
  BY <1>1 DEF LockInv, MapOutlivesRow, TypeInv
<1> QED
  BY <1>2, <1>3 DEF LockInv

\* A step that neither makes nor deletes the row, nor touches the removers.
LEMMA MapStays ==
    ASSUME LockInv, epoch' = epoch, UNCHANGED <<remove, reserving>>, row.status = "none" => row'.status = "none"
    PROVE  MapOutlivesRow'
BY DEF LockInv, MapOutlivesRow

LEMMA PatchLocks ==
    ASSUME TypeInv, LockInv, NEW h \in Handlers, PatchStep(h)
    PROVE  LockInv'
<1> USE DEF fileVars, clockVars, reserveVars, outboxVars, ghostVars
<1>t. TypeOK /\ h \in Actors /\ patch \in [Handlers -> Patches]
  BY ActorsAreDistinct DEF TypeInv, TypeOK
<1>1. /\ UNCHANGED <<recover, scan, remove, download, reserving>>
      /\ row.status = "none" => row'.status = "none"
      /\ \A g \in Handlers \ {h} : patch'[g] = patch[g]
  BY <1>t DEF PatchStep, PatchCheck, PatchEnter, PatchRefused, PatchWrite, PatchWriteFails, PatchRecord,
     PatchUnrecorded, PatchQuarantine, PatchMarkPending, PatchIsolationFails, PatchAs, EndPatch,
     OffsetMatches, PendingRow
<1>2. \A b \in Actors \ {h} : (Busy(b)' <=> Busy(b)) /\ (Waits(b)' <=> Waits(b))
  BY <1>1 DEF Busy, Waits
<1>3. /\ Busy(h) <=> patch[h].pc \in {"ready", "written", "recorded", "moved"}
      /\ Waits(h) <=> patch[h].pc = "checked"
      /\ Busy(h)' <=> patch'[h].pc \in {"ready", "written", "recorded", "moved"}
      /\ Waits(h)' <=> patch'[h].pc = "checked"
  BY ActorsAreDistinct DEF Busy, Waits
<1>4. /\ EndPatch(h) => patch'[h].pc = "idle" /\ Leave(h)
      /\ \A pc \in {"ready", "written", "recorded", "moved"} : PatchAs(h, pc) => patch'[h].pc = pc
  BY <1>t DEF EndPatch, PatchAs, IdlePatch, Patches
<1>5. \/ Fetch(h) /\ ~Busy(h) /\ ~Busy(h)'
      \/ Lock(h) /\ Waits(h) /\ Busy(h)'
      \/ UNCHANGED lockVars /\ (Busy(h)' <=> Busy(h)) /\ (Waits(h)' => Busy(h) \/ Waits(h))
      \/ Leave(h) /\ ~Busy(h)' /\ ~Waits(h)'
  <2>1. ASSUME NEW d \in Data, PatchCheck(h, d) PROVE Fetch(h) /\ ~Busy(h) /\ ~Busy(h)'
    <3>1. patch'[h].pc = "checked" /\ patch[h].pc = "idle"
      BY <2>1, <1>t DEF PatchCheck
    <3> QED
      BY <2>1, <1>3, <3>1 DEF PatchCheck
  <2>2. CASE PatchEnter(h)
    BY <2>2, <1>3, <1>4 DEF PatchEnter
  <2>3. CASE PatchWrite(h) \/ PatchQuarantine(h)
    BY <2>3, <1>3, <1>4 DEF PatchWrite, PatchQuarantine
  <2>4. CASE PatchRecord(h)
    BY <2>4, <1>3, <1>4 DEF PatchRecord
  <2>5. CASE PatchRefused(h) \/ PatchWriteFails(h) \/ PatchUnrecorded(h) \/ PatchMarkPending(h)
             \/ PatchIsolationFails(h)
    BY <2>5, <1>3, <1>4 DEF PatchRefused, PatchWriteFails, PatchUnrecorded, PatchMarkPending, PatchIsolationFails
  <2> QED
    BY <2>1, <2>2, <2>3, <2>4, <2>5 DEF PatchStep
<1>6. Inside' /\ Fetched' /\ Exclusive' /\ epoch' = epoch
  BY <1>2, <1>5, <1>t, OneActorMoves
<1> QED
  BY <1>1, <1>6, MapStays DEF LockInv

LEMMA RecoverLocks == ASSUME TypeInv, LockInv, RecoverStep PROVE LockInv'
<1> USE DEF fileVars, clockVars, reserveVars, outboxVars, ghostVars
<1> DEFINE a == "recoverer"
<1>t. TypeOK /\ a \in Actors
  BY ActorsAreDistinct DEF TypeInv
<1>1. /\ UNCHANGED <<patch, scan, remove, download, reserving>>
      /\ row.status = "none" => row'.status = "none"
  BY DEF RecoverStep, RecoverList, RecoverQuarantine, RecoverMarkPending, RecoverFails, PendingRow
<1>2. \A b \in Actors \ {a} : (Busy(b)' <=> Busy(b)) /\ (Waits(b)' <=> Waits(b))
  BY <1>1 DEF Busy, Waits
<1>3. /\ Busy(a) <=> recover = "moved"
      /\ Waits(a) <=> recover = "listed"
      /\ Busy(a)' <=> recover' = "moved"
      /\ Waits(a)' <=> recover' = "listed"
  BY ActorsAreDistinct DEF Busy, Waits, Removers
<1>5. \/ Fetch(a) /\ ~Busy(a) /\ ~Busy(a)'
      \/ Lock(a) /\ Waits(a) /\ Busy(a)'
      \/ Leave(a) /\ ~Busy(a)' /\ ~Waits(a)'
  BY <1>3 DEF RecoverStep, RecoverList, RecoverQuarantine, RecoverMarkPending, RecoverFails
<1> HIDE DEF a
<1>6. Inside' /\ Fetched' /\ Exclusive' /\ epoch' = epoch
  BY <1>2, <1>5, <1>t, OneActorMoves
<1> QED
  BY <1>1, <1>6, MapStays DEF LockInv

LEMMA ScanLocks == ASSUME TypeInv, LockInv, ScanStep PROVE LockInv'
<1> USE DEF fileVars, clockVars, reserveVars, outboxVars, ghostVars
<1> DEFINE a == "scanner"
<1>t. TypeOK /\ a \in Actors /\ scan \in Scans
  BY ActorsAreDistinct DEF TypeInv, TypeOK
<1>1. /\ UNCHANGED <<patch, recover, remove, download, reserving>>
      /\ row.status = "none" => row'.status = "none"
  BY DEF ScanStep, ClaimPendingScans, Claimable, ScanStart, ScanReleases, ReleasedRow, ScanPromote,
     ScanQuarantine, CompleteScan, HoldsLease, ScanDiscard, ScanEnds
<1>2. \A b \in Actors \ {a} : (Busy(b)' <=> Busy(b)) /\ (Waits(b)' <=> Waits(b))
  BY <1>1 DEF Busy, Waits
<1>3. /\ Busy(a) <=> scan.pc \notin {"idle", "claimed"}
      /\ Waits(a) <=> scan.pc = "claimed"
      /\ Busy(a)' <=> scan'.pc \notin {"idle", "claimed"}
      /\ Waits(a)' <=> scan'.pc = "claimed"
  BY ActorsAreDistinct DEF Busy, Waits, Removers
<1>4. /\ EndScan => scan'.pc = "idle" /\ Leave(a)
      /\ \A pc \in {"clean", "blocked", "error", "discard"} : ScanAs(pc) => scan'.pc = pc
  BY <1>t DEF EndScan, ScanAs, IdleScan, Scans
<1>5. \/ Fetch(a) /\ ~Busy(a) /\ ~Busy(a)'
      \/ Lock(a) /\ Waits(a) /\ Busy(a)'
      \/ UNCHANGED lockVars /\ (Busy(a)' <=> Busy(a)) /\ (Waits(a)' => Busy(a) \/ Waits(a))
      \/ Leave(a) /\ ~Busy(a)' /\ ~Waits(a)'
  <2>1. ASSUME NEW l \in Leases, ClaimPendingScans(l) PROVE Fetch(a) /\ ~Busy(a) /\ ~Busy(a)'
    <3>1. scan'.pc = "claimed" /\ scan.pc = "idle"
      BY <2>1 DEF ClaimPendingScans, IdleScan
    <3> QED
      BY <2>1, <1>3, <3>1 DEF ClaimPendingScans
  <2>2. CASE ScanStart
    <3>1. scan'.pc = "scanning"
      BY <2>2, <1>t DEF ScanStart, Scans
    <3> QED
      BY <2>2, <1>3, <3>1 DEF ScanStart
  <2>3. CASE ScanPromote \/ ScanQuarantine
    <3>1. scan'.pc \in {"publish", "report"} /\ scan.pc \in {"clean", "error"} /\ UNCHANGED lockVars
      BY <2>3, <1>t DEF ScanPromote, ScanQuarantine, Scans
    <3> QED
      BY <1>3, <3>1
  <2>4. CASE CompleteScan
    BY <2>4, <1>3, <1>4 DEF CompleteScan
  <2>5. CASE ScanReleases \/ ScanDiscard
    BY <2>5, <1>3, <1>4 DEF ScanReleases, ScanDiscard
  <2>6. ASSUME NEW pc \in {"clean", "blocked", "error"}, ScanEnds(pc)
        PROVE  UNCHANGED lockVars /\ (Busy(a)' <=> Busy(a)) /\ (Waits(a)' => Busy(a) \/ Waits(a))
    BY <2>6, <1>3, <1>4 DEF ScanEnds
  <2> QED
    BY <2>1, <2>2, <2>3, <2>4, <2>5, <2>6 DEF ScanStep
<1> HIDE DEF a
<1>6. Inside' /\ Fetched' /\ Exclusive' /\ epoch' = epoch
  BY <1>2, <1>5, <1>t, OneActorMoves
<1> QED
  BY <1>1, <1>6, MapStays DEF LockInv

LEMMA RemoveLocks == ASSUME TypeInv, LockInv, NEW r \in Removers, RemoveStep(r) PROVE LockInv'
<1> USE DEF fileVars, clockVars, reserveVars, outboxVars, ghostVars
<1>t. /\ TypeOK /\ r \in Actors
      /\ remove \in [Removers -> {"idle", "waiting", "checked", "removed", "unlocked"}]
      /\ mutex \in [Actors -> Nat \cup {None}] /\ held \in [Actors -> BOOLEAN] /\ epoch \in Nat
  BY ActorsAreDistinct DEF TypeInv, TypeOK
<1>1. /\ UNCHANGED <<patch, recover, scan, download, reserving>>
      /\ \A q \in Removers \ {r} : remove'[q] = remove[q]
  BY <1>t DEF RemoveStep, StartRemoval, EnterRemoval, SkipRemoval, RemoveFiles, RemovalFails, DeleteRow, RemoveAs
<1>2. \A b \in Actors \ {r} : (Busy(b)' <=> Busy(b)) /\ (Waits(b)' <=> Waits(b))
  BY <1>1 DEF Busy, Waits
<1>3. /\ Busy(r) <=> remove[r] \in {"checked", "removed"}
      /\ Waits(r) <=> remove[r] = "waiting"
      /\ Busy(r)' <=> remove'[r] \in {"checked", "removed"}
      /\ Waits(r)' <=> remove'[r] = "waiting"
  BY ActorsAreDistinct DEF Busy, Waits, Removers
<1>4. \A pc : RemoveAs(r, pc) => remove'[r] = pc
  BY <1>t DEF RemoveAs
<1>r. "cleaner" \in Removers /\ "deleter" \in Removers
  BY DEF Removers
<1>5. CASE ~DeleteRow(r)
  <2>1. \/ Fetch(r) /\ ~Busy(r) /\ ~Busy(r)'
        \/ Lock(r) /\ Waits(r) /\ Busy(r)'
        \/ UNCHANGED lockVars /\ (Busy(r)' <=> Busy(r)) /\ (Waits(r)' => Busy(r) \/ Waits(r))
        \/ Leave(r) /\ ~Busy(r)' /\ ~Waits(r)'
    BY <1>3, <1>4, <1>5 DEF RemoveStep, StartRemoval, EnterRemoval, SkipRemoval, RemoveFiles, RemovalFails,
       LockAndLeave, LeaveFailed
  <2>2. Inside' /\ Fetched' /\ Exclusive' /\ epoch' = epoch
    BY <1>2, <2>1, <1>t, OneActorMoves
  <2>3. row' = row /\ remove'[r] \in {"idle", "waiting", "checked", "removed"}
    BY <1>4, <1>5 DEF RemoveStep, StartRemoval, EnterRemoval, SkipRemoval, RemoveFiles, RemovalFails
  <2>4. remove'[r] \in {"checked", "removed"} \/ (r = "cleaner" /\ remove'[r] # "idle") => reserving # "new"
    BY <1>3, <1>4, <1>5 DEF RemoveStep, StartRemoval, Listed, EnterRemoval, MayRemove, SkipRemoval,
       RemoveFiles, RemovalFails, LockInv, MapOutlivesRow, TypeInv, Removers
  <2>5. MapOutlivesRow'
    BY <1>1, <1>r, <2>2, <2>3, <2>4 DEF LockInv, MapOutlivesRow
  <2> QED
    BY <2>2, <2>5 DEF LockInv
<1>6. CASE DeleteRow(r)
  <2>1. /\ held' = [held EXCEPT ![r] = FALSE] /\ mutex' = [mutex EXCEPT ![r] = None]
        /\ epoch' \in {epoch, epoch + 1} /\ remove'[r] \in {"idle", "unlocked"}
        /\ remove[r] = "removed" /\ row'.status = "none"
    <3>1. NoRow.status = "none"
      BY DEF NoRow
    <3>2. epoch' \in {epoch, epoch + 1} /\ remove'[r] \in {"idle", "unlocked"}
      BY <1>6, <1>4 DEF DeleteRow
    <3> QED
      BY <1>6, <3>1, <3>2 DEF DeleteRow
  <2>2. reserving # "new"
    BY <2>1 DEF LockInv, MapOutlivesRow
  <2>3. Inside'
    BY <1>2, <1>3, <1>t, <2>1 DEF LockInv, Inside
  <2>4. Fetched' /\ Exclusive'
    BY <1>2, <1>3, <1>t, <2>1 DEF LockInv, Fetched, Exclusive
  <2>5. MapOutlivesRow'
    BY <1>1, <2>1, <2>2 DEF LockInv, MapOutlivesRow
  <2> QED
    BY <2>3, <2>4, <2>5 DEF LockInv
<1> QED
  BY <1>5, <1>6

LEMMA EnvironmentLocks == ASSUME TypeInv, LockInv, EnvironmentStep PROVE LockInv'
<1> USE DEF fileVars, reserveVars, outboxVars, ghostVars
<1>t. /\ TypeOK /\ "reader" \in Actors /\ remove \in [Removers -> {"idle", "waiting", "checked", "removed", "unlocked"}]
      /\ mutex \in [Actors -> Nat \cup {None}] /\ held \in [Actors -> BOOLEAN] /\ epoch \in Nat
  BY ActorsAreDistinct DEF TypeInv, TypeOK
<1>k. ASSUME UNCHANGED <<patch, recover, scan, remove, mutex, held, epoch, reserving>>, row'.status = row.status,
             download' = "opened" <=> download = "opened"
      PROVE  LockInv'
  BY <1>k DEF LockInv, Inside, Fetched, Exclusive, MapOutlivesRow, Busy, Waits
<1>1. CASE LeaseLapses \/ DeliverEvent \/ AckEvent \/ EndSession \/ Expire
  <2>1. row'.status = row.status
    BY <1>1, <1>t DEF LeaseLapses, DeliverEvent, AckEvent, EndSession, Expire, TypeOK, Rows
  <2> QED
    BY <1>1, <1>k, <2>1 DEF LeaseLapses, DeliverEvent, AckEvent, EndSession, Expire,
       HasActiveDownloadSessions, lockVars, clockVars
<1>2. CASE DropLock
  <2>1. /\ remove["cleaner"] = "unlocked" /\ remove'["cleaner"] = "idle" /\ epoch' = epoch + 1
        /\ \A q \in Removers \ {"cleaner"} : remove'[q] = remove[q]
        /\ UNCHANGED <<row, reserving, patch, recover, scan, download, mutex, held>>
    BY <1>2, <1>t DEF DropLock, RemoveAs, Removers, clockVars
  <2>2. \A a \in Actors : (Busy(a)' <=> Busy(a)) /\ (Waits(a)' <=> Waits(a))
    BY <2>1 DEF Busy, Waits
  <2>3. Inside' /\ Fetched' /\ Exclusive'
    BY <1>t, <2>1, <2>2 DEF LockInv, Inside, Fetched, Exclusive
  <2>4. MapOutlivesRow'
    BY <1>t, <2>1 DEF LockInv, MapOutlivesRow
  <2> QED
    BY <2>3, <2>4 DEF LockInv
<1>3. CASE OpenObject
  <2>1. /\ mutex' = [mutex EXCEPT !["reader"] = epoch] /\ held' = [held EXCEPT !["reader"] = TRUE]
        /\ \A a \in Actors : held[a] => mutex[a] # epoch
        /\ download' = "opened" /\ UNCHANGED <<row, reserving, patch, recover, scan, remove, epoch>>
    BY <1>3 DEF OpenObject
  <2>2. /\ \A a \in Actors \ {"reader"} : (Busy(a)' <=> Busy(a)) /\ (Waits(a)' <=> Waits(a))
        /\ Busy("reader")' /\ ~Waits("reader")'
    BY <2>1, ActorsAreDistinct DEF Busy, Waits, Removers
  <2>3. Inside' /\ Fetched' /\ Exclusive'
    BY <1>t, <2>1, <2>2 DEF LockInv, Inside, Fetched, Exclusive
  <2> QED
    BY <2>1, <2>3, MapStays DEF LockInv
<1>4. CASE PrepareSession
  <2>1. /\ Leave("reader") /\ download' = "active"
        /\ UNCHANGED <<row, reserving, patch, recover, scan, remove>>
    BY <1>4 DEF PrepareSession
  <2>2. /\ \A a \in Actors \ {"reader"} : (Busy(a)' <=> Busy(a)) /\ (Waits(a)' <=> Waits(a))
        /\ ~Busy("reader")' /\ ~Waits("reader")'
    BY <2>1, ActorsAreDistinct DEF Busy, Waits, Removers
  <2>3. Inside' /\ Fetched' /\ Exclusive' /\ epoch' = epoch
    BY <1>t, <2>1, <2>2, OneActorMoves
  <2> QED
    BY <2>1, <2>3, MapStays DEF LockInv
<1>5. CASE Crash
  <2>1. /\ \A a \in Actors : ~held'[a] /\ epoch' = 0
        /\ \A h \in Handlers : patch'[h].pc = "idle"
        /\ recover' = "idle" /\ scan'.pc = "idle" /\ \A r \in Removers : remove'[r] = "idle"
        /\ download' # "opened"
    BY <1>5 DEF Crash, IdlePatch, IdleScan
  <2>2. \A a \in Actors : ~Busy(a)' /\ ~Waits(a)'
    BY <2>1 DEF Busy, Waits
  <2>3. MapOutlivesRow'
    BY <1>t, <2>1 DEF MapOutlivesRow, Removers
  <2> QED
    BY <2>1, <2>2, <2>3 DEF LockInv, Inside, Fetched, Exclusive
<1> QED
  BY <1>1, <1>2, <1>3, <1>4, <1>5 DEF EnvironmentStep

LEMMA NextLocks == ASSUME TypeInv, LockInv, [Next]_vars PROVE LockInv'
<1>1. CASE UNCHANGED vars
  BY <1>1 DEF vars, LockInv, Inside, Fetched, Exclusive, MapOutlivesRow, Busy, Waits
<1> QED
  BY <1>1, ReserveLocks, PatchLocks, RecoverLocks, ScanLocks, RemoveLocks, EnvironmentLocks
     DEF Next, EnvironmentStep

\* Nobody but a is at work.
Quiet(a) ==
    /\ \A h \in Handlers \ {a} : patch[h].pc \in {"idle", "checked"}
    /\ a # "recoverer" => recover # "moved"
    /\ a # "scanner" => scan.pc \in {"idle", "claimed"}
    /\ \A r \in Removers \ {a} : remove[r] \notin {"checked", "removed"}
    /\ a # "reader" => download # "opened"

LEMMA WorksAlone ==
    ASSUME TypeOK, LockInv, row.status # "none", NEW a \in Actors,
           \/ Busy(a)
           \/ Waits(a) /\ LockFree(a)
           \/ a = "reader" /\ \A b \in Actors : held[b] => mutex[b] # epoch
    PROVE  Quiet(a)
<1>1. \A b \in Actors : Busy(b) => a = b
  <2>1. CASE Busy(a)
    BY <2>1, Alone
  <2>2. CASE Waits(a) /\ LockFree(a)
    BY <2>2, LockFindsNobody
  <2>3. CASE \A b \in Actors : held[b] => mutex[b] # epoch
    <3>1. epoch = 0
      BY DEF TypeOK, LockInv, MapOutlivesRow
    <3> QED
      BY <2>3, <3>1 DEF LockInv, Inside, Fetched
  <2> QED
    BY <2>1, <2>2, <2>3
<1>2. \A h \in Handlers : patch[h].pc \in {"idle", "checked", "ready", "written", "recorded", "moved"}
  BY DEF TypeOK, Patches
<1>3. \A h \in Handlers \ {a} : patch[h].pc \in {"idle", "checked"}
  BY <1>1, <1>2, ActorsAreDistinct DEF Busy
<1>4. \A r \in Removers \ {a} : remove[r] \notin {"checked", "removed"}
  BY <1>1, ActorsAreDistinct DEF Busy
<1>5. /\ a # "recoverer" => recover # "moved"
      /\ a # "scanner" => scan.pc \in {"idle", "claimed"}
      /\ a # "reader" => download # "opened"
  BY <1>1, ActorsAreDistinct DEF Busy
<1> QED
  BY <1>3, <1>4, <1>5 DEF Quiet

-----------------------------------------------------------------------------
(* What the goroutines know of the row. *)

LEMMA InitRow == Init => RowInv
<1> SUFFICES ASSUME Init PROVE RowInv
  OBVIOUS
<1>1. /\ row.status = "none" /\ row.offset = 0 /\ row.live = FALSE
      /\ scan.pc = "idle" /\ scan.file = None /\ \A h \in Handlers : patch[h].pc = "idle"
      /\ \A d \in Directories : files[d] = None
  BY DEF Init, NoRow, IdleScan, IdlePatch, NoFiles
<1> QED
  BY <1>1, NoneAssumption DEF Init, RowInv, Directories

LEMMA ReserveRow == ASSUME TypeInv, LockInv, RowInv, ReserveStep PROVE RowInv'
<1> USE DEF clockVars, lockVars, outboxVars, ghostVars
<1>n. /\ NoRow.status = "none" /\ NoRow.offset = 0 /\ NoRow.live = FALSE
      /\ NewRow.status = "uploading" /\ NewRow.offset = 0 /\ NewRow.live = FALSE
  BY DEF NoRow, NewRow
<1>1. CASE ReserveInsert
  <2>1. ~issued /\ reserving = "new" /\ row' = NewRow /\ reserving' = "inserted"
        /\ UNCHANGED <<files, download, issued, patch, recover, scan, remove, acked>>
    BY <1>1 DEF ReserveInsert, RowInv
  <2> QED
    BY <1>n, <2>1 DEF RowInv
<1>2. CASE ReserveCreateFile
  <2>1. /\ ~issued /\ issued' /\ reserving' = "idle"
        /\ UNCHANGED <<row, download, patch, recover, scan, remove, acked>>
    BY <1>2 DEF ReserveCreateFile, RowInv
  <2> QED
    BY <2>1 DEF RowInv
<1>3. CASE ReserveFails
  <2>1. /\ ~issued /\ row' \in {row, NoRow} /\ reserving' = "idle"
        /\ UNCHANGED <<files, download, issued, patch, recover, scan, remove, acked>>
    BY <1>3 DEF ReserveFails, RowInv
  <2> QED
    BY <1>n, <2>1 DEF RowInv
<1> QED
  BY <1>1, <1>2, <1>3 DEF ReserveStep

LEMMA PatchRow == ASSUME TypeInv, LockInv, RowInv, NEW h \in Handlers, PatchStep(h) PROVE RowInv'
<1> USE DEF fileVars, clockVars, reserveVars, outboxVars, ghostVars
<1>t. TypeOK /\ row \in Rows /\ patch \in [Handlers -> Patches] /\ h \in Actors
  BY ActorsAreDistinct DEF TypeInv, TypeOK
<1>i. issued
  BY DEF PatchStep, PatchCheck, PatchEnter, PatchRefused, PatchWrite, PatchWriteFails, PatchRecord,
     PatchUnrecorded, PatchQuarantine, PatchMarkPending, PatchIsolationFails, RowInv
<1>p. /\ \A g \in Handlers \ {h} : patch'[g] = patch[g]
      /\ UNCHANGED <<download, reserving, issued, recover, scan, remove>>
  BY <1>t DEF PatchStep, PatchCheck, PatchEnter, PatchRefused, PatchWrite, PatchWriteFails, PatchRecord,
     PatchUnrecorded, PatchQuarantine, PatchMarkPending, PatchIsolationFails, PatchAs, EndPatch
<1>4. /\ EndPatch(h) => patch'[h].pc = "idle"
      /\ \A pc \in {"ready", "written", "recorded", "moved"} :
             PatchAs(h, pc) => patch'[h].pc = pc /\ patch'[h].offset = patch[h].offset
  BY <1>t DEF EndPatch, PatchAs, IdlePatch, Patches
\* The row stays: the handler's own knowledge of it is all there is to show.
<1>s. ASSUME UNCHANGED <<row, acked>>,
             patch'[h].pc \in {"ready", "written", "recorded", "moved"} => row.status = "uploading",
             patch'[h].pc \in {"ready", "written"} => row.offset = patch'[h].offset,
             patch'[h].pc \in {"recorded", "moved"} => row.offset = Length
      PROVE  RowInv'
  BY <1>i, <1>p, <1>s DEF RowInv
<1>1. ASSUME NEW d \in Data, PatchCheck(h, d) PROVE RowInv'
  <2>1. patch'[h].pc = "checked"
    BY <1>1, <1>t DEF PatchCheck
  <2> QED
    BY <1>1, <1>s, <2>1 DEF PatchCheck
<1>2. CASE PatchEnter(h)
  BY <1>2, <1>4, <1>s DEF PatchEnter, StillWritable
<1>3. CASE PatchRefused(h) \/ PatchWriteFails(h) \/ PatchUnrecorded(h) \/ PatchIsolationFails(h)
  BY <1>3, <1>4, <1>s DEF PatchRefused, PatchWriteFails, PatchUnrecorded, PatchIsolationFails
<1>5. CASE PatchWrite(h)
  BY <1>5, <1>4, <1>s DEF PatchWrite, RowInv
<1>7. CASE PatchQuarantine(h)
  BY <1>7, <1>4, <1>s DEF PatchQuarantine, RowInv
<1>b. ASSUME patch[h].pc \in {"ready", "written", "recorded", "moved"}
      PROVE  row.status = "uploading" /\ \A g \in Handlers \ {h} : patch[g].pc \in {"idle", "checked"}
  <2>1. row.status = "uploading" /\ Busy(h)
    BY <1>b DEF RowInv, Busy
  <2> QED
    BY <1>t, <2>1, WorksAlone DEF Quiet
<1>6. CASE PatchRecord(h)
  <2>1. /\ row'.status = "uploading" /\ row'.offset = row.offset + 1 /\ row'.live = row.live
    BY <1>6, <1>t DEF PatchRecord, OffsetMatches, Rows
  <2>2. row.status = "uploading" /\ row.offset < Length /\ recover = "idle"
    BY <1>6, <1>t DEF PatchRecord, OffsetMatches, TypeInv, RowInv, Rows
  <2>3. patch'[h].pc = "idle" \/ (patch'[h].pc = "recorded" /\ row.offset + 1 = Length)
    BY <1>6, <1>4 DEF PatchRecord
  <2> QED
    BY <1>6, <1>b, <1>i, <1>p, <2>1, <2>2, <2>3 DEF PatchRecord, RowInv
<1>8. CASE PatchMarkPending(h)
  <2>1. row.status = "uploading" /\ row.offset = Length /\ patch'[h].pc = "idle" /\ Len(acked) = Length
    BY <1>8, <1>4 DEF PatchMarkPending, RowInv, TypeInv
  <2>2. /\ row'.status = "pending_scan" /\ row'.offset = Length /\ row'.path = "quarantine" /\ row'.live = FALSE
    BY <1>8, <1>t, <2>1 DEF PatchMarkPending, PendingRow, Rows
  <2>3. scan.pc = "idle" /\ download = "idle"
    BY <2>1 DEF RowInv
  <2> QED
    BY <1>8, <1>b, <1>i, <1>p, <2>1, <2>2, <2>3 DEF PatchMarkPending, RowInv
<1> QED
  BY <1>1, <1>2, <1>3, <1>5, <1>6, <1>7, <1>8 DEF PatchStep

LEMMA RecoverRow == ASSUME TypeInv, LockInv, RowInv, RecoverStep PROVE RowInv'
<1> USE DEF fileVars, clockVars, reserveVars, outboxVars, ghostVars
<1>t. TypeOK /\ row \in Rows /\ "recoverer" \in Actors
  BY ActorsAreDistinct DEF TypeInv, TypeOK
<1>i. issued
  BY <1>t, StorageUploadAssumption DEF RecoverStep, RecoverList, RecoverQuarantine, RecoverMarkPending, RecoverFails, RowInv, Rows
<1>p. UNCHANGED <<acked, download, reserving, issued, patch, scan, remove>>
  BY DEF RecoverStep, RecoverList, RecoverQuarantine, RecoverMarkPending, RecoverFails
<1>1. CASE RecoverList \/ RecoverQuarantine \/ RecoverFails
  <2>1. row' = row /\ (recover' # "idle" /\ row.status = "uploading" => row.offset = Length)
    BY <1>1 DEF RecoverList, RecoverQuarantine, RecoverFails, RowInv
  <2> QED
    BY <1>i, <1>p, <2>1 DEF RowInv
<1>2. CASE RecoverMarkPending
  <2>1. recover' = "idle" /\ recover = "moved" /\ row' = PendingRow
    BY <1>2 DEF RecoverMarkPending
  <2>2. CASE row.status # "uploading"
    BY <1>i, <1>p, <2>1, <2>2 DEF PendingRow, RowInv
  <2>3. CASE row.status = "uploading"
    <3>1. row.offset = Length /\ Len(acked) = Length /\ scan.pc = "idle" /\ download = "idle"
      BY <2>1, <2>3 DEF RowInv, TypeInv
    <3>2. row'.status = "pending_scan" /\ row'.offset = Length /\ row'.path = "quarantine" /\ row'.live = FALSE
      BY <1>t, <2>1, <2>3, <3>1 DEF PendingRow, Rows
    <3>3. Busy("recoverer")
      BY <2>1 DEF Busy
    <3>4. \A h \in Handlers : patch[h].pc \in {"idle", "checked"}
      BY <1>t, <2>3, <3>3, WorksAlone, ActorsAreDistinct DEF Quiet
    <3> QED
      BY <1>i, <1>p, <2>1, <3>1, <3>2, <3>4 DEF RowInv
  <2> QED
    BY <2>2, <2>3
<1> QED
  BY <1>1, <1>2 DEF RecoverStep

LEMMA ScanRow == ASSUME TypeInv, LockInv, RowInv, ScanStep PROVE RowInv'
<1> USE DEF fileVars, clockVars, reserveVars, outboxVars, ghostVars
<1>t. TypeOK /\ row \in Rows /\ scan \in Scans
  BY DEF TypeInv, TypeOK
<1>n. None # "tmp" /\ None # "quarantine" /\ None # "objects"
  BY NoneAssumption DEF Directories
<1>i. issued
  BY DEF ScanStep, ClaimPendingScans, Claimable, ScanStart, ScanReleases, ScanPromote, ScanQuarantine,
     CompleteScan, ScanDiscard, ScanEnds, RowInv
<1>p. UNCHANGED <<acked, download, reserving, issued, patch, recover, remove>>
  BY DEF ScanStep, ClaimPendingScans, ScanStart, ScanReleases, ScanPromote, ScanQuarantine,
     CompleteScan, ScanDiscard, ScanEnds
<1>e. EndScan => scan'.pc = "idle" /\ scan'.file = None
  BY DEF EndScan, IdleScan
\* The row stays: the scanner's own knowledge of it is all there is to show.
<1>s. ASSUME UNCHANGED row, scan'.file # "tmp",
             scan'.pc \notin {"idle", "discard"} =>
                 row.status = "none" \/ (row.status = "scanning" /\ row.lease = scan'.lease),
             scan'.pc \in {"clean", "blocked", "error", "publish", "report"} => row.status = "scanning",
             scan'.pc = "discard" => row.status = "blocked",
             scan'.pc \in {"claimed", "scanning", "error"} => scan'.path = "quarantine",
             scan'.pc = "publish" => scan'.path = "objects",
             scan'.pc = "report" => scan'.path \in {"quarantine", "objects"}
      PROVE  RowInv'
  BY <1>i, <1>p, <1>s DEF RowInv
<1>1. ASSUME NEW l \in Leases, ClaimPendingScans(l) PROVE RowInv'
  <2>1. /\ row.status \in {"pending_scan", "scanning"} /\ row.path = "quarantine" /\ row.offset = Length
        /\ Len(acked) = Length /\ download = "idle"
        /\ \A h \in Handlers : patch[h].pc \notin {"ready", "written", "recorded", "moved"}
    BY <1>1 DEF ClaimPendingScans, Claimable, RowInv
  <2>2. /\ row'.status = "scanning" /\ row'.lease = l /\ row'.path = row.path /\ row'.offset = row.offset
        /\ row'.live = TRUE
    BY <1>1, <1>t DEF ClaimPendingScans, Rows
  <2>3. scan'.pc = "claimed" /\ scan'.lease = l /\ scan'.path = row.path /\ scan'.file = None
    BY <1>1 DEF ClaimPendingScans, IdleScan
  <2> QED
    BY <1>i, <1>n, <1>p, <2>1, <2>2, <2>3 DEF RowInv
<1>2. CASE ScanStart
  <2>1. scan.path = "quarantine" /\ ScanPath \in {"quarantine", "objects", None}
    BY <1>2 DEF ScanStart, ScanPath, RowInv
  <2>2. scan'.pc = "scanning" /\ scan'.lease = scan.lease /\ scan'.path = scan.path /\ scan'.file = ScanPath
    BY <1>2, <1>t DEF ScanStart, Scans
  <2> QED
    BY <1>2, <1>n, <1>s, <2>1, <2>2 DEF ScanStart, RowInv
<1>3. CASE ScanReleases
  <2>1. scan'.pc = "idle" /\ scan'.file = None /\ row' \in {row, ReleasedRow}
    BY <1>3, <1>e DEF ScanReleases
  <2>2. CASE row' = row
    BY <1>n, <1>s, <2>1, <2>2
  <2>3. CASE row' = ReleasedRow /\ row' # row
    <3>1. row.status = "scanning" /\ row.path = "quarantine" /\ row.offset = Length /\ Len(acked) = Length
          /\ download = "idle" /\ \A h \in Handlers : patch[h].pc \notin {"ready", "written", "recorded", "moved"}
      BY <2>3 DEF ReleasedRow, RowInv
    <3>2. row'.status = "pending_scan" /\ row'.path = row.path /\ row'.offset = row.offset /\ row'.live = FALSE
      BY <1>t, <2>3 DEF ReleasedRow, Rows
    <3> QED
      BY <1>i, <1>n, <1>p, <2>1, <3>1, <3>2 DEF RowInv
  <2> QED
    BY <2>1, <2>2, <2>3
<1>4. CASE ScanPromote
  <2>1. scan'.pc = "publish" /\ scan'.path = "objects" /\ scan'.lease = scan.lease /\ scan'.file = scan.file
    BY <1>4, <1>t DEF ScanPromote, Scans
  <2> QED
    BY <1>4, <1>s, <2>1 DEF ScanPromote, RowInv
<1>5. CASE ScanQuarantine
  <2>1. scan.file \in {"quarantine", "objects", None} /\ scan.path = "quarantine"
    BY <1>5, <1>t DEF ScanQuarantine, RowInv, Scans, Directories
  <2>2. /\ scan'.pc = "report" /\ scan'.path \in {"quarantine", "objects"}
        /\ scan'.lease = scan.lease /\ scan'.file = scan.file
    BY <1>5, <1>n, <1>t, <2>1 DEF ScanQuarantine, Scans
  <2> QED
    BY <1>5, <1>s, <2>2 DEF ScanQuarantine, RowInv
<1>6. CASE CompleteScan
  <2>1. /\ row.status = "scanning" /\ row.offset = Length /\ Len(acked) = Length /\ download = "idle"
        /\ \A h \in Handlers : patch[h].pc \notin {"ready", "written", "recorded", "moved"}
    BY <1>6 DEF CompleteScan, HoldsLease, RowInv
  <2>2. /\ row'.status = FinalStatus /\ row'.offset = row.offset /\ row'.live = FALSE
        /\ FinalStatus \in {"clean", "blocked", "scanner_error"}
        /\ (FinalStatus = "blocked" <=> scan.pc = "blocked")
    BY <1>6, <1>t DEF CompleteScan, FinalStatus, Rows
  <2>3. scan'.pc = (IF scan.pc = "blocked" THEN "discard" ELSE "idle") /\ scan'.file # "tmp"
    BY <1>6, <1>e, <1>n, <1>t DEF CompleteScan, ScanAs, Scans, RowInv
  <2> QED
    BY <1>i, <1>p, <2>1, <2>2, <2>3 DEF RowInv
<1>7. CASE ScanDiscard
  BY <1>7, <1>e, <1>n, <1>s DEF ScanDiscard
<1>8. ASSUME NEW pc \in {"clean", "blocked", "error"}, ScanEnds(pc) PROVE RowInv'
  <2>1. scan'.pc = pc /\ scan'.lease = scan.lease /\ scan'.path = scan.path /\ scan'.file = scan.file
    BY <1>8, <1>t DEF ScanEnds, ScanAs, Scans
  <2> QED
    BY <1>8, <1>s, <2>1 DEF ScanEnds, HoldsLease, RowInv
<1> QED
  BY <1>1, <1>2, <1>3, <1>4, <1>5, <1>6, <1>7, <1>8 DEF ScanStep

LEMMA RemoveRow == ASSUME TypeInv, LockInv, RowInv, NEW r \in Removers, RemoveStep(r) PROVE RowInv'
<1> USE DEF fileVars, clockVars, reserveVars, outboxVars, ghostVars
<1>t. /\ TypeOK /\ r \in Actors /\ r \notin {"reader", "scanner", "recoverer"} /\ r \notin Handlers
      /\ remove \in [Removers -> {"idle", "waiting", "checked", "removed", "unlocked"}]
      /\ Directories = {"tmp", "quarantine", "objects"}
  BY ActorsAreDistinct DEF TypeInv, TypeOK, Removers, Directories
<1>p. /\ UNCHANGED <<acked, download, reserving, issued, patch, recover, scan>>
      /\ \A q \in Removers \ {r} : remove'[q] = remove[q]
  BY <1>t DEF RemoveStep, StartRemoval, EnterRemoval, SkipRemoval, RemoveFiles, RemovalFails, DeleteRow, RemoveAs
<1>4. \A pc : RemoveAs(r, pc) => remove'[r] = pc
  BY <1>t DEF RemoveAs
<1>f. \A d \in Directories : files'[d] \in {files[d], None}
  BY DEF RemoveStep, StartRemoval, EnterRemoval, SkipRemoval, RemoveFiles, RemainingFiles, NoFiles,
     RemovalFails, DeleteRow
<1>1. CASE ~EnterRemoval(r) /\ ~DeleteRow(r)
  <2>1. row' = row /\ (remove'[r] \in {"checked", "removed"} => remove[r] = "checked")
    BY <1>1, <1>4 DEF RemoveStep, StartRemoval, SkipRemoval, RemoveFiles, RemovalFails
  <2> QED
    BY <1>f, <1>p, <1>t, <2>1 DEF RowInv
<1>2. CASE EnterRemoval(r)
  <2>1. row' = row /\ Waits(r) /\ LockFree(r) /\ download # "active"
    BY <1>2, <1>t DEF EnterRemoval, Lock, MayRemove, HasActiveDownloadSessions, Waits
  <2>2. download = "idle"
    <3>1. CASE row.status = "none"
      BY <3>1 DEF RowInv
    <3>2. CASE row.status # "none"
      BY <1>t, <2>1, <3>2, WorksAlone DEF Quiet, TypeOK
    <3> QED
      BY <3>1, <3>2
  <2> QED
    BY <1>f, <1>p, <1>t, <2>1, <2>2 DEF RowInv
<1>3. CASE DeleteRow(r)
  <2>1. row' = NoRow /\ remove[r] = "removed" /\ Busy(r)
    BY <1>3, <1>t DEF DeleteRow, Busy
  <2>2. NoRow.status = "none" /\ NoRow.offset = 0 /\ NoRow.live = FALSE
    BY DEF NoRow
  <2>3. download = "idle"
    BY <2>1 DEF RowInv
  <2>4. /\ \A h \in Handlers : patch[h].pc \notin {"ready", "written", "recorded", "moved"}
        /\ scan.pc \notin {"clean", "blocked", "error", "publish", "report", "discard"}
    <3>1. CASE row.status = "none"
      BY <3>1 DEF RowInv
    <3>2. CASE row.status # "none"
      BY <1>t, <2>1, <3>2, WorksAlone DEF Quiet
    <3> QED
      BY <3>1, <3>2
  <2> QED
    BY <1>f, <1>p, <1>t, <2>1, <2>2, <2>3, <2>4 DEF RowInv
<1> QED
  BY <1>1, <1>2, <1>3

LEMMA EnvironmentRow == ASSUME TypeInv, LockInv, RowInv, EnvironmentStep PROVE RowInv'
<1> USE DEF fileVars, reserveVars, outboxVars, ghostVars
<1>t. TypeOK /\ row \in Rows /\ "reader" \in Actors
  BY ActorsAreDistinct DEF TypeInv, TypeOK
<1>1. CASE LeaseLapses
  <2>1. /\ row'.status = row.status /\ row'.offset = row.offset /\ row'.path = row.path
        /\ row'.lease = row.lease /\ row'.live = FALSE
    BY <1>1, <1>t DEF LeaseLapses, Rows
  <2>2. UNCHANGED <<files, download, reserving, issued, patch, recover, scan, remove, acked>>
    BY <1>1 DEF LeaseLapses, clockVars
  <2> QED
    BY <2>1, <2>2 DEF RowInv
<1>2. CASE DeliverEvent \/ AckEvent \/ Expire
  BY <1>2 DEF DeliverEvent, AckEvent, Expire, RowInv, clockVars
<1>3. CASE DropLock
  <2>1. /\ \A r \in Removers : remove'[r] \in {remove[r], "idle"}
        /\ UNCHANGED <<row, files, download, reserving, issued, patch, recover, scan, acked>>
    BY <1>3, <1>t DEF DropLock, RemoveAs, TypeOK, clockVars
  <2> QED
    BY <2>1 DEF RowInv
<1>4. CASE OpenObject
  <2>1. row.status = "clean" /\ \A b \in Actors : held[b] => mutex[b] # epoch
    BY <1>4 DEF OpenObject
  <2>2. \A r \in Removers : remove[r] \notin {"checked", "removed"}
    BY <1>t, <2>1, WorksAlone DEF Quiet, Removers
  <2> QED
    BY <1>4, <2>1, <2>2 DEF OpenObject, RowInv
<1>5. CASE PrepareSession \/ EndSession
  BY <1>5 DEF PrepareSession, EndSession, HasActiveDownloadSessions, RowInv
<1>6. CASE Crash
  <2>1. /\ \A h \in Handlers : patch'[h].pc = "idle"
        /\ recover' = "idle" /\ scan'.pc = "idle" /\ scan'.file = None
        /\ \A r \in Removers : remove'[r] = "idle"
        /\ reserving' \in {reserving, "idle"} /\ download' \in {download, "idle"}
        /\ UNCHANGED <<row, files, issued, acked>>
    BY <1>6 DEF Crash, IdlePatch, IdleScan
  <2> QED
    BY <2>1, NoneAssumption DEF RowInv, Directories
<1> QED
  BY <1>1, <1>2, <1>3, <1>4, <1>5, <1>6 DEF EnvironmentStep

LEMMA NextRow == ASSUME TypeInv, LockInv, RowInv, [Next]_vars PROVE RowInv'
<1>1. CASE UNCHANGED vars
  BY <1>1 DEF vars, RowInv
<1> QED
  BY <1>1, ReserveRow, PatchRow, RecoverRow, ScanRow, RemoveRow, EnvironmentRow DEF Next, EnvironmentStep

-----------------------------------------------------------------------------
(* Verdicts. *)

LEMMA NextVerdict == ASSUME TypeInv, LockInv, RowInv, VerdictInv, [Next]_vars PROVE VerdictInv'
<1> USE DEF fileVars, clockVars, reserveVars, lockVars, outboxVars, ghostVars
<1>t. row \in Rows /\ scan \in Scans /\ event \in Verdicts \cup {None}
  BY DEF TypeInv, TypeOK
<1>v. /\ None \notin Verdicts
      /\ \A s \in {"none", "uploading", "pending_scan", "scanning"} : VerdictOf(s) = None
      /\ \A s \in {"clean", "blocked", "scanner_error"} : VerdictOf(s) \in Verdicts
  BY NoneAssumption DEF VerdictOf, Verdicts
\* The row is still undecided, decided as it was, or gone.
<1>k. ASSUME UNCHANGED <<event, told>>,
             \/ row'.status = row.status
             \/ row'.status = "none"
             \/ /\ row'.status \in {"uploading", "pending_scan", "scanning"}
                /\ row.status \in {"uploading", "pending_scan", "scanning"} \/ reserving = "new",
             reserving' = "new" => reserving = "new"
      PROVE  VerdictInv'
  BY <1>k, <1>v DEF VerdictInv, VerdictIsReported
<1>1. CASE ReserveStep
  <2>1. NoRow.status = "none" /\ NewRow.status = "uploading"
    BY DEF NoRow, NewRow
  <2> QED
    BY <1>1, <1>k, <2>1 DEF ReserveStep, ReserveInsert, ReserveCreateFile, ReserveFails
<1>2. ASSUME NEW h \in Handlers, PatchStep(h) PROVE VerdictInv'
  <2>1. UNCHANGED <<event, told, reserving>>
    BY <1>2 DEF PatchStep, PatchCheck, PatchEnter, PatchRefused, PatchWrite, PatchWriteFails, PatchRecord,
       PatchUnrecorded, PatchQuarantine, PatchMarkPending, PatchIsolationFails
  <2>2. \/ row' = row
        \/ row.status = "uploading" /\ row'.status \in {"uploading", "pending_scan"}
    BY <1>2, <1>t DEF PatchStep, PatchCheck, PatchEnter, PatchRefused, PatchWrite, PatchWriteFails, PatchRecord,
       PatchUnrecorded, PatchQuarantine, PatchMarkPending, PatchIsolationFails, OffsetMatches, PendingRow, Rows
  <2> QED
    BY <1>k, <2>1, <2>2
<1>3. CASE RecoverStep
  <2>1. UNCHANGED <<event, told, reserving>>
    BY <1>3 DEF RecoverStep, RecoverList, RecoverQuarantine, RecoverMarkPending, RecoverFails
  <2>2. row' = row \/ (row.status = "uploading" /\ row'.status = "pending_scan")
    BY <1>3, <1>t DEF RecoverStep, RecoverList, RecoverQuarantine, RecoverMarkPending, RecoverFails,
       PendingRow, Rows
  <2> QED
    BY <1>k, <2>1, <2>2
<1>4. CASE ScanStep /\ ~CompleteScan
  <2>1. UNCHANGED <<event, told, reserving>>
    BY <1>4 DEF ScanStep, ClaimPendingScans, ScanStart, ScanReleases, ScanPromote, ScanQuarantine, ScanDiscard, ScanEnds
  <2>2. \/ row' = row
        \/ row.status \in {"pending_scan", "scanning"} /\ row'.status \in {"pending_scan", "scanning"}
    BY <1>4, <1>t DEF ScanStep, ClaimPendingScans, Claimable, ScanStart, ScanReleases, ReleasedRow, ScanPromote,
       ScanQuarantine, ScanDiscard, ScanEnds, Rows
  <2> QED
    BY <1>k, <2>1, <2>2
<1>5. CASE CompleteScan
  <2>1. /\ row.status = "scanning" /\ row'.status = FinalStatus /\ UNCHANGED <<reserving, told>>
        /\ FinalStatus \in {"clean", "blocked", "scanner_error"} /\ event' = VerdictOf(FinalStatus)
    BY <1>5, <1>t DEF CompleteScan, HoldsLease, FinalStatus, Rows
  <2>2. told = {} /\ reserving # "new"
    BY <2>1 DEF VerdictInv, TypeInv
  <2> QED
    BY <1>v, <2>1, <2>2 DEF VerdictInv, VerdictIsReported
<1>6. ASSUME NEW r \in Removers, RemoveStep(r) PROVE VerdictInv'
  <2>1. CASE ~DeleteRow(r)
    BY <1>6, <1>k, <2>1 DEF RemoveStep, StartRemoval, EnterRemoval, SkipRemoval, RemoveFiles, RemovalFails
  <2>2. CASE DeleteRow(r)
    <3>1. NoRow.status = "none"
      BY DEF NoRow
    <3>2. row'.status = "none" /\ event' = None /\ UNCHANGED <<reserving, told>> /\ remove[r] = "removed"
      BY <2>2, <3>1 DEF DeleteRow
    <3>3. reserving # "new"
      BY <3>2 DEF LockInv, MapOutlivesRow
    <3> QED
      BY <1>v, <3>2, <3>3 DEF VerdictInv, VerdictIsReported
  <2> QED
    BY <2>1, <2>2
<1>7. CASE DeliverEvent \/ AckEvent
  <2>1. CASE DeliverEvent
    BY <2>1 DEF DeliverEvent, VerdictInv, VerdictIsReported
  <2>2. CASE AckEvent
    BY <2>2 DEF AckEvent, VerdictInv, VerdictIsReported
  <2> QED
    BY <1>7, <2>1, <2>2
<1>8. CASE LeaseLapses \/ DropLock \/ OpenObject \/ PrepareSession \/ EndSession \/ Expire \/ Crash
  <2>1. row'.status = row.status
    BY <1>8, <1>t DEF LeaseLapses, DropLock, OpenObject, PrepareSession, EndSession, Expire, Crash, Rows
  <2> QED
    BY <1>8, <1>k, <2>1 DEF LeaseLapses, DropLock, OpenObject, PrepareSession, EndSession, Expire, Crash
<1>9. CASE UNCHANGED vars
  BY <1>9, <1>k DEF vars
<1> QED
  BY <1>1, <1>2, <1>3, <1>4, <1>5, <1>6, <1>7, <1>8, <1>9 DEF Next

-----------------------------------------------------------------------------
(* Files without a row. *)

\* Whose step may change a file while the removal waits for its last step, or after it.
LEMMA NextOrphan ==
    ASSUME TypeInv, LockInv, RowInv, OrphanInv, [Next]_vars
    PROVE  OrphanInv'
<1> USE DEF fileVars, clockVars, reserveVars, outboxVars, ghostVars
<1> DEFINE Empty(d) == files[d] \in {None, <<>>}
           Gone == row.status = "none" \/ \E r \in Removers : remove[r] = "removed"
<1>t. /\ TypeOK /\ row \in Rows /\ Directories = {"tmp", "quarantine", "objects"}
      /\ files \in [Directories -> Contents \cup {None}]
      /\ remove \in [Removers -> {"idle", "waiting", "checked", "removed", "unlocked"}]
  BY DEF TypeInv, TypeOK, Directories
<1>g. Gone => \A d \in Directories : Empty(d)
  BY DEF OrphanInv, NoOrphanBytes
<1>e. (Gone' => \A d \in Directories : Empty(d)') => OrphanInv'
  BY DEF OrphanInv, NoOrphanBytes
\* A goroutine at work under the mutex of a row that exists is not in the way of a removal.
<1>w. ASSUME NEW a \in Actors, a \notin Removers, row.status # "none", Busy(a) \/ (Waits(a) /\ LockFree(a))
      PROVE  ~Gone
  BY <1>t, <1>w, WorksAlone DEF Quiet
<1> HIDE DEF Gone
<1>k. ASSUME Gone' => Gone, Gone => \A d \in Directories : files'[d] \in {files[d], None, <<>>}
      PROVE  OrphanInv'
  BY <1>e, <1>g, <1>k
<1>1. CASE ReserveStep
  <2>1. CASE ReserveInsert
    <3>1. NewRow.status # "none"
      BY DEF NewRow
    <3> QED
      BY <1>k, <2>1, <3>1 DEF ReserveInsert, Gone
  <2>2. CASE ReserveCreateFile
    BY <1>k, <1>t, <2>2 DEF ReserveCreateFile, Gone
  <2>3. CASE ReserveFails
    BY <1>e, <1>t, <2>3 DEF ReserveFails, RowInv
  <2> QED
    BY <1>1, <2>1, <2>2, <2>3 DEF ReserveStep
<1>2. ASSUME NEW h \in Handlers, PatchStep(h) PROVE OrphanInv'
  <2>1. remove' = remove /\ (row'.status = "none" => row.status = "none")
    BY <1>2, <1>t DEF PatchStep, PatchCheck, PatchEnter, PatchRefused, PatchWrite, PatchWriteFails, PatchRecord,
       PatchUnrecorded, PatchQuarantine, PatchMarkPending, PatchIsolationFails, OffsetMatches, PendingRow, Rows
  <2>2. CASE patch[h].pc \in {"ready", "written", "recorded", "moved"}
    <3>1. Busy(h) /\ row.status # "none" /\ h \in Actors /\ h \notin Removers
      BY <2>2, ActorsAreDistinct DEF Busy, RowInv
    <3>2. ~Gone
      BY <1>w, <3>1
    <3> QED
      BY <1>k, <2>1, <3>2 DEF Gone
  <2>3. CASE patch[h].pc \notin {"ready", "written", "recorded", "moved"}
    <3>1. files' = files
      BY <1>2, <2>3 DEF PatchStep, PatchCheck, PatchEnter, PatchRefused, PatchWrite, PatchWriteFails, PatchRecord,
         PatchUnrecorded, PatchQuarantine, PatchMarkPending, PatchIsolationFails
    <3> QED
      BY <1>k, <2>1, <3>1 DEF Gone
  <2> QED
    BY <2>2, <2>3
<1>3. CASE RecoverStep
  <2>1. remove' = remove /\ (row'.status = "none" => row.status = "none")
    BY <1>3, <1>t DEF RecoverStep, RecoverList, RecoverQuarantine, RecoverMarkPending, RecoverFails, PendingRow, Rows
  <2>2. CASE ~RecoverQuarantine
    BY <1>3, <1>k, <2>1, <2>2 DEF RecoverStep, RecoverList, RecoverMarkPending, RecoverFails, Gone
  <2>3. CASE RecoverQuarantine
    <3>1. Waits("recoverer") /\ LockFree("recoverer") /\ files' = Quarantined
      BY <2>3 DEF RecoverQuarantine, Lock, Waits
    <3>2. "recoverer" \in Actors /\ "recoverer" \notin Removers
      BY DEF Actors, Removers
    <3>3. CASE row.status # "none"
      BY <1>k, <1>w, <2>1, <3>1, <3>2, <3>3 DEF Gone
    <3>4. CASE row.status = "none"
      <4>1. files["tmp"] \in {None, <<>>} /\ files["quarantine"] \in {None, <<>>}
        BY <1>g, <1>t, <3>4 DEF Gone
      <4>2. \A d \in Directories : files'[d] \in {files[d], None, <<>>}
        BY <1>t, <3>1, <4>1 DEF Quarantined
      <4> QED
        BY <1>k, <2>1, <4>2 DEF Gone
    <3> QED
      BY <3>3, <3>4
  <2> QED
    BY <2>2, <2>3
<1>4. CASE ScanStep
  <2>1. remove' = remove /\ (row'.status = "none" => row.status = "none")
    BY <1>4, <1>t DEF ScanStep, ClaimPendingScans, ScanStart, ScanReleases, ReleasedRow, ScanPromote, ScanQuarantine,
       CompleteScan, FinalStatus, ScanDiscard, ScanEnds, Rows
  <2>2. CASE scan.pc \in {"clean", "error", "discard"}
    <3>1. Busy("scanner") /\ row.status # "none"
      BY <2>2 DEF Busy, RowInv
    <3>2. "scanner" \in Actors /\ "scanner" \notin Removers
      BY DEF Actors, Removers
    <3>3. ~Gone
      BY <1>w, <3>1, <3>2
    <3> QED
      BY <1>k, <2>1, <3>3 DEF Gone
  <2>3. CASE scan.pc \notin {"clean", "error", "discard"}
    <3>1. files' = files
      BY <1>4, <2>3 DEF ScanStep, ClaimPendingScans, ScanStart, ScanReleases, ScanPromote, ScanQuarantine,
         CompleteScan, ScanDiscard, ScanEnds
    <3> QED
      BY <1>k, <2>1, <3>1 DEF Gone
  <2> QED
    BY <2>2, <2>3
<1>5. ASSUME NEW r \in Removers, RemoveStep(r) PROVE OrphanInv'
  <2>1. \A q \in Removers \ {r} : remove'[q] = remove[q]
    BY <1>5, <1>t DEF RemoveStep, StartRemoval, EnterRemoval, SkipRemoval, RemoveFiles, RemovalFails, DeleteRow, RemoveAs
  <2>2. \A pc : RemoveAs(r, pc) => remove'[r] = pc
    BY <1>t DEF RemoveAs
  <2>3. CASE RemoveFiles(r)
    BY <1>e, <2>3 DEF RemoveFiles, RemainingFiles, NoFiles
  <2>4. CASE DeleteRow(r)
    BY <1>k, <2>4 DEF DeleteRow, Gone
  <2>5. CASE ~RemoveFiles(r) /\ ~DeleteRow(r)
    <3>1. row' = row /\ remove'[r] # "removed"
      BY <1>5, <2>2, <2>5 DEF RemoveStep, StartRemoval, EnterRemoval, SkipRemoval, RemovalFails
    <3>2. \A d \in Directories : files'[d] \in {files[d], None}
      BY <1>5, <2>5 DEF RemoveStep, StartRemoval, EnterRemoval, SkipRemoval, RemovalFails
    <3> QED
      BY <1>k, <2>1, <3>1, <3>2 DEF Gone
  <2> QED
    BY <2>3, <2>4, <2>5
<1>6. CASE EnvironmentStep
  <2>1. files' = files /\ (row'.status = "none" => row.status = "none")
    BY <1>6, <1>t DEF EnvironmentStep, LeaseLapses, DeliverEvent, AckEvent, DropLock, OpenObject, PrepareSession,
       EndSession, Expire, Crash, Rows
  <2>2. \A r \in Removers : remove'[r] \in {remove[r], "idle"}
    BY <1>6, <1>t DEF EnvironmentStep, LeaseLapses, DeliverEvent, AckEvent, DropLock, OpenObject, PrepareSession,
       EndSession, Expire, Crash, RemoveAs
  <2> QED
    BY <1>k, <2>1, <2>2 DEF Gone
<1>7. CASE UNCHANGED vars
  BY <1>7, <1>k DEF vars, Gone
<1> QED
  BY <1>1, <1>2, <1>3, <1>4, <1>5, <1>6, <1>7 DEF Next, EnvironmentStep

-----------------------------------------------------------------------------
(* Acknowledged bytes. *)

LEMMA AckedBytes ==
    ASSUME TypeInv
    PROVE  /\ acked \in Contents /\ acked \in Seq(Data \cup {Torn}) /\ acked # None
           /\ Len(acked) \in Nat /\ Len(acked) <= Length
           /\ SubSeq(acked, 1, Len(acked)) = acked
           /\ Len(acked) = 0 => acked = <<>>
<1>1. acked \in Contents /\ acked \in Seq(Data \cup {Torn}) /\ Len(acked) <= Length
  BY ContentsAreSequences DEF TypeInv, TypeOK
<1>2. acked # None /\ Len(acked) \in Nat
  BY <1>1, NoneAssumption, LenProperties
<1>3. SubSeq(acked, 1, Len(acked)) = acked
  BY <1>1, SubSeqFull
<1>4. Len(acked) = 0 => acked = <<>>
  BY <1>1, EmptySeq
<1> QED
  BY <1>1, <1>2, <1>3, <1>4

LEMMA InitContent == Init => ContentInv
<1> SUFFICES ASSUME Init PROVE ContentInv
  OBVIOUS
<1>1. row.status = "none" /\ scan.pc = "idle" /\ \A h \in Handlers : patch[h].pc = "idle"
  BY DEF Init, NoRow, IdleScan, IdlePatch
<1> QED
  BY <1>1 DEF Init, ContentInv, UploadingInv, StoredInv, WorkInv

LEMMA ReserveContent == ASSUME TypeInv, RowInv, ContentInv, ReserveStep PROVE ContentInv'
<1> USE DEF clockVars, lockVars, outboxVars, ghostVars
<1>t. row \in Rows /\ files \in [Directories -> Contents \cup {None}]
  BY DEF TypeInv, TypeOK
<1>n. /\ NoRow.status = "none" /\ NewRow.status = "uploading" /\ NewRow.offset = 0
      /\ "tmp" \in Directories /\ "quarantine" \in Directories /\ "objects" \in Directories
  BY DEF NoRow, NewRow, Directories
<1>i. /\ ~issued /\ row.status \in {"none", "uploading"} /\ row.offset = 0 /\ download = "idle"
      /\ files["tmp"] \in {None, <<>>} /\ files["quarantine"] = None /\ files["objects"] = None
      /\ recover = "idle" /\ scan.pc = "idle" /\ \A h \in Handlers : patch[h].pc = "idle"
  BY DEF ReserveStep, ReserveInsert, ReserveCreateFile, ReserveFails, RowInv
<1>a. row'.status = "uploading" => Len(acked) = 0 /\ acked = <<>> /\ SubSeq(acked, 1, 0) = acked
  <2>1. row'.status = "uploading" => Len(acked) = 0
    BY <1>i, <1>n, EmptyTypes DEF ReserveStep, ReserveInsert, ReserveCreateFile, ReserveFails, TypeInv
  <2> QED
    BY <2>1, AckedBytes
<1>1. /\ UNCHANGED <<acked, doomed, download, patch, recover, scan>>
      /\ row' \in {row, NoRow, NewRow}
      /\ files'["tmp"] \in {files["tmp"], <<>>} /\ files'["quarantine"] = None /\ files'["objects"] = None
  BY <1>i, <1>n, <1>t DEF ReserveStep, ReserveInsert, ReserveCreateFile, ReserveFails
<1>2. row'.status = "none" \/ (row'.status = "uploading" /\ row'.offset = 0)
  BY <1>1, <1>i, <1>n
<1>3. row'.status = "uploading" => files'["tmp"] \in {None, acked}
  BY <1>1, <1>a, <1>i
<1>4. UploadingInv'
  BY <1>1, <1>2, <1>3, <1>a, StorageUploadAssumption DEF UploadingInv
<1>5. StoredInv' /\ WorkInv'
  BY <1>1, <1>2, <1>i DEF StoredInv, WorkInv
<1> QED
  BY <1>4, <1>5 DEF ContentInv

\* What a step of a PATCH handler may use: nobody else is at work on the row.
LEMMA PatchIsAlone ==
    ASSUME TypeInv, LockInv, RowInv, NEW h \in Handlers, patch[h].pc \in {"ready", "written", "recorded", "moved"}
    PROVE  /\ row.status = "uploading" /\ scan.pc = "idle" /\ download = "idle" /\ recover # "moved"
           /\ \A g \in Handlers \ {h} : patch[g].pc \in {"idle", "checked"}
<1>1. row.status = "uploading" /\ Busy(h) /\ h \in Actors
  BY ActorsAreDistinct DEF Busy, RowInv
<1>2. Quiet(h)
  BY <1>1, WorksAlone DEF TypeInv
<1> QED
  BY <1>1, <1>2, ActorsAreDistinct DEF Quiet, RowInv

LEMMA PatchContent ==
    ASSUME TypeInv, LockInv, RowInv, ContentInv, NEW h \in Handlers, PatchStep(h)
    PROVE  ContentInv'
<1> USE DEF fileVars, clockVars, reserveVars, outboxVars, ghostVars
<1>t. /\ TypeOK /\ row \in Rows /\ row.offset \in Nat /\ row.offset <= Length
      /\ patch \in [Handlers -> Patches] /\ files \in [Directories -> Contents \cup {None}]
      /\ "tmp" \in Directories /\ "quarantine" \in Directories /\ "objects" \in Directories
  BY StorageUploadAssumption DEF TypeInv, TypeOK, Rows, Directories
<1>u. /\ UNCHANGED <<download, recover, scan, doomed>>
      /\ \A g \in Handlers \ {h} : patch'[g] = patch[g]
  BY <1>t DEF PatchStep, PatchCheck, PatchEnter, PatchRefused, PatchWrite, PatchWriteFails, PatchRecord,
     PatchUnrecorded, PatchQuarantine, PatchMarkPending, PatchIsolationFails, PatchAs, EndPatch
<1>4. /\ EndPatch(h) => patch'[h].pc = "idle"
      /\ \A pc \in {"ready", "written", "recorded", "moved"} :
             PatchAs(h, pc) => patch'[h].pc = pc /\ patch'[h].data = patch[h].data
  BY <1>t DEF EndPatch, PatchAs, IdlePatch, Patches
\* Nothing is written.
<1>s. ASSUME UNCHANGED <<row, files, acked>>, patch'[h].pc \notin {"written", "moved"} PROVE ContentInv'
  BY <1>s, <1>u DEF ContentInv, UploadingInv, StoredInv, WorkInv
\* The handler works alone on an upload that lacks chunks: only tmp/ changes.
<1>w. ASSUME patch[h].pc \in {"ready", "written"}, UNCHANGED <<row, acked>>,
             files'["quarantine"] = files["quarantine"], files'["objects"] = files["objects"],
             files'["tmp"] # None => Len(files'["tmp"]) >= row.offset /\ SubSeq(files'["tmp"], 1, row.offset) = acked,
             files'["tmp"] = None => files["tmp"] = None,
             patch'[h].pc \in {"written", "moved"} =>
                 patch'[h].pc = "written" /\ files'["tmp"] = Append(acked, patch'[h].data)
      PROVE  ContentInv'
  <2>1. /\ row.status = "uploading" /\ row.offset < Length /\ scan.pc = "idle" /\ download = "idle" /\ recover # "moved"
        /\ \A g \in Handlers \ {h} : patch[g].pc \in {"idle", "checked"}
    BY <1>t, <1>w, PatchIsAlone DEF TypeInv, RowInv, Patches
  <2>2. UploadingInv'
    BY <1>t, <1>u, <1>w, <2>1, StorageUploadAssumption DEF ContentInv, UploadingInv
  <2>3. StoredInv' /\ WorkInv'
    BY <1>u, <1>w, <2>1 DEF StoredInv, WorkInv
  <2> QED
    BY <2>2, <2>3 DEF ContentInv
<1>c. ASSUME patch[h].pc = "ready", Appendable(h), NEW d \in Data \cup {Torn}
      PROVE  /\ Chunked(h, d) = Append(acked, d) /\ Chunked(h, d) # None
             /\ Len(Chunked(h, d)) >= row.offset /\ SubSeq(Chunked(h, d), 1, row.offset) = acked
  <2>1. /\ row.status = "uploading" /\ row.offset = patch[h].offset /\ row.offset < Length
        /\ files["tmp"] \in Contents /\ Len(files["tmp"]) >= row.offset
        /\ SubSeq(files["tmp"], 1, row.offset) = acked
    BY <1>c, <1>t DEF Appendable, TypeInv, RowInv, ContentInv, UploadingInv
  <2>2. Append(acked, d) \in Contents /\ Len(Append(acked, d)) = row.offset + 1
        /\ SubSeq(Append(acked, d), 1, row.offset) = acked
    BY <1>t, <2>1, CutAndWrite
  <2>3. Chunked(h, d) = Append(acked, d)
    BY <2>1 DEF Chunked
  <2>4. Append(acked, d) # None
    BY <2>2, NoneAssumption
  <2> QED
    BY <1>t, <2>2, <2>3, <2>4
<1>1. ASSUME NEW d \in Data, PatchCheck(h, d) PROVE ContentInv'
  <2>1. patch'[h].pc = "checked"
    BY <1>1, <1>t DEF PatchCheck
  <2> QED
    BY <1>1, <1>s, <2>1 DEF PatchCheck
<1>2. CASE PatchEnter(h) \/ PatchRefused(h) \/ PatchIsolationFails(h)
  BY <1>2, <1>4, <1>s DEF PatchEnter, PatchRefused, PatchIsolationFails
<1>3. CASE PatchWrite(h)
  <2>1. /\ patch[h].pc = "ready" /\ Appendable(h) /\ patch[h].data \in Data
        /\ files' = [files EXCEPT !["tmp"] = Chunked(h, patch[h].data)]
        /\ patch'[h].pc = "written" /\ patch'[h].data = patch[h].data /\ UNCHANGED <<row, acked>>
    BY <1>3, <1>4 DEF PatchWrite, TypeInv
  <2> QED
    BY <1>c, <1>t, <1>w, <2>1
<1>5. CASE PatchWriteFails(h)
  <2>1. patch[h].pc = "ready" /\ patch'[h].pc = "idle" /\ UNCHANGED <<row, acked>>
    BY <1>5, <1>4 DEF PatchWriteFails
  <2>2. CASE files' = files
    BY <1>s, <2>1, <2>2
  <2>3. CASE Appendable(h) /\ files' = [files EXCEPT !["tmp"] = Chunked(h, Torn)]
    BY <1>c, <1>t, <1>w, <2>1, <2>3
  <2> QED
    BY <1>5, <2>2, <2>3 DEF PatchWriteFails
<1>6. CASE PatchUnrecorded(h)
  <2>1. patch[h].pc = "written" /\ patch'[h].pc = "idle" /\ UNCHANGED <<row, acked>>
    BY <1>6, <1>4 DEF PatchUnrecorded
  <2>2. CASE files' = files
    BY <1>s, <2>1, <2>2
  <2>3. CASE files' = [files EXCEPT !["tmp"] = SubSeq(files["tmp"], 1, patch[h].offset)]
    <3>1. SubSeq(files["tmp"], 1, patch[h].offset) = acked /\ row.status = "uploading"
      BY <2>1, WrittenFile DEF ContentInv, RowInv
    <3>2. Len(acked) = row.offset /\ SubSeq(acked, 1, row.offset) = acked /\ acked # None
      BY <3>1, AckedBytes DEF TypeInv
    <3>3. files'["tmp"] = acked /\ files'["quarantine"] = files["quarantine"] /\ files'["objects"] = files["objects"]
      BY <1>t, <2>3, <3>1
    <3> QED
      BY <1>t, <1>w, <2>1, <3>2, <3>3
  <2> QED
    BY <1>6, <1>t, <2>2, <2>3 DEF PatchUnrecorded
<1>7. CASE PatchRecord(h)
  <2>1. /\ patch[h].pc = "written" /\ row.status = "uploading" /\ row.offset = patch[h].offset /\ row.offset < Length
        /\ acked' = Append(acked, patch[h].data) /\ files' = files
        /\ row'.status = "uploading" /\ row'.offset = row.offset + 1
    BY <1>7, <1>t DEF PatchRecord, OffsetMatches, TypeInv, Rows
  <2>2. /\ scan.pc = "idle" /\ download = "idle" /\ recover # "moved"
        /\ \A g \in Handlers \ {h} : patch[g].pc \in {"idle", "checked"}
    BY <2>1, PatchIsAlone
  <2>3. files["tmp"] = acked' /\ Len(acked') = row.offset + 1 /\ acked' \in Contents
    BY <2>1, WrittenFile DEF ContentInv, WorkInv
  <2>4. acked' # None /\ SubSeq(acked', 1, row.offset + 1) = acked'
    <3>1. acked' \in Seq(Data \cup {Torn})
      BY <2>3, ContentsAreSequences
    <3>2. SubSeq(acked', 1, Len(acked')) = acked'
      BY <3>1, SubSeqFull
    <3> QED
      BY <2>3, <3>2, NoneAssumption
  <2>5. files["quarantine"] = None /\ files["objects"] = None
    BY <2>1 DEF ContentInv, UploadingInv
  <2>6. UploadingInv'
    BY <1>t, <2>1, <2>3, <2>4, <2>5 DEF UploadingInv
  <2>7. patch'[h].pc \in {"idle", "recorded"}
    BY <1>7, <1>4 DEF PatchRecord
  <2>8. StoredInv' /\ WorkInv'
    BY <1>u, <2>1, <2>2, <2>7 DEF StoredInv, WorkInv
  <2> QED
    BY <2>6, <2>8 DEF ContentInv
<1>8. CASE PatchQuarantine(h)
  <2>1. patch[h].pc = "recorded" /\ CanQuarantine /\ files' = Quarantined /\ UNCHANGED <<row, acked>>
        /\ patch'[h].pc = "moved"
    BY <1>8, <1>4 DEF PatchQuarantine
  <2>2. /\ row.status = "uploading" /\ scan.pc = "idle" /\ download = "idle" /\ recover # "moved"
        /\ \A g \in Handlers \ {h} : patch[g].pc \in {"idle", "checked"} /\ row.offset = Length
    BY <2>1, PatchIsAlone DEF RowInv
  <2>3. row.offset = Length
    BY <2>1 DEF RowInv
  <2>4. files'["tmp"] = None /\ files'["quarantine"] = acked /\ files'["objects"] = None
    BY <1>t, <2>1, <2>2, <2>3 DEF CanQuarantine, Quarantined, ContentInv, UploadingInv
  <2>5. UploadingInv'
    BY <1>u, <2>1, <2>3, <2>4, StorageUploadAssumption DEF UploadingInv
  <2>6. StoredInv' /\ WorkInv'
    BY <1>u, <2>1, <2>2, <2>4 DEF StoredInv, WorkInv
  <2> QED
    BY <2>5, <2>6 DEF ContentInv
<1>9. CASE PatchMarkPending(h)
  <2>1. patch[h].pc = "moved" /\ row' = PendingRow /\ UNCHANGED <<files, acked>> /\ patch'[h].pc = "idle"
    BY <1>9, <1>4 DEF PatchMarkPending
  <2>2. /\ row.status = "uploading" /\ scan.pc = "idle" /\ download = "idle" /\ recover # "moved"
        /\ \A g \in Handlers \ {h} : patch[g].pc \in {"idle", "checked"}
    BY <2>1, PatchIsAlone
  <2>3. files["tmp"] = None /\ files["quarantine"] = acked /\ files["objects"] = None /\ row.offset = Length
    BY <2>1, <2>2 DEF RowInv, ContentInv, UploadingInv, WorkInv
  <2>4. row'.status = "pending_scan"
    BY <1>t, <2>1, <2>2, <2>3 DEF PendingRow, Rows
  <2>5. UploadingInv' /\ StoredInv'
    BY <1>u, <2>1, <2>2, <2>3, <2>4 DEF UploadingInv, StoredInv
  <2>6. WorkInv'
    BY <1>u, <2>1, <2>2 DEF WorkInv
  <2> QED
    BY <2>5, <2>6 DEF ContentInv
<1> QED
  BY <1>1, <1>2, <1>3, <1>5, <1>6, <1>7, <1>8, <1>9 DEF PatchStep

LEMMA RecoverContent == ASSUME TypeInv, LockInv, RowInv, ContentInv, RecoverStep PROVE ContentInv'
<1> USE DEF fileVars, clockVars, reserveVars, outboxVars, ghostVars
<1>t. /\ TypeOK /\ row \in Rows /\ files \in [Directories -> Contents \cup {None}] /\ "recoverer" \in Actors
      /\ "tmp" \in Directories /\ "quarantine" \in Directories /\ "objects" \in Directories
  BY ActorsAreDistinct DEF TypeInv, TypeOK, Directories
<1>u. UNCHANGED <<acked, doomed, download, patch, scan>>
  BY DEF RecoverStep, RecoverList, RecoverQuarantine, RecoverMarkPending, RecoverFails
<1>1. CASE RecoverList \/ RecoverFails
  <2>1. UNCHANGED <<row, files>> /\ recover' # "moved"
    BY <1>1 DEF RecoverList, RecoverFails
  <2> QED
    BY <1>u, <2>1 DEF ContentInv, UploadingInv, StoredInv, WorkInv
<1>2. CASE RecoverQuarantine
  <2>1. /\ recover = "listed" /\ CanQuarantine /\ LockFree("recoverer") /\ files' = Quarantined
        /\ row' = row /\ recover' = "moved"
    BY <1>2 DEF RecoverQuarantine, Lock
  \* The whole upload is in tmp/ or in quarantine/.
  <2>2. CASE row.status = "uploading"
    <3>1. Waits("recoverer") /\ row.offset = Length
      BY <2>1, <2>2 DEF Waits, RowInv
    <3>2. Quiet("recoverer")
      BY <1>t, <2>1, <2>2, <3>1, WorksAlone
    <3>3. /\ \A h \in Handlers : patch[h].pc \in {"idle", "checked"}
          /\ scan.pc = "idle" /\ download = "idle"
      BY <2>2, <3>2, ActorsAreDistinct DEF Quiet, RowInv
    <3>4. files'["tmp"] = None /\ files'["quarantine"] = acked /\ files'["objects"] = None
      BY <1>t, <2>1, <2>2, <3>1 DEF CanQuarantine, Quarantined, ContentInv, UploadingInv
    <3>5. UploadingInv'
      BY <1>u, <2>1, <3>1, <3>4, StorageUploadAssumption DEF UploadingInv
    <3>6. StoredInv' /\ WorkInv'
      BY <1>u, <2>1, <2>2, <3>3, <3>4 DEF StoredInv, WorkInv
    <3> QED
      BY <3>5, <3>6 DEF ContentInv
  \* The list was stale: tmp/ is empty, the file in quarantine/ stays what it is.
  <2>3. CASE row.status \notin {"none", "uploading"}
    <3>1. \A d \in Directories : files'[d] = files[d]
      BY <1>t, <2>1, <2>3 DEF Quarantined, CanQuarantine, ContentInv, StoredInv
    <3>2. scan.file # None /\ scan.pc \in {"scanning", "clean", "error", "blocked"} => scan.file \in Directories
      BY <1>t DEF TypeOK, Scans
    <3>3. /\ row.path # None => row.path \in Directories
          /\ scan.pc = "report" => scan.path \in Directories
      BY <1>t DEF Rows, RowInv
    <3>4. UploadingInv' /\ StoredInv'
      BY <1>t, <1>u, <2>1, <2>3, <3>1, <3>3 DEF ContentInv, UploadingInv, StoredInv
    <3>5. WorkInv'
      BY <1>t, <1>u, <2>1, <2>3, <3>1, <3>2, <3>3 DEF ContentInv, WorkInv, RowInv
    <3> QED
      BY <3>4, <3>5 DEF ContentInv
  \* The upload is gone: nobody counts on a file.
  <2>4. CASE row.status = "none"
    BY <1>u, <2>1, <2>4 DEF ContentInv, UploadingInv, StoredInv, WorkInv, RowInv
  <2> QED
    BY <2>2, <2>3, <2>4
<1>3. CASE RecoverMarkPending
  <2>1. recover = "moved" /\ row' = PendingRow /\ recover' = "idle" /\ UNCHANGED files
    BY <1>3 DEF RecoverMarkPending
  <2>2. CASE row.status # "uploading"
    BY <1>u, <2>1, <2>2 DEF PendingRow, ContentInv, UploadingInv, StoredInv, WorkInv
  <2>3. CASE row.status = "uploading"
    <3>1. Busy("recoverer") /\ row.offset = Length
      BY <2>1, <2>3 DEF Busy, RowInv
    <3>2. Quiet("recoverer")
      BY <1>t, <2>3, <3>1, WorksAlone
    <3>3. /\ \A h \in Handlers : patch[h].pc \in {"idle", "checked"}
          /\ scan.pc = "idle" /\ download = "idle"
      BY <2>3, <3>2, ActorsAreDistinct DEF Quiet, RowInv
    <3>4. files["tmp"] = None /\ files["quarantine"] = acked /\ files["objects"] = None
      BY <2>1, <2>3 DEF ContentInv, UploadingInv, WorkInv
    <3>5. row'.status = "pending_scan"
      BY <1>t, <2>1, <2>3, <3>1 DEF PendingRow, Rows
    <3> QED
      BY <1>u, <2>1, <3>3, <3>4, <3>5 DEF ContentInv, UploadingInv, StoredInv, WorkInv
  <2> QED
    BY <2>2, <2>3
<1> QED
  BY <1>1, <1>2, <1>3 DEF RecoverStep

LEMMA ScanContent == ASSUME TypeInv, LockInv, RowInv, ContentInv, ScanStep PROVE ContentInv'
<1> USE DEF fileVars, clockVars, reserveVars, outboxVars, ghostVars
<1>t. /\ TypeOK /\ row \in Rows /\ scan \in Scans /\ files \in [Directories -> Contents \cup {None}]
      /\ Directories = {"tmp", "quarantine", "objects"} /\ "scanner" \in Actors
  BY ActorsAreDistinct DEF TypeInv, TypeOK, Directories
<1>n. None # "tmp" /\ None # "quarantine" /\ None # "objects" /\ acked # None
  BY NoneAssumption, AckedBytes DEF Directories
<1>u. UNCHANGED <<acked, doomed, download, patch, recover>>
  BY DEF ScanStep, ClaimPendingScans, ScanStart, ScanReleases, ScanPromote, ScanQuarantine,
     CompleteScan, ScanDiscard, ScanEnds
<1>e. EndScan => scan'.pc = "idle"
  BY DEF EndScan, IdleScan
\* Whoever has claimed the row finds the bytes in quarantine/ or in objects/.
<1>q. ASSUME row.status \in {"pending_scan", "scanning", "blocked"}
      PROVE  /\ files["tmp"] = None /\ files["quarantine"] \in {None, acked} /\ files["objects"] \in {None, acked}
             /\ row.status # "blocked" /\ ~doomed => acked \in {files["quarantine"], files["objects"]}
             /\ download = "idle" /\ Len(acked) = Length
             /\ \A h \in Handlers : patch[h].pc \notin {"ready", "written", "recorded", "moved"}
  BY <1>q DEF ContentInv, StoredInv, RowInv
\* The row is not decided: the files stay between quarantine/ and objects/.
<1>s. ASSUME row.status = "scanning", row'.status \in {"pending_scan", "scanning"},
             files'["tmp"] = None, files'["quarantine"] \in {None, acked}, files'["objects"] \in {None, acked},
             ~doomed => acked \in {files'["quarantine"], files'["objects"]},
             scan'.pc \in {"scanning", "clean", "error", "blocked"} =>
                 IF scan'.file = None THEN doomed ELSE files'[scan'.file] = acked,
             scan'.pc = "publish" => files'["objects"] = acked,
             scan'.pc = "report" /\ ~doomed => files'[scan'.path] = acked
      PROVE  ContentInv'
  <2>1. UploadingInv' /\ StoredInv'
    BY <1>q, <1>s, <1>u DEF UploadingInv, StoredInv
  <2>2. WorkInv'
    BY <1>q, <1>s, <1>u DEF WorkInv
  <2> QED
    BY <2>1, <2>2 DEF ContentInv
<1>1. ASSUME NEW l \in Leases, ClaimPendingScans(l) PROVE ContentInv'
  <2>1. row.status \in {"pending_scan", "scanning"} /\ files' = files
    BY <1>1 DEF ClaimPendingScans, Claimable
  <2>2. row'.status = "scanning" /\ scan'.pc = "claimed"
    BY <1>1, <1>t DEF ClaimPendingScans, IdleScan, Rows
  <2>3. UploadingInv' /\ StoredInv'
    BY <1>q, <1>u, <2>1, <2>2 DEF UploadingInv, StoredInv
  <2>4. WorkInv'
    BY <1>q, <1>u, <2>1, <2>2 DEF WorkInv
  <2> QED
    BY <2>3, <2>4 DEF ContentInv
<1>2. CASE ScanStart
  <2>1. scan.path = "quarantine" /\ row' = row /\ files' = files
    BY <1>2 DEF ScanStart, RowInv
  <2>2. scan'.pc = "scanning" /\ scan'.file = ScanPath
    BY <1>2, <1>t DEF ScanStart, Scans
  <2>3. CASE row.status = "none"
    BY <1>u, <2>1, <2>2, <2>3 DEF ContentInv, UploadingInv, StoredInv, WorkInv
  <2>4. CASE row.status # "none"
    <3>1. row.status = "scanning"
      BY <1>2, <2>4 DEF ScanStart, RowInv
    <3>2. IF ScanPath = None THEN doomed ELSE files[ScanPath] = acked
      <4>1. /\ ScanPath = None => files["quarantine"] # acked /\ files["objects"] # acked
            /\ ScanPath # None => ScanPath \in {"quarantine", "objects"} /\ files[ScanPath] # None
        BY <1>n, <1>q, <2>1, <3>1 DEF ScanPath, Complete
      <4> QED
        BY <1>q, <3>1, <4>1
    <3> QED
      BY <1>q, <1>s, <2>1, <2>2, <3>1, <3>2
  <2> QED
    BY <2>3, <2>4
<1>3. CASE ScanReleases
  <2>1. scan'.pc = "idle" /\ files' = files /\ row' \in {row, ReleasedRow}
    BY <1>3, <1>e DEF ScanReleases
  <2>2. CASE row' = row
    BY <1>u, <2>1, <2>2 DEF ContentInv, UploadingInv, StoredInv, WorkInv
  <2>3. CASE row' # row
    <3>1. row.status = "scanning" /\ row'.status = "pending_scan"
      BY <1>t, <2>1, <2>3 DEF ReleasedRow, Rows
    <3> QED
      BY <1>q, <1>s, <2>1, <3>1
  <2> QED
    BY <2>2, <2>3
<1>4. CASE ScanPromote
  <2>1. /\ row.status = "scanning" /\ row' = row /\ scan.file \in {"quarantine", "objects"}
        /\ files[scan.file] = acked
        /\ files' = IF scan.file = "objects" THEN files ELSE Move(scan.file, "objects")
    BY <1>4, <1>n, <1>t DEF ScanPromote, RowInv, TypeInv, ContentInv, WorkInv
  <2>2. scan'.pc = "publish"
    BY <1>4, <1>t DEF ScanPromote, Scans
  <2>3. /\ files'["tmp"] = None /\ files'["quarantine"] \in {None, acked} /\ files'["objects"] = acked
    BY <1>q, <1>t, <2>1 DEF Move
  <2> QED
    BY <1>s, <2>1, <2>2, <2>3
<1>5. CASE ScanQuarantine
  <2>1. /\ row.status = "scanning" /\ row' = row /\ scan.path = "quarantine"
        /\ scan.file \in {"quarantine", "objects", None}
        /\ IF scan.file = None THEN doomed ELSE files[scan.file] = acked
    BY <1>5, <1>t DEF ScanQuarantine, RowInv, Scans, ContentInv, WorkInv
  <2>2. scan'.pc = "report"
    BY <1>5, <1>t DEF ScanQuarantine, Scans
  <2>3. CASE scan.file # "objects"
    <3>1. files' = files /\ scan'.path = "quarantine"
      BY <1>5, <1>n, <1>t, <2>1, <2>3 DEF ScanQuarantine, Scans
    <3> QED
      BY <1>q, <1>s, <2>1, <2>2, <2>3, <3>1
  <2>4. CASE scan.file = "objects"
    <3>1. \/ files' = Move("objects", "quarantine") /\ scan'.path = "quarantine"
          \/ files' = files /\ scan'.path = "objects"
      BY <1>5, <1>n, <1>t, <2>1, <2>4 DEF ScanQuarantine, Scans
    <3>2. /\ files'["tmp"] = None /\ files'["quarantine"] \in {None, acked} /\ files'["objects"] \in {None, acked}
          /\ files'[scan'.path] = acked /\ acked \in {files'["quarantine"], files'["objects"]}
      BY <1>n, <1>q, <1>t, <2>1, <2>4, <3>1 DEF Move
    <3> QED
      BY <1>s, <2>1, <2>2, <3>2
  <2> QED
    BY <2>3, <2>4
<1>6. CASE CompleteScan
  <2>1. row.status = "scanning" /\ files' = files
    BY <1>6 DEF CompleteScan, HoldsLease
  <2>2. /\ row'.status = FinalStatus /\ row'.path = (IF scan.pc = "blocked" THEN None ELSE scan.path)
        /\ FinalStatus \in {"clean", "blocked", "scanner_error"}
        /\ (FinalStatus = "clean" => scan.pc = "publish")
        /\ (FinalStatus = "scanner_error" => scan.pc = "report")
    BY <1>6, <1>t DEF CompleteScan, FinalStatus, Rows
  <2>3. scan'.pc \in {"discard", "idle"}
    BY <1>6, <1>e, <1>t DEF CompleteScan, ScanAs, Scans
  <2>4. /\ scan.pc = "publish" => files["objects"] = acked
        /\ scan.pc = "report" => scan.path # None /\ (~doomed => files[scan.path] = acked)
    BY <1>n DEF ContentInv, WorkInv, RowInv
  <2>5. UploadingInv' /\ StoredInv'
    BY <1>q, <1>u, <2>1, <2>2, <2>4 DEF UploadingInv, StoredInv
  <2>6. WorkInv'
    BY <1>q, <1>u, <2>1, <2>2, <2>3 DEF WorkInv
  <2> QED
    BY <2>5, <2>6 DEF ContentInv
<1>7. CASE ScanDiscard
  <2>1. row.status = "blocked" /\ row' = row /\ scan'.pc = "idle" /\ scan.file \in {"quarantine", "objects"}
    BY <1>7, <1>e, <1>t DEF ScanDiscard, RowInv, TypeInv
  <2>2. \A d \in Directories : files'[d] \in {files[d], None}
    BY <1>7, <1>t DEF ScanDiscard
  <2>3. UploadingInv' /\ StoredInv'
    BY <1>q, <1>t, <1>u, <2>1, <2>2 DEF UploadingInv, StoredInv
  <2>4. WorkInv'
    BY <1>q, <1>u, <2>1 DEF WorkInv
  <2> QED
    BY <2>3, <2>4 DEF ContentInv
<1>8. ASSUME NEW pc \in {"clean", "blocked", "error"}, ScanEnds(pc) PROVE ContentInv'
  <2>1. scan'.pc = pc /\ scan'.file = scan.file /\ row' = row /\ files' = files /\ row.status = "scanning"
    BY <1>8, <1>t DEF ScanEnds, HoldsLease, ScanAs, Scans
  <2>2. IF scan.file = None THEN doomed ELSE files[scan.file] = acked
    BY <1>8, <2>1 DEF ScanEnds, ContentInv, WorkInv
  <2> QED
    BY <1>q, <1>s, <2>1, <2>2
<1> QED
  BY <1>1, <1>2, <1>3, <1>4, <1>5, <1>6, <1>7, <1>8 DEF ScanStep

LEMMA RemoveContent == ASSUME TypeInv, LockInv, RowInv, ContentInv, NEW r \in Removers, RemoveStep(r) PROVE ContentInv'
<1> USE DEF fileVars, clockVars, reserveVars, outboxVars, ghostVars
<1>t. /\ TypeOK /\ r \in Actors /\ r \notin {"reader", "scanner", "recoverer"} /\ r \notin Handlers
      /\ Directories = {"tmp", "quarantine", "objects"}
  BY ActorsAreDistinct DEF TypeInv, TypeOK, Removers, Directories
<1>u. UNCHANGED <<acked, download, patch, recover, scan>>
  BY DEF RemoveStep, StartRemoval, EnterRemoval, SkipRemoval, RemoveFiles, RemovalFails, DeleteRow
\* Under the lock nobody else is at work, and nobody reads.
<1>b. ASSUME remove[r] \in {"checked", "removed"}
      PROVE  /\ download = "idle"
             /\ \A h \in Handlers : patch[h].pc \notin {"ready", "written", "recorded", "moved"}
             /\ scan.pc \notin {"clean", "blocked", "error", "publish", "report", "discard"}
             /\ row.status # "none" => scan.pc # "scanning" /\ recover # "moved"
  <2>1. Busy(r) /\ download = "idle"
    BY <1>b DEF Busy, RowInv
  <2>2. CASE row.status = "none"
    BY <2>1, <2>2 DEF RowInv
  <2>3. CASE row.status # "none"
    BY <1>t, <2>1, <2>3, WorksAlone DEF Quiet
  <2> QED
    BY <2>2, <2>3, <2>1
<1>1. CASE StartRemoval(r) \/ EnterRemoval(r) \/ SkipRemoval(r)
  <2>1. UNCHANGED <<row, files, doomed>>
    BY <1>1 DEF StartRemoval, EnterRemoval, SkipRemoval
  <2> QED
    BY <1>u, <2>1 DEF ContentInv, UploadingInv, StoredInv, WorkInv
\* Files go; whenever one does, the upload is doomed.
<1>2. ASSUME remove[r] \in {"checked", "removed"}, row' = row,
             \A d \in Directories : files'[d] \in {files[d], None},
             doomed => doomed', ~doomed' => \A d \in Directories : files'[d] = files[d]
      PROVE  ContentInv'
  <2>1. row.path # None => row.path \in Directories
    BY <1>t DEF TypeOK, Rows
  <2>2. UploadingInv'
    BY <1>2, <1>t, <1>u DEF ContentInv, UploadingInv
  <2>3. StoredInv'
    BY <1>2, <1>b, <1>t, <1>u, <2>1 DEF ContentInv, StoredInv
  <2>4. WorkInv'
    BY <1>2, <1>b, <1>u DEF WorkInv
  <2> QED
    BY <2>2, <2>3, <2>4 DEF ContentInv
<1>3. CASE RemoveFiles(r)
  <2>1. \A d \in Directories : files'[d] = None
    BY <1>3 DEF RemoveFiles, RemainingFiles, NoFiles
  <2> QED
    BY <1>2, <1>3, <2>1 DEF RemoveFiles
<1>4. CASE RemovalFails(r)
  <2>1. PICK gone \in SUBSET Directories :
            /\ files' = [d \in Directories |-> IF d \in gone THEN None ELSE files[d]]
            /\ doomed' = (doomed \/ gone # {})
    BY <1>4 DEF RemovalFails, Directories
  <2>2. \A d \in Directories : files'[d] = IF d \in gone THEN None ELSE files[d]
    BY <2>1
  <2>3. doomed \in BOOLEAN
    BY <1>t DEF TypeOK
  <2>4. (doomed => doomed') /\ (~doomed' => gone = {})
    BY <2>1, <2>3
  <2> QED
    BY <1>2, <1>4, <2>2, <2>4 DEF RemovalFails
<1>5. CASE DeleteRow(r)
  <2>1. row' = NoRow /\ remove[r] = "removed" /\ UNCHANGED <<files, doomed>>
    BY <1>5 DEF DeleteRow
  <2>2. row'.status = "none"
    BY <2>1 DEF NoRow
  <2> QED
    BY <1>b, <1>u, <2>1, <2>2 DEF ContentInv, UploadingInv, StoredInv, WorkInv
<1> QED
  BY <1>1, <1>3, <1>4, <1>5 DEF RemoveStep

LEMMA EnvironmentContent == ASSUME TypeInv, RowInv, ContentInv, EnvironmentStep PROVE ContentInv'
<1> USE DEF fileVars, reserveVars, outboxVars, ghostVars
<1>t. row \in Rows
  BY DEF TypeInv, TypeOK
<1>u. UNCHANGED <<files, acked, doomed>>
  BY DEF EnvironmentStep, LeaseLapses, DeliverEvent, AckEvent, DropLock, OpenObject, PrepareSession,
     EndSession, Expire, Crash
<1>k. ASSUME row'.status = row.status, row'.offset = row.offset, row'.path = row.path,
             download' # "idle" => files["objects"] = acked,
             \/ UNCHANGED <<patch, recover, scan>>
             \/ recover' = "idle" /\ scan'.pc = "idle" /\ \A h \in Handlers : patch'[h].pc = "idle"
      PROVE  ContentInv'
  <2>1. UploadingInv' /\ StoredInv'
    BY <1>k, <1>u DEF ContentInv, UploadingInv, StoredInv
  <2>2. WorkInv'
    BY <1>k, <1>u DEF ContentInv, WorkInv
  <2> QED
    BY <2>1, <2>2 DEF ContentInv
<1>d. download # "idle" => files["objects"] = acked
  BY DEF ContentInv, StoredInv
<1>1. CASE LeaseLapses
  <2>1. row'.status = row.status /\ row'.offset = row.offset /\ row'.path = row.path
    BY <1>1, <1>t DEF LeaseLapses, Rows
  <2> QED
    BY <1>1, <1>d, <1>k, <2>1 DEF LeaseLapses, clockVars
<1>2. CASE DeliverEvent \/ AckEvent \/ DropLock \/ Expire \/ PrepareSession \/ EndSession
  BY <1>2, <1>d, <1>k DEF DeliverEvent, AckEvent, DropLock, Expire, PrepareSession, EndSession, clockVars
<1>3. CASE OpenObject
  <2>1. files["objects"] = acked
    BY <1>3 DEF OpenObject, Complete, ContentInv, StoredInv
  <2> QED
    BY <1>3, <1>k, <2>1 DEF OpenObject
<1>4. CASE Crash
  <2>1. /\ recover' = "idle" /\ scan'.pc = "idle" /\ \A h \in Handlers : patch'[h].pc = "idle"
        /\ row' = row /\ (download' # "idle" => download # "idle")
    BY <1>4 DEF Crash, IdlePatch, IdleScan
  <2> QED
    BY <1>d, <1>k, <2>1
<1> QED
  BY <1>1, <1>2, <1>3, <1>4 DEF EnvironmentStep

LEMMA NextContent == ASSUME TypeInv, LockInv, RowInv, ContentInv, [Next]_vars PROVE ContentInv'
<1>1. CASE UNCHANGED vars
  BY <1>1 DEF vars, ContentInv, UploadingInv, StoredInv, WorkInv
<1> QED
  BY <1>1, ReserveContent, PatchContent, RecoverContent, ScanContent, RemoveContent, EnvironmentContent
     DEF Next, EnvironmentStep

-----------------------------------------------------------------------------
(* Theorems. *)

Inv == TypeInv /\ LockInv /\ RowInv /\ VerdictInv /\ OrphanInv /\ ContentInv

LEMMA InitInv == Init => Inv
<1> SUFFICES ASSUME Init PROVE Inv
  OBVIOUS
<1>1. TypeInv /\ RowInv /\ ContentInv
  BY InitTypes, InitRow, InitContent
<1>2. row.status = "none" /\ scan.pc = "idle" /\ \A h \in Handlers : patch[h].pc = "idle"
  BY DEF Init, NoRow, IdleScan, IdlePatch
<1>3. LockInv
  <2>1. \A a \in Actors : ~held[a] /\ ~Busy(a) /\ ~Waits(a)
    BY <1>2 DEF Init, Busy, Waits
  <2>2. MapOutlivesRow
    BY DEF Init, MapOutlivesRow, Removers
  <2> QED
    BY <2>1, <2>2 DEF LockInv, Inside, Fetched, Exclusive
<1>4. VerdictInv
  <2>1. VerdictOf("none") = None
    BY DEF VerdictOf
  <2> QED
    BY <1>2, <2>1 DEF Init, VerdictInv, VerdictIsReported
<1>5. OrphanInv
  <2>1. \A r \in Removers : remove[r] = "idle"
    BY DEF Init
  <2>2. \A d \in Directories : files[d] = None
    BY DEF Init, NoFiles
  <2> QED
    BY <2>1, <2>2 DEF OrphanInv, NoOrphanBytes
<1> QED
  BY <1>1, <1>3, <1>4, <1>5 DEF Inv

LEMMA NextInv == Inv /\ [Next]_vars => Inv'
<1> SUFFICES ASSUME Inv, [Next]_vars PROVE Inv'
  OBVIOUS
<1>1. TypeInv /\ LockInv /\ RowInv /\ VerdictInv /\ OrphanInv /\ ContentInv /\ WorkInv
  BY DEF Inv, ContentInv
<1> QED
  BY <1>1, NextTypes, NextLocks, NextRow, NextVerdict, NextOrphan, NextContent DEF Inv

\* The inductive invariant holds in every state of the node's uploads.
THEOREM Invariance == Spec => []Inv
BY InitInv, NextInv, PTL DEF Spec

\* Rows, files, goroutines and the outbox stay within their types: no file grows past
\* the length of the upload (patchUpload, writeUploadChunk), whatever fails or crashes.
THEOREM Typing == Spec => []TypeOK
<1>1. Inv => TypeOK
  BY DEF Inv, TypeInv
<1> QED
  BY <1>1, Invariance, PTL

\* uploadLock excludes: while the row exists, one goroutine at most holds a mutex of
\* the upload, although deleteUpload and cleanupExpiredUploads drop mutexes from the
\* map which others have fetched.
THEOREM OneWorkerAtATime == Spec => []OneWorkerPerRow
<1>1. Inv => OneWorkerPerRow
  <2> SUFFICES ASSUME Inv, NEW a \in Actors, NEW b \in Actors, held[a], held[b], a # b, row.status # "none"
               PROVE  FALSE
    BY DEF OneWorkerPerRow
  <2>1. TypeOK /\ LockInv
    BY DEF Inv, TypeInv
  <2>2. Busy(a) /\ Busy(b)
    BY <2>1 DEF LockInv, Inside
  <2> QED
    BY <2>1, <2>2, Alone
<1> QED
  BY <1>1, Invariance, PTL

\* CompleteScan's verdict is in the outbox or has arrived as long as the row exists,
\* and the control plane never hears a second, different one.
THEOREM VerdictsAreReported == Spec => []VerdictIsReported
<1>1. Inv => VerdictIsReported
  BY DEF Inv, VerdictInv
<1> QED
  BY <1>1, Invariance, PTL

\* When deleteUpload, cleanupExpiredUploads or a failed reserveUpload has deleted the
\* row, no bytes are left and no goroutine that is still under way leaves any.
THEOREM NoBytesAreOrphaned == Spec => []NoOrphanBytes
<1>1. Inv => NoOrphanBytes
  BY DEF Inv, OrphanInv
<1> QED
  BY <1>1, Invariance, PTL

\* No crash, failed write, stale list or lost lease loses or replaces a byte that
\* UpdateUploadOffset acknowledged: patchUpload, finalizeCompletedUpload and
\* scanOneUpload hand the same bytes on from tmp/ to quarantine/ to objects/, and a
\* download reads exactly them.
THEOREM AcknowledgedBytesAreKept == Spec => []AcknowledgedBytesAreStored
<1>1. Inv => AcknowledgedBytesAreStored
  <2> SUFFICES ASSUME Inv PROVE AcknowledgedBytesAreStored
    OBVIOUS
  <2>1. row.offset \in Nat /\ row.offset <= Length /\ Length \in Nat
    BY StorageUploadAssumption DEF Inv, TypeInv, TypeOK, Rows
  <2>2. CASE row.status = "uploading"
    <3>1. download = "idle"
      BY <2>2 DEF Inv, RowInv
    <3>2. UploadingInv
      BY DEF Inv, ContentInv
    <3> QED
      BY <2>1, <2>2, <3>1, <3>2 DEF AcknowledgedBytesAreStored, UploadingInv
  <2>3. CASE row.status # "uploading"
    BY <2>3 DEF Inv, ContentInv, StoredInv, AcknowledgedBytesAreStored
  <2> QED
    BY <2>2, <2>3
<1> QED
  BY <1>1, Invariance, PTL

===============================================================================
