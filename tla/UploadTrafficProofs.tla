-------------------------- MODULE UploadTrafficProofs --------------------------
(***************************************************************************)
(* Proofs about UploadTraffic, for any uploads, orders, lengths and        *)
(* prices: a charge follows its upload, and a deleted upload stays deleted.*)
(*                                                                         *)
(* The argument needs three facts the code never states in one place. The  *)
(* worker scans or cleans up but never both, so a claimed upload keeps its *)
(* status; only uploads on the node have a waiting handler or a callback;  *)
(* an upload that was never created has no charge.                         *)
(***************************************************************************)
EXTENDS UploadTraffic, TLAPS

\* The tables have their columns. Amounts are left open: they do not matter here.
LedgerShape(l) ==
    /\ DOMAIN l = {"opened", "remaining", "rows", "reserved", "charge"}
    /\ DOMAIN l.charge = Uploads
    /\ \A u \in Uploads : /\ DOMAIN l.charge[u] = {"status", "alloc"}
                          /\ l.charge[u].status \in ChargeStatuses

StatusTypes ==
    /\ upload \in [Uploads -> [status : UploadStatuses, full : BOOLEAN]]
    /\ handler \in [Uploads -> {"idle", "reserving", "failed"}]
    /\ node \in [Uploads -> [state : {"none", "open", "finished", "gone"},
                             verdict : Verdicts \cup {None}, queued : BOOLEAN]]
    /\ callback \in [Uploads -> Verdicts \cup {None}]
    /\ worker \in [scans : SUBSET Uploads,
                   batch : SUBSET [id : Uploads, seen : UploadStatuses],
                   removed : Uploads \cup {None}]
    /\ LedgerShape(ledger)

\* A claimed upload is local and is being scanned, and nothing is being deleted meanwhile.
ScansAreExclusive ==
    /\ \A u \in worker.scans : u \notin Remote /\ upload[u].status = "scanning"
    /\ worker.scans # {} => worker.batch = {}

\* Handlers that wait, objects on the node and callbacks belong to remote uploads.
NodeWorkIsRemote ==
    \A u \in Uploads :
        /\ handler[u] # "idle" => u \in Remote
        /\ node[u].state # "none" => u \in Remote
        /\ node[u].queued => u \in Remote
        /\ callback[u] # None => u \in Remote

\* What is listed for deletion has been created, and so has what has a charge.
CreatedFirst ==
    /\ \A r \in worker.batch : upload[r.id].status # "none"
    /\ \A u \in Uploads : ledger.charge[u].status # "none" => upload[u].status # "none"

ChargeInv ==
    /\ StatusTypes
    /\ ScansAreExclusive
    /\ NodeWorkIsRemote
    /\ CreatedFirst
    /\ ChargeFollowsUpload

-----------------------------------------------------------------------------
(* What the ledger operators do to the status of a charge. *)

\* Opening the account leaves the charges alone.
LEMMA EnsureKeepsCharges ==
    ASSUME NEW l, LedgerShape(l)
    PROVE  LedgerShape(EnsureTrafficAccount(l)) /\ EnsureTrafficAccount(l).charge = l.charge
BY DEF LedgerShape, EnsureTrafficAccount

\* A reservation gives one upload a reserved charge.
LEMMA ReserveCharges ==
    ASSUME NEW l, LedgerShape(l), NEW u \in Uploads
    PROVE  /\ LedgerShape(ReserveUploadTraffic(l, u))
           /\ ReserveUploadTraffic(l, u).charge[u].status = "reserved"
           /\ \A w \in Uploads \ {u} :
                  ReserveUploadTraffic(l, u).charge[w] = l.charge[w]
<1> DEFINE e == EnsureTrafficAccount(l)
           a == PlanAllocations(e, Length[u])
<1>1. LedgerShape(e) /\ e.charge = l.charge
  BY EnsureKeepsCharges
<1>2. ReserveUploadTraffic(l, u) =
          [e EXCEPT !.charge[u] = [status |-> "reserved", alloc |-> a],
                    !.reserved = @ + Length[u]]
  BY DEF ReserveUploadTraffic
<1> HIDE DEF e, a
<1> QED
  BY <1>1, <1>2 DEF LedgerShape, ChargeStatuses

\* Settling turns a reserved charge into a settled one and changes no other.
LEMMA SettleCharges ==
    ASSUME NEW l, LedgerShape(l), NEW u \in Uploads
    PROVE  /\ LedgerShape(SettleUploadTraffic(l, u))
           /\ SettleUploadTraffic(l, u).charge[u].status =
                  IF l.charge[u].status = "reserved" THEN "settled" ELSE l.charge[u].status
           /\ \A w \in Uploads \ {u} :
                  SettleUploadTraffic(l, u).charge[w] = l.charge[w]
<1>1. CASE l.charge[u].status # "reserved"
  BY <1>1 DEF SettleUploadTraffic
<1>2. CASE l.charge[u].status = "reserved"
  <2> DEFINE rest == [s \in Sources |-> l.remaining[s] - l.charge[u].alloc[s]]
  <2>1. SettleUploadTraffic(l, u) =
            [l EXCEPT !.charge[u].status = "settled", !.reserved = @ - Length[u],
                      !.remaining = rest]
    BY <1>2 DEF SettleUploadTraffic
  <2> HIDE DEF rest
  <2> QED
    BY <1>2, <2>1 DEF LedgerShape, ChargeStatuses
<1> QED
  BY <1>1, <1>2

\* A refund turns a reserved charge into a refunded one and changes no other.
LEMMA RefundCharges ==
    ASSUME NEW l, LedgerShape(l), NEW u \in Uploads
    PROVE  /\ LedgerShape(RefundUploadTraffic(l, u))
           /\ RefundUploadTraffic(l, u).charge[u].status =
                  IF l.charge[u].status = "reserved" THEN "refunded" ELSE l.charge[u].status
           /\ \A w \in Uploads \ {u} :
                  RefundUploadTraffic(l, u).charge[w] = l.charge[w]
BY DEF LedgerShape, RefundUploadTraffic, ChargeStatuses

\* A terminal verdict settles: releasing the storage afterwards refunds nothing.
LEMMA TerminalCharges ==
    ASSUME NEW l, LedgerShape(l), NEW u \in Uploads, NEW v, CanSettle(l, u)
    PROVE  /\ LedgerShape(CommitTerminal(l, u, v))
           /\ CommitTerminal(l, u, v).charge[u].status \in {"none", "settled"}
           /\ CommitTerminal(l, u, v).charge[u].status = "none" =>
                  l.charge[u].status = "none"
           /\ l.charge[u].status = "none" =>
                  CommitTerminal(l, u, v).charge[u].status = "none"
           /\ \A w \in Uploads \ {u} : CommitTerminal(l, u, v).charge[w] = l.charge[w]
<1> DEFINE m == SettleUploadTraffic(l, u)
<1>1. l.charge[u].status \in {"none", "settled", "reserved"}
  BY DEF CanSettle
<1>2. /\ LedgerShape(m)
      /\ m.charge[u].status = IF l.charge[u].status = "reserved" THEN "settled"
                              ELSE l.charge[u].status
      /\ \A w \in Uploads \ {u} : m.charge[w] = l.charge[w]
  BY SettleCharges
<1>3. CommitTerminal(l, u, v) = IF v = "blocked" THEN RefundUploadTraffic(m, u) ELSE m
  BY DEF CommitTerminal
<1> HIDE DEF m
<1>4. /\ LedgerShape(RefundUploadTraffic(m, u))
      /\ RefundUploadTraffic(m, u).charge[u].status = m.charge[u].status
      /\ \A w \in Uploads \ {u} : RefundUploadTraffic(m, u).charge[w] = m.charge[w]
  BY <1>1, <1>2, RefundCharges
<1> QED
  BY <1>1, <1>2, <1>3, <1>4

-----------------------------------------------------------------------------
(* The inductive invariant. *)

\* At first nothing is created, charged, claimed or listed.
LEMMA ChargeInvInit == Init => ChargeInv
<1> SUFFICES ASSUME Init PROVE ChargeInv
  OBVIOUS
<1>1. StatusTypes
  BY DEF Init, StatusTypes, LedgerShape, NoCharge, UploadStatuses, ChargeStatuses
<1>2. ScansAreExclusive /\ NodeWorkIsRemote
  BY DEF Init, ScansAreExclusive, NodeWorkIsRemote
<1>3. \A u \in Uploads : ledger.charge[u].status = "none"
  BY DEF Init, NoCharge
<1>4. CreatedFirst /\ ChargeFollowsUpload
  BY <1>3 DEF Init, CreatedFirst, ChargeFollowsUpload
<1> QED
  BY <1>1, <1>2, <1>4 DEF ChargeInv

\* Orders and legacy holds touch no charge.
LEMMA OrdersKeepCharges ==
    ASSUME ChargeInv,
           RetireLegacyHolds \/ \E o \in Orders : \/ CreateOrder(o) \/ PayOrderWithPoints(o)
                                                 \/ CompleteSandboxOrder(o) \/ RefundOrder(o) \/ CloseOrder(o)
    PROVE  ChargeInv' /\ UNCHANGED upload
<1> DEFINE Kept == /\ UNCHANGED uploadVars
                   /\ LedgerShape(ledger') /\ ledger'.charge = ledger.charge
<1>1. Kept
  <2>1. LedgerShape(ledger)
    BY DEF ChargeInv, StatusTypes
  <2>2. CASE RetireLegacyHolds
    BY <2>1, <2>2 DEF RetireLegacyHolds, LedgerShape
  <2>3. ASSUME NEW o \in Orders, CreateOrder(o) \/ CloseOrder(o)
        PROVE  Kept
    BY <2>1, <2>3 DEF CreateOrder, CloseOrder, LedgerShape
  <2>4. ASSUME NEW o \in Orders, PayOrderWithPoints(o) \/ CompleteSandboxOrder(o)
        PROVE  Kept
    BY <2>1, <2>4 DEF PayOrderWithPoints, CompleteSandboxOrder, GrantEntitlement, LedgerShape
  <2>5. ASSUME NEW o \in Orders, RefundOrder(o)
        PROVE  Kept
    BY <2>1, <2>5 DEF RefundOrder, LedgerShape
  <2> QED
    BY <2>2, <2>3, <2>4, <2>5
<1> QED
  BY <1>1 DEF ChargeInv, StatusTypes, ScansAreExclusive, NodeWorkIsRemote, CreatedFirst,
              ChargeFollowsUpload, uploadVars

\* Steps that move only handlers, the node, callbacks and clocks.
LEMMA NodeStepsKeepInv ==
    ASSUME ChargeInv, NEW u \in Uploads,
           \/ ReserveOnNode(u) \/ ReserveSucceeds(u) \/ ReserveFails(u)
           \/ SendCompletion(u) \/ LoseCompletion(u) \/ RefuseCompletion(u) \/ GrowOld(u)
           \/ \E v \in Verdicts : FinishOnNode(u, v)
    PROVE  ChargeInv' /\ UNCHANGED upload
<1> USE DEF ChargeInv
<1>1. UNCHANGED <<upload, ledger, worker>>
  BY DEF ReserveOnNode, ReserveSucceeds, ReserveFails, SendCompletion, LoseCompletion,
         RefuseCompletion, GrowOld, FinishOnNode
<1>2. ScansAreExclusive' /\ CreatedFirst' /\ ChargeFollowsUpload'
  BY <1>1 DEF ScansAreExclusive, CreatedFirst, ChargeFollowsUpload
<1>3. StatusTypes'
  <2>1. handler' \in [Uploads -> {"idle", "reserving", "failed"}]
    BY DEF StatusTypes, ReserveOnNode, ReserveSucceeds, ReserveFails, SendCompletion,
           LoseCompletion, RefuseCompletion, GrowOld, FinishOnNode
  <2>2. callback' \in [Uploads -> Verdicts \cup {None}]
    BY ZenonT(40) DEF StatusTypes, ReserveOnNode, ReserveSucceeds, ReserveFails, SendCompletion,
           LoseCompletion, RefuseCompletion, GrowOld, FinishOnNode
  <2>3. node' \in [Uploads -> [state : {"none", "open", "finished", "gone"},
                              verdict : Verdicts \cup {None}, queued : BOOLEAN]]
    <3>1. CASE UNCHANGED node
      BY <3>1 DEF StatusTypes
    <3>2. CASE ReserveOnNode(u)
      BY ZenonT(40), <3>2 DEF StatusTypes, ReserveOnNode
    <3>3. CASE RefuseCompletion(u)
      BY ZenonT(40), <3>3 DEF StatusTypes, RefuseCompletion
    <3>4. CASE \E v \in Verdicts : FinishOnNode(u, v)
      BY <3>4 DEF StatusTypes, FinishOnNode
    <3> QED
      BY <3>1, <3>2, <3>3, <3>4
         DEF ReserveSucceeds, ReserveFails, SendCompletion, LoseCompletion, GrowOld
  <2> QED
    BY <1>1, <2>1, <2>2, <2>3 DEF StatusTypes
<1>4. NodeWorkIsRemote'
  BY DEF StatusTypes, NodeWorkIsRemote, ReserveOnNode, ReserveSucceeds, ReserveFails,
         SendCompletion, LoseCompletion, RefuseCompletion, GrowOld, FinishOnNode
<1> QED
  BY <1>1, <1>2, <1>3, <1>4

\* A step that moves one upload and its charge keeps the invariant when the worker does
\* not scan that upload afterwards and charge and upload still agree.
LEMMA OneUploadMoves ==
    ASSUME ChargeInv, StatusTypes', NodeWorkIsRemote', NEW u \in Uploads,
           worker'.scans \subseteq worker.scans, u \notin worker'.scans,
           worker'.batch \subseteq worker.batch,
           \A w \in Uploads \ {u} : upload'[w] = upload[w],
           \A w \in Uploads \ {u} : ledger'.charge[w] = ledger.charge[w],
           upload'[u].status # "none",
           ledger'.charge[u].status = "reserved" => upload'[u].status = "uploading",
           ledger'.charge[u].status = "settled" =>
               upload'[u].full /\ upload'[u].status # "uploading",
           ledger'.charge[u].status = "refunded" => upload'[u].status = "deleted"
    PROVE  ChargeInv'
<1>1. /\ worker.scans \subseteq Uploads
      /\ \A r \in worker.batch : r.id \in Uploads
  BY DEF ChargeInv, StatusTypes
<1>2. ScansAreExclusive'
  BY <1>1 DEF ChargeInv, ScansAreExclusive
<1>3. CreatedFirst'
  BY <1>1 DEF ChargeInv, CreatedFirst
<1>4. ChargeFollowsUpload'
  BY DEF ChargeInv, ChargeFollowsUpload
<1> QED
  BY <1>2, <1>3, <1>4 DEF ChargeInv

\* A new upload had no charge, no scan and no place in a list.
LEMMA CreateKeepsInv ==
    ASSUME ChargeInv, NEW u \in Uploads, CreateUpload(u)
    PROVE  ChargeInv' /\ upload[u].status = "none"
                      /\ \A w \in Uploads \ {u} : upload'[w] = upload[w]
<1> USE DEF ChargeInv
<1>1. /\ upload[u].status = "none"
      /\ upload' = [upload EXCEPT ![u].status = "uploading"]
      /\ handler' = [handler EXCEPT ![u] = IF u \in Remote THEN "reserving" ELSE "idle"]
      /\ UNCHANGED <<node, callback, worker>>
  BY DEF CreateUpload
<1>2. /\ LedgerShape(ledger')
      /\ ledger'.charge[u].status \in {"none", "reserved"}
      /\ \A w \in Uploads \ {u} : ledger'.charge[w] = ledger.charge[w]
  <2>1. CASE UNCHANGED ledger
    BY <1>1, <2>1 DEF StatusTypes, CreatedFirst
  <2>2. CASE ledger' = ReserveUploadTraffic(ledger, u)
    BY SMTT(30), <2>2, ReserveCharges DEF StatusTypes
  <2> QED
    BY <2>1, <2>2 DEF CreateUpload
<1>3. /\ upload'[u].status = "uploading"
      /\ \A w \in Uploads \ {u} : upload'[w] = upload[w]
  BY <1>1 DEF StatusTypes
<1>4. StatusTypes'
  <2>1. upload' \in [Uploads -> [status : UploadStatuses, full : BOOLEAN]]
    BY SMTT(30), <1>1 DEF StatusTypes, UploadStatuses
  <2>2. handler' \in [Uploads -> {"idle", "reserving", "failed"}]
    BY <1>1 DEF StatusTypes
  <2> QED
    BY <1>1, <1>2, <2>1, <2>2 DEF StatusTypes
<1>5. NodeWorkIsRemote'
  BY <1>1 DEF StatusTypes, NodeWorkIsRemote
<1>6. u \notin worker.scans
  BY <1>1 DEF ScansAreExclusive
<1>7. ChargeInv'
  BY <1>1, <1>2, <1>3, <1>4, <1>5, <1>6, OneUploadMoves
<1> QED
  BY <1>1, <1>3, <1>7

\* A local upload is settled when its last byte has arrived.
LEMMA UploadedKeepsInv ==
    ASSUME ChargeInv, NEW u \in Uploads, MarkUploaded(u)
    PROVE  ChargeInv' /\ upload[u].status = "uploading"
                      /\ \A w \in Uploads \ {u} : upload'[w] = upload[w]
<1> USE DEF ChargeInv
<1>1. /\ upload[u].status = "uploading" /\ upload[u].full
      /\ CanSettle(ledger, u) /\ ledger' = SettleUploadTraffic(ledger, u)
      /\ upload' = [upload EXCEPT ![u].status = "uploaded"]
      /\ UNCHANGED <<handler, node, callback, worker>>
  BY DEF MarkUploaded
<1>2. /\ upload'[u].status = "uploaded" /\ upload'[u].full
      /\ \A w \in Uploads \ {u} : upload'[w] = upload[w]
  BY <1>1 DEF StatusTypes
<1>3. /\ LedgerShape(ledger')
      /\ ledger'.charge[u].status \in {"none", "settled"}
      /\ \A w \in Uploads \ {u} : ledger'.charge[w] = ledger.charge[w]
  BY SMTT(30), <1>1, SettleCharges DEF StatusTypes, CanSettle
<1>4. StatusTypes'
  <2>1. upload' \in [Uploads -> [status : UploadStatuses, full : BOOLEAN]]
    BY <1>1 DEF StatusTypes, UploadStatuses
  <2> QED
    BY <1>1, <1>3, <2>1 DEF StatusTypes
<1>5. NodeWorkIsRemote'
  BY <1>1 DEF NodeWorkIsRemote
<1>6. u \notin worker.scans
  BY <1>1 DEF ScansAreExclusive
<1>7. ChargeInv'
  BY <1>1, <1>2, <1>3, <1>4, <1>5, <1>6, OneUploadMoves
<1> QED
  BY <1>1, <1>2, <1>7

\* A completion settles the charge of an upload that is not deleted.
LEMMA CompletionKeepsInv ==
    ASSUME ChargeInv, NEW u \in Uploads, CompleteRemoteUpload(u)
    PROVE  ChargeInv' /\ upload[u].status # "deleted"
                      /\ \A w \in Uploads \ {u} : upload'[w] = upload[w]
<1> USE DEF ChargeInv
<1> DEFINE v == callback[u]
<1>1. /\ v \in Verdicts /\ u \in Remote
      /\ upload[u].status \in {"uploading", "uploaded", "scanning", v}
      /\ CanSettle(ledger, u) /\ ledger' = CommitTerminal(ledger, u, v)
      /\ upload' = [upload EXCEPT ![u] = [status |-> v, full |-> TRUE]]
      /\ callback' = [callback EXCEPT ![u] = None]
      /\ node' = node \/ node' = [node EXCEPT ![u].queued = FALSE]
      /\ UNCHANGED <<handler, worker>>
  BY DEF CompleteRemoteUpload, Completes, StatusTypes, NodeWorkIsRemote
<1> HIDE DEF v
<1>2. /\ upload'[u].status = v /\ upload'[u].full
      /\ \A w \in Uploads \ {u} : upload'[w] = upload[w]
  BY <1>1 DEF StatusTypes
<1>3. /\ LedgerShape(ledger')
      /\ ledger'.charge[u].status \in {"none", "settled"}
      /\ \A w \in Uploads \ {u} : ledger'.charge[w] = ledger.charge[w]
  BY <1>1, TerminalCharges DEF StatusTypes
<1>4. StatusTypes'
  <2>1. upload' \in [Uploads -> [status : UploadStatuses, full : BOOLEAN]]
    BY <1>1 DEF StatusTypes, UploadStatuses
  <2>2. node' \in [Uploads -> [state : {"none", "open", "finished", "gone"},
                              verdict : Verdicts \cup {None}, queued : BOOLEAN]]
    <3>1. CASE node' = node
      BY <3>1 DEF StatusTypes
    <3>2. CASE node' = [node EXCEPT ![u].queued = FALSE]
      BY ZenonT(40), <3>2 DEF StatusTypes
    <3> QED
      BY <1>1, <3>1, <3>2
  <2>3. callback' \in [Uploads -> Verdicts \cup {None}]
    BY <1>1 DEF StatusTypes
  <2> QED
    BY <1>1, <1>3, <2>1, <2>2, <2>3 DEF StatusTypes
<1>5. NodeWorkIsRemote'
  BY <1>1 DEF NodeWorkIsRemote, StatusTypes
<1>6. u \notin worker.scans
  BY <1>1 DEF ScansAreExclusive
<1>7. v \notin {"none", "uploading", "deleted"}
  BY <1>1 DEF Verdicts
<1>8. ChargeInv'
  BY <1>1, <1>2, <1>3, <1>4, <1>5, <1>6, <1>7, OneUploadMoves
<1> QED
  BY <1>1, <1>2, <1>7, <1>8

\* Deleting on the node keeps its table.
LEMMA NodeDeletesKeepsTypes ==
    ASSUME StatusTypes, NodeWorkIsRemote, NEW u \in Uploads
    PROVE  /\ NodeDeletes(u) \in [Uploads -> [state : {"none", "open", "finished", "gone"},
                                     verdict : Verdicts \cup {None}, queued : BOOLEAN]]
           /\ \A w \in Uploads : /\ NodeDeletes(u)[w].state # "none" => w \in Remote
                                 /\ NodeDeletes(u)[w].queued => w \in Remote
<1> DEFINE Rows == [state : {"none", "open", "finished", "gone"},
                    verdict : Verdicts \cup {None}, queued : BOOLEAN]
           row == IF node[u].state \in {"open", "finished"}
                  THEN [node[u] EXCEPT !.state = "gone", !.queued = FALSE] ELSE node[u]
<1>1. NodeDeletes(u) = [node EXCEPT ![u] = row]
  BY DEF NodeDeletes
<1>2. node \in [Uploads -> Rows]
  BY DEF StatusTypes
<1>3. row \in Rows /\ (row.state # "none" \/ row.queued => u \in Remote)
  <2>1. CASE node[u].state \in {"open", "finished"}
    <3>1. row = [state |-> "gone", verdict |-> node[u].verdict, queued |-> FALSE]
      <4>1. node[u] \in Rows
        BY <1>2
      <4>2. row = [node[u] EXCEPT !.state = "gone", !.queued = FALSE]
        BY <2>1
      <4> QED
        BY <4>1, <4>2
    <3>2. u \in Remote /\ node[u].verdict \in Verdicts \cup {None}
      BY <1>2, <2>1 DEF NodeWorkIsRemote
    <3> HIDE DEF row
    <3> QED
      BY <3>1, <3>2
  <2>2. CASE node[u].state \notin {"open", "finished"}
    BY <1>2, <2>2 DEF NodeWorkIsRemote
  <2> QED
    BY <2>1, <2>2
<1> HIDE DEF Rows, row
<1>4. NodeDeletes(u) \in [Uploads -> Rows]
  BY <1>1, <1>2, <1>3
<1>5. NodeDeletes(u)[u] = row /\ \A w \in Uploads \ {u} : NodeDeletes(u)[w] = node[w]
  BY <1>1, <1>2
<1> QED
  BY <1>3, <1>4, <1>5 DEF NodeWorkIsRemote, Rows

\* A deletion refunds what is still reserved and leaves what is settled.
LEMMA DeletionMovesCharge ==
    ASSUME ChargeInv, NEW u \in Uploads, NEW seen, MarkDeleted(u, seen)
    PROVE  /\ upload' \in [Uploads -> [status : UploadStatuses, full : BOOLEAN]]
           /\ upload'[u].status = "deleted" /\ upload'[u].full = upload[u].full
           /\ \A w \in Uploads \ {u} : upload'[w] = upload[w]
           /\ LedgerShape(ledger')
           /\ ledger'.charge[u].status # "reserved"
           /\ ledger'.charge[u].status = "settled" => upload'[u].full
           /\ \A w \in Uploads \ {u} : ledger'.charge[w] = ledger.charge[w]
<1>1. /\ upload' = [upload EXCEPT ![u].status = "deleted"]
      /\ ledger' = RefundUploadTraffic(ledger, u)
  BY DEF MarkDeleted
<1>2. /\ upload' \in [Uploads -> [status : UploadStatuses, full : BOOLEAN]]
      /\ upload'[u].status = "deleted" /\ upload'[u].full = upload[u].full
      /\ \A w \in Uploads \ {u} : upload'[w] = upload[w]
  BY <1>1 DEF ChargeInv, StatusTypes, UploadStatuses
<1>3. /\ LedgerShape(ledger')
      /\ ledger'.charge[u].status = IF ledger.charge[u].status = "reserved" THEN "refunded"
                                    ELSE ledger.charge[u].status
      /\ \A w \in Uploads \ {u} : ledger'.charge[w] = ledger.charge[w]
  BY SMTT(30), <1>1, RefundCharges DEF ChargeInv, StatusTypes
<1> QED
  BY <1>2, <1>3 DEF ChargeInv, ChargeFollowsUpload

\* A handler gives up on the reservation of its remote upload.
LEMMA AbandonKeepsInv ==
    ASSUME ChargeInv, NEW u \in Uploads, AbandonUpload(u)
    PROVE  /\ ChargeInv'
           /\ \A w \in Uploads : upload[w].status = "deleted" => upload'[w].status = "deleted"
<1> USE DEF ChargeInv
<1>1. /\ handler[u] = "failed" /\ handler' = [handler EXCEPT ![u] = "idle"]
      /\ node' = node \/ node' = NodeDeletes(u)
      /\ MarkDeleted(u, "uploading") \/ UNCHANGED <<ledger, upload>>
      /\ UNCHANGED <<callback, worker>>
  BY DEF AbandonUpload
<1>2. /\ node' \in [Uploads -> [state : {"none", "open", "finished", "gone"},
                               verdict : Verdicts \cup {None}, queued : BOOLEAN]]
      /\ \A w \in Uploads : /\ node'[w].state # "none" => w \in Remote
                            /\ node'[w].queued => w \in Remote
  <2>1. CASE node' = node
    BY <2>1 DEF StatusTypes, NodeWorkIsRemote
  <2>2. CASE node' = NodeDeletes(u)
    BY <2>2, NodeDeletesKeepsTypes
  <2> QED
    BY <1>1, <2>1, <2>2
<1>3. /\ handler' \in [Uploads -> {"idle", "reserving", "failed"}]
      /\ \A w \in Uploads : handler'[w] # "idle" => w \in Remote
  BY <1>1 DEF StatusTypes, NodeWorkIsRemote
<1>4. NodeWorkIsRemote'
  BY <1>1, <1>2, <1>3 DEF NodeWorkIsRemote
<1>5. CASE MarkDeleted(u, "uploading")
  <2>1. StatusTypes'
    BY <1>1, <1>2, <1>3, <1>5, DeletionMovesCharge DEF StatusTypes
  <2>2. u \notin worker.scans
    BY <1>1 DEF ScansAreExclusive, NodeWorkIsRemote
  <2>3. ChargeInv'
    BY <1>1, <1>4, <1>5, <2>1, <2>2, DeletionMovesCharge, OneUploadMoves
  <2> QED
    BY <1>5, <2>3, DeletionMovesCharge
<1>6. CASE UNCHANGED <<ledger, upload>>
  BY <1>1, <1>2, <1>3, <1>4, <1>6
     DEF StatusTypes, ScansAreExclusive, CreatedFirst, ChargeFollowsUpload
<1> QED
  BY <1>1, <1>5, <1>6

\* The worker deletes an upload of its list.
LEMMA DeleteListedKeepsInv ==
    ASSUME ChargeInv, NEW r \in worker.batch, DeleteListed(r)
    PROVE  /\ ChargeInv'
           /\ \A w \in Uploads : upload[w].status = "deleted" => upload'[w].status = "deleted"
<1> USE DEF ChargeInv
<1>1. /\ MarkDeleted(r.id, r.seen)
      /\ worker' = [worker EXCEPT !.batch = @ \ {r}, !.removed = None]
      /\ UNCHANGED <<handler, node, callback>>
  BY DEF DeleteListed
<1>2. r.id \in Uploads /\ worker.scans = {}
  BY DEF StatusTypes, ScansAreExclusive
<1>3. /\ worker' \in [scans : SUBSET Uploads,
                     batch : SUBSET [id : Uploads, seen : UploadStatuses],
                     removed : Uploads \cup {None}]
      /\ worker'.scans = worker.scans /\ worker'.batch \subseteq worker.batch
  BY <1>1 DEF StatusTypes
<1>4. StatusTypes'
  BY <1>1, <1>2, <1>3, DeletionMovesCharge DEF StatusTypes
<1>5. NodeWorkIsRemote'
  BY <1>1 DEF NodeWorkIsRemote
<1>6. ChargeInv'
  BY <1>1, <1>2, <1>3, <1>4, <1>5, DeletionMovesCharge, OneUploadMoves
<1> QED
  BY <1>1, <1>2, <1>6, DeletionMovesCharge

\* The verdict of a local scan finds the upload still scanning.
LEMMA ScanKeepsInv ==
    ASSUME ChargeInv, NEW u \in Uploads, NEW v \in Verdicts, FinishScan(u, v)
    PROVE  ChargeInv' /\ upload[u].status = "scanning"
                      /\ \A w \in Uploads \ {u} : upload'[w] = upload[w]
<1> USE DEF ChargeInv
<1>1. /\ u \in worker.scans /\ upload[u].status = "scanning"
      /\ worker' = [worker EXCEPT !.scans = @ \ {u}]
      /\ UNCHANGED <<handler, node, callback>>
  BY DEF FinishScan, ScansAreExclusive
<1>2. upload' = [upload EXCEPT ![u].status = v]
  BY <1>1 DEF FinishScan, StatusTypes
<1>3. /\ upload' \in [Uploads -> [status : UploadStatuses, full : BOOLEAN]]
      /\ upload'[u].status = v /\ upload'[u].full = upload[u].full
      /\ \A w \in Uploads \ {u} : upload'[w] = upload[w]
  BY <1>2 DEF StatusTypes, UploadStatuses
<1>4. ledger.charge[u].status \notin {"reserved", "refunded"}
  BY <1>1 DEF ChargeFollowsUpload
<1>5. ledger' = ledger
  BY <1>4 DEF FinishScan, RefundUploadTraffic
<1>6. /\ worker' \in [scans : SUBSET Uploads,
                     batch : SUBSET [id : Uploads, seen : UploadStatuses],
                     removed : Uploads \cup {None}]
      /\ worker'.scans = worker.scans \ {u} /\ worker'.batch = worker.batch
  BY <1>1 DEF StatusTypes
<1>7. StatusTypes'
  BY <1>1, <1>3, <1>5, <1>6 DEF StatusTypes
<1>8. NodeWorkIsRemote'
  BY <1>1 DEF NodeWorkIsRemote
<1>9. v \notin {"none", "uploading", "deleted"}
  BY DEF Verdicts
<1>10. ledger.charge[u].status = "settled" => upload[u].full
  BY DEF ChargeFollowsUpload
<1>11. ChargeInv'
  BY <1>3, <1>4, <1>5, <1>6, <1>7, <1>8, <1>9, <1>10, OneUploadMoves
<1> QED
  BY <1>1, <1>3, <1>11

\* A local upload has all its bytes; its status does not change yet.
LEMMA ReceiveKeepsInv ==
    ASSUME ChargeInv, NEW u \in Uploads, ReceiveBytes(u)
    PROVE  ChargeInv' /\ upload[u].status = "uploading"
                      /\ \A w \in Uploads \ {u} : upload'[w] = upload[w]
<1> USE DEF ChargeInv
<1>1. /\ upload[u].status = "uploading"
      /\ upload' = [upload EXCEPT ![u].full = TRUE]
      /\ UNCHANGED <<ledger, handler, node, callback, worker>>
  BY DEF ReceiveBytes
<1>2. /\ upload' \in [Uploads -> [status : UploadStatuses, full : BOOLEAN]]
      /\ upload'[u].status = "uploading"
      /\ \A w \in Uploads \ {u} : upload'[w] = upload[w]
  BY ZenonT(40), <1>1 DEF StatusTypes
<1>3. StatusTypes'
  BY <1>1, <1>2 DEF StatusTypes
<1>4. NodeWorkIsRemote'
  BY <1>1 DEF NodeWorkIsRemote
<1>5. u \notin worker.scans /\ ledger.charge[u].status \notin {"settled", "refunded"}
  BY <1>1 DEF ScansAreExclusive, ChargeFollowsUpload
<1>6. ChargeInv'
  BY <1>1, <1>2, <1>3, <1>4, <1>5, OneUploadMoves
<1> QED
  BY <1>1, <1>2, <1>6

\* The worker claims uploads that are complete, hence settled or free of charge.
LEMMA ClaimKeepsInv ==
    ASSUME ChargeInv, ClaimUploads
    PROVE  /\ ChargeInv'
           /\ \A w \in Uploads : upload[w].status = "deleted" => upload'[w].status = "deleted"
<1> USE DEF ChargeInv
<1> DEFINE claimed == {u \in Uploads \ Remote : upload[u].status = "uploaded"}
<1>1. /\ worker.batch = {}
      /\ upload' = [u \in Uploads |->
             IF u \in claimed THEN [upload[u] EXCEPT !.status = "scanning"] ELSE upload[u]]
      /\ worker' = [worker EXCEPT !.scans = claimed]
      /\ UNCHANGED <<ledger, handler, node, callback>>
  BY DEF ClaimUploads, WorkerIdle
<1>2. ASSUME NEW u \in Uploads
      PROVE  /\ upload'[u] \in [status : UploadStatuses, full : BOOLEAN]
             /\ upload'[u].full = upload[u].full
             /\ u \in claimed => upload'[u].status = "scanning" /\ upload[u].status = "uploaded"
             /\ u \notin claimed => upload'[u] = upload[u]
  BY SMTT(30), <1>1 DEF StatusTypes, UploadStatuses
<1>3. /\ worker' \in [scans : SUBSET Uploads,
                     batch : SUBSET [id : Uploads, seen : UploadStatuses],
                     removed : Uploads \cup {None}]
      /\ worker'.scans = claimed /\ worker'.batch = {}
  BY <1>1 DEF StatusTypes
<1>4. StatusTypes'
  <2>1. upload' \in [Uploads -> [status : UploadStatuses, full : BOOLEAN]]
    BY <1>1, <1>2
  <2> QED
    BY <1>1, <1>3, <2>1 DEF StatusTypes
<1>5. ScansAreExclusive'
  BY <1>2, <1>3 DEF ScansAreExclusive
<1>6. NodeWorkIsRemote'
  BY <1>1 DEF NodeWorkIsRemote
<1>7. CreatedFirst'
  BY <1>1, <1>2, <1>3 DEF CreatedFirst
<1>8. ChargeFollowsUpload'
  BY <1>1, <1>2 DEF ChargeFollowsUpload
<1> QED
  BY <1>2, <1>4, <1>5, <1>6, <1>7, <1>8

\* Steps of the worker that change neither an upload nor a charge, and a restart.
LEMMA WorkerKeepsInv ==
    ASSUME ChargeInv,
           StartCleanup \/ Restart \/ \E r \in worker.batch : RemoveBytes(r) \/ SkipUpload(r)
    PROVE  ChargeInv' /\ UNCHANGED upload
<1> USE DEF ChargeInv
<1> DEFINE Workers == [scans : SUBSET Uploads,
                       batch : SUBSET [id : Uploads, seen : UploadStatuses],
                       removed : Uploads \cup {None}]
<1>1. UNCHANGED <<upload, ledger>> /\ ChargeFollowsUpload'
  BY DEF StartCleanup, Restart, RemoveBytes, SkipUpload, ChargeFollowsUpload
<1>2. CASE StartCleanup
  <2> DEFINE status == IF transfer.status = "active" /\ due THEN "expired" ELSE transfer.status
             list == {[id |-> u, seen |-> upload[u].status] : u \in Candidates(status)}
  <2>1. /\ worker.scans = {} /\ worker' = [worker EXCEPT !.batch = list]
        /\ UNCHANGED <<handler, node, callback>>
    BY <1>2 DEF StartCleanup, WorkerIdle
  <2>2. \A u \in Candidates(status) : u \in Uploads /\ upload[u].status # "none"
    BY DEF Candidates
  <2>3. \A r \in list : /\ r \in [id : Uploads, seen : UploadStatuses]
                        /\ upload[r.id].status # "none"
    BY <2>2 DEF StatusTypes
  <2> HIDE DEF list, status
  <2>4. worker' \in Workers /\ worker'.scans = {} /\ worker'.batch = list
    BY <2>1, <2>3 DEF StatusTypes
  <2>5. StatusTypes' /\ NodeWorkIsRemote'
    BY <1>1, <2>1, <2>4 DEF StatusTypes, NodeWorkIsRemote
  <2>6. ScansAreExclusive' /\ CreatedFirst'
    BY <1>1, <2>3, <2>4 DEF ScansAreExclusive, CreatedFirst
  <2> QED
    BY <1>1, <2>5, <2>6
<1>3. CASE Restart
  <2>1. worker' \in Workers /\ worker'.scans = {} /\ worker'.batch = {}
    BY <1>3 DEF Restart
  <2>2. StatusTypes'
    BY <1>1, <1>3, <2>1 DEF StatusTypes, Restart
  <2>3. NodeWorkIsRemote'
    BY <1>3 DEF NodeWorkIsRemote, Restart
  <2>4. ScansAreExclusive' /\ CreatedFirst'
    BY <1>1, <2>1 DEF ScansAreExclusive, CreatedFirst
  <2> QED
    BY <1>1, <2>2, <2>3, <2>4
<1>4. ASSUME NEW r \in worker.batch, RemoveBytes(r) \/ SkipUpload(r)
      PROVE  ChargeInv'
  <2>1. r.id \in Uploads
    BY DEF StatusTypes
  <2>2. worker' \in Workers /\ worker'.scans = worker.scans /\ worker'.batch \subseteq worker.batch
    <3>1. CASE RemoveBytes(r)
      BY <2>1, <3>1 DEF RemoveBytes, StatusTypes
    <3>2. CASE SkipUpload(r)
      BY <3>2 DEF SkipUpload, StatusTypes
    <3> QED
      BY <1>4, <3>1, <3>2
  <2>3. node' = node \/ node' = NodeDeletes(r.id)
    BY <1>4 DEF RemoveBytes, SkipUpload
  <2>4. /\ node' \in [Uploads -> [state : {"none", "open", "finished", "gone"},
                                 verdict : Verdicts \cup {None}, queued : BOOLEAN]]
        /\ \A w \in Uploads : /\ node'[w].state # "none" => w \in Remote
                              /\ node'[w].queued => w \in Remote
    <3>1. CASE node' = node
      BY <3>1 DEF StatusTypes, NodeWorkIsRemote
    <3>2. CASE node' = NodeDeletes(r.id)
      BY <2>1, <3>2, NodeDeletesKeepsTypes
    <3> QED
      BY <2>3, <3>1, <3>2
  <2>5. UNCHANGED <<handler, callback>>
    BY <1>4 DEF RemoveBytes, SkipUpload
  <2>6. StatusTypes' /\ NodeWorkIsRemote'
    BY <1>1, <2>2, <2>4, <2>5 DEF StatusTypes, NodeWorkIsRemote
  <2>7. ScansAreExclusive'
    BY <1>1, <2>2 DEF ScansAreExclusive
  <2>8. CreatedFirst'
    BY <1>1, <2>2 DEF CreatedFirst
  <2> QED
    BY <1>1, <2>6, <2>7, <2>8
<1> QED
  BY <1>1, <1>2, <1>3, <1>4

\* Every step keeps the invariant, and no step revives a deleted upload.
LEMMA ChargeInvNext ==
    ASSUME ChargeInv, [Next]_vars
    PROVE  /\ ChargeInv'
           /\ \A w \in Uploads : upload[w].status = "deleted" => upload'[w].status = "deleted"
<1> DEFINE Goal ==
        /\ ChargeInv'
        /\ \A w \in Uploads : upload[w].status = "deleted" => upload'[w].status = "deleted"
<1>1. CASE RetireLegacyHolds \/ \E o \in Orders : \/ CreateOrder(o) \/ PayOrderWithPoints(o)
                                                  \/ CompleteSandboxOrder(o) \/ RefundOrder(o) \/ CloseOrder(o)
  BY <1>1, OrdersKeepCharges
<1>2. ASSUME NEW u \in Uploads, CreateUpload(u) PROVE Goal
  BY <1>2, CreateKeepsInv
<1>3. ASSUME NEW u \in Uploads,
             \/ ReserveOnNode(u) \/ ReserveSucceeds(u) \/ ReserveFails(u)
             \/ SendCompletion(u) \/ LoseCompletion(u) \/ RefuseCompletion(u) \/ GrowOld(u)
             \/ \E v \in Verdicts : FinishOnNode(u, v)
      PROVE  Goal
  BY <1>3, NodeStepsKeepInv
<1>4. ASSUME NEW u \in Uploads, AbandonUpload(u) PROVE Goal
  BY <1>4, AbandonKeepsInv
<1>5. ASSUME NEW u \in Uploads, NEW v \in Verdicts, FinishScan(u, v) PROVE Goal
  BY <1>5, ScanKeepsInv
<1>6. ASSUME NEW u \in Uploads, CompleteRemoteUpload(u) PROVE Goal
  BY <1>6, CompletionKeepsInv
<1>7. ASSUME NEW u \in Uploads, ReceiveBytes(u) PROVE Goal
  BY <1>7, ReceiveKeepsInv
<1>8. ASSUME NEW u \in Uploads, MarkUploaded(u) PROVE Goal
  BY <1>8, UploadedKeepsInv
<1>9. CASE ClaimUploads
  BY <1>9, ClaimKeepsInv
<1>10. CASE StartCleanup \/ Restart \/ \E r \in worker.batch : RemoveBytes(r) \/ SkipUpload(r)
  BY <1>10, WorkerKeepsInv
<1>11. ASSUME NEW r \in worker.batch, DeleteListed(r) PROVE Goal
  BY <1>11, DeleteListedKeepsInv
<1>12. CASE ClaimTransfer \/ RevokeTransfer \/ ExpiryPasses \/ NewDay \/ UNCHANGED vars
  <2>1. UNCHANGED <<upload, ledger, handler, node, callback, worker>>
    BY <1>12 DEF ClaimTransfer, RevokeTransfer, ExpiryPasses, NewDay, vars
  <2> QED
    BY <2>1 DEF ChargeInv, StatusTypes, ScansAreExclusive, NodeWorkIsRemote, CreatedFirst,
                ChargeFollowsUpload
<1> HIDE DEF Goal
<1>13. CASE Next
  BY <1>1, <1>2, <1>3, <1>4, <1>5, <1>6, <1>7, <1>8, <1>9, <1>10, <1>11, <1>12, <1>13
     DEF Next, Goal
<1>14. Goal
  BY <1>12, <1>13 DEF Goal
<1> QED
  BY <1>14 DEF Goal

\* In every reachable state a charge is reserved only while its upload is incomplete,
\* settled only when the upload was complete, and refunded only when it was deleted:
\* whatever the order of completions, deletions, retries and restarts.
THEOREM ChargesFollowUploads == Spec => []ChargeFollowsUpload
<1>1. Init => ChargeInv
  BY ChargeInvInit
<1>2. ChargeInv /\ [Next]_vars => ChargeInv'
  BY ChargeInvNext
<1>3. ChargeInv => ChargeFollowsUpload
  BY DEF ChargeInv
<1> QED
  BY <1>1, <1>2, <1>3, PTL DEF Spec

\* No late or repeated completion, and no verdict of a scan, brings a deleted upload back:
\* although MarkBlocked and MarkQuarantined write their status without asking.
THEOREM DeletedUploadsStayDeleted == Spec => DeletedStaysDeleted
<1> DEFINE A == \A u \in Uploads :
                    upload[u].status = "deleted" => upload'[u].status = "deleted"
<1>1. Init => ChargeInv
  BY ChargeInvInit
<1>2. ChargeInv /\ [Next]_vars => ChargeInv'
  BY ChargeInvNext
<1>3. ChargeInv /\ [Next]_vars => [A]_vars
  BY ChargeInvNext
<1> QED
  BY <1>1, <1>2, <1>3, PTL DEF Spec, DeletedStaysDeleted

===============================================================================
