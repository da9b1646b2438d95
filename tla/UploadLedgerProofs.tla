-------------------------- MODULE UploadLedgerProofs ---------------------------
(***************************************************************************)
(* Proofs about the sums of UploadTraffic, for any uploads, orders,        *)
(* lengths and prices: every hold is covered, no byte appears or           *)
(* disappears, a returned order was not used, and a transfer counts its    *)
(* uploads.                                                                *)
(***************************************************************************)
EXTENDS UploadTrafficProofs, SumTheorems

-----------------------------------------------------------------------------
(* Sources and sums over them. *)

\* Every source has a place in the order in which planning goes through them.
LEMMA SourceFacts ==
    /\ IsFiniteSet(Sources)
    /\ DOMAIN SourceSeq = 1 .. (Cardinality(Orders) + 1) /\ Cardinality(Orders) \in Nat
    /\ \A i \in DOMAIN SourceSeq : SourceSeq[i] \in Sources
    /\ \A s \in Sources : \E i \in DOMAIN SourceSeq : SourceSeq[i] = s
<1> DEFINE n == Cardinality(Orders)
<1>1. IsFiniteSet(Orders) /\ n \in Nat
  BY UploadTrafficAssumption, FS_CardinalityType
<1>2. IsFiniteSet(Sources)
  <2>1. Sources = Orders \cup {"free"}
    BY DEF Sources
  <2> QED
    BY <1>1, <2>1, FS_AddElement
<1> HIDE DEF n
<1>3. OrderSeq \in Seq(Orders) /\ Len(OrderSeq) = n /\ DOMAIN OrderSeq = 1 .. n
  BY <1>1, UploadTrafficAssumption DEF n
<1>4. /\ Len(SourceSeq) = n + 1 /\ DOMAIN SourceSeq = 1 .. (n + 1)
      /\ SourceSeq[1] = "free" /\ \A i \in 1 .. n : SourceSeq[i + 1] = OrderSeq[i]
  BY <1>1, <1>3 DEF SourceSeq
<1>5. \A i \in DOMAIN SourceSeq : SourceSeq[i] \in Sources
  <2> SUFFICES ASSUME NEW i \in 1 .. (n + 1) PROVE SourceSeq[i] \in Sources
    BY <1>4
  <2>1. CASE i = 1
    BY <1>4, <2>1 DEF Sources
  <2>2. CASE i # 1
    <3>1. i - 1 \in 1 .. n /\ (i - 1) + 1 = i
      BY <1>1, <2>2
    <3>2. SourceSeq[i] = OrderSeq[i - 1] /\ OrderSeq[i - 1] \in Orders
      BY <1>3, <1>4, <3>1
    <3> QED
      BY <3>2 DEF Sources
  <2> QED
    BY <2>1, <2>2
<1>6. \A s \in Sources : \E i \in DOMAIN SourceSeq : SourceSeq[i] = s
  <2> SUFFICES ASSUME NEW s \in Sources PROVE \E i \in 1 .. (n + 1) : SourceSeq[i] = s
    BY <1>4
  <2>1. CASE s = "free"
    BY <1>1, <1>4, <2>1
  <2>2. CASE s \in Orders
    <3>1. PICK i \in 1 .. n : OrderSeq[i] = s
      BY <1>3, <2>2, UploadTrafficAssumption
    <3> QED
      BY <1>1, <1>4, <3>1
  <2> QED
    BY <2>1, <2>2 DEF Sources
<1> QED
  BY <1>1, <1>2, <1>4, <1>5, <1>6 DEF n

\* What was settled from a source.
Settled(l) == {u \in Uploads : l.charge[u].status = "settled"}
Taken(l, s) == SumFunctionOnSet(SharesOf(l, s), Settled(l))

\* The shares of any set of uploads in a source add up to a natural number.
LEMMA SharesAdd ==
    ASSUME NEW l \in Ledgers, NEW s \in Sources, NEW R, R \subseteq Uploads
    PROVE  /\ IsFiniteSet(R)
           /\ \A u \in Uploads : SharesOf(l, s)[u] = l.charge[u].alloc[s] /\ l.charge[u].alloc[s] \in Nat
           /\ SumFunctionOnSet(SharesOf(l, s), R) \in Nat
           /\ \A u \in R : l.charge[u].alloc[s] <= SumFunctionOnSet(SharesOf(l, s), R)
<1>1. IsFiniteSet(R)
  BY FS_Subset, UploadTrafficAssumption
<1>2. \A u \in Uploads : SharesOf(l, s)[u] = l.charge[u].alloc[s] /\ l.charge[u].alloc[s] \in Nat
  BY DEF SharesOf, Ledgers, Charges
<1>3. \A u \in R : SharesOf(l, s)[u] \in Nat
  BY <1>2
<1> QED
  BY <1>1, <1>2, <1>3, SumOfNaturals

\* When one charge changes, the shares of the others add up to what they did.
LEMMA SharesOfOthers ==
    ASSUME NEW l \in Ledgers, NEW m \in Ledgers, NEW s \in Sources, NEW R \in SUBSET Uploads,
           \A w \in R : m.charge[w] = l.charge[w]
    PROVE  SumFunctionOnSet(SharesOf(m, s), R) = SumFunctionOnSet(SharesOf(l, s), R)
<1>1. IsFiniteSet(R)
  BY SharesAdd
<1>2. \A w \in R : SharesOf(l, s)[w] \in Int /\ SharesOf(m, s)[w] = SharesOf(l, s)[w]
  BY SharesAdd
<1> QED
  BY <1>1, <1>2, SumAgrees

\* One more upload adds its share.
LEMMA ShareJoins ==
    ASSUME NEW l \in Ledgers, NEW s \in Sources, NEW R \in SUBSET Uploads, NEW u \in Uploads, u \notin R
    PROVE  /\ SumFunctionOnSet(SharesOf(l, s), R) \in Nat
           /\ SumFunctionOnSet(SharesOf(l, s), R \cup {u}) =
                  SumFunctionOnSet(SharesOf(l, s), R) + l.charge[u].alloc[s]
<1>1. IsFiniteSet(R) /\ SumFunctionOnSet(SharesOf(l, s), R) \in Nat
  BY SharesAdd
<1>2. SharesOf(l, s)[u] = l.charge[u].alloc[s] /\ SharesOf(l, s)[u] \in Int
  BY SharesAdd
<1>3. \A w \in R : SharesOf(l, s)[w] \in Int
  BY SharesAdd
<1>4. SumFunctionOnSet(SharesOf(l, s), R \cup {u}) = SumFunctionOnSet(SharesOf(l, s), R) + SharesOf(l, s)[u]
  BY <1>1, <1>2, <1>3, SumPutsIn
<1> QED
  BY <1>1, <1>2, <1>4

-----------------------------------------------------------------------------
(* Planning. *)

\* TakeInOrder never takes more than there is.
LEMMA TakeIsBounded ==
    ASSUME NEW f \in [DOMAIN SourceSeq -> Nat], NEW need \in Int
    PROVE  /\ TakeInOrder(f, need) \in [DOMAIN SourceSeq -> Nat]
           /\ \A i \in DOMAIN SourceSeq : TakeInOrder(f, need)[i] <= f[i]
<1> SUFFICES ASSUME NEW i \in DOMAIN SourceSeq
             PROVE  TakeInOrder(f, need)[i] \in Nat /\ TakeInOrder(f, need)[i] <= f[i]
  BY DEF TakeInOrder
<1>1. IsFiniteSet(1 .. (i - 1)) /\ 1 .. (i - 1) \subseteq DOMAIN SourceSeq
  <2>1. i \in 1 .. (Cardinality(Orders) + 1) /\ Cardinality(Orders) \in Nat /\ i - 1 \in Int
    BY SourceFacts
  <2>2. IsFiniteSet(1 .. (i - 1))
    BY <2>1, FS_Interval
  <2> QED
    BY <2>1, <2>2, SourceFacts
<1>2. SumFunctionOnSet(f, 1 .. (i - 1)) \in Nat
  BY <1>1, SumOfNaturals
<1>3. TakeInOrder(f, need)[i] = Smaller(f[i], Larger(need - SumFunctionOnSet(f, 1 .. (i - 1)), 0))
  BY DEF TakeInOrder
<1> QED
  BY <1>2, <1>3 DEF Smaller, Larger

\* planUploadTrafficAllocationsTx offers what a row has and no charge holds.
LEMMA AvailableIsFree ==
    ASSUME NEW l \in Ledgers
    PROVE  /\ AvailableInOrder(l) \in [DOMAIN SourceSeq -> Nat]
           /\ \A i \in DOMAIN SourceSeq : AvailableInOrder(l)[i] > 0 =>
                  /\ SourceSeq[i] \in l.rows
                  /\ AvailableInOrder(l)[i] + Held(l, SourceSeq[i]) <= l.remaining[SourceSeq[i]]
<1> DEFINE snapshotted == SumFunction([s \in Sources |-> Held(l, s)])
           unheld == [i \in DOMAIN SourceSeq |->
                         IF SourceSeq[i] \in l.rows
                         THEN Larger(l.remaining[SourceSeq[i]] - Held(l, SourceSeq[i]), 0)
                         ELSE 0]
           part == TakeInOrder(unheld, Larger(l.reserved - snapshotted, 0))
<1>1. \A s \in Sources : Held(l, s) \in Nat
  BY SharesAdd DEF Held, Reserved
<1>2. snapshotted \in Nat
  <2> DEFINE held == [s \in Sources |-> Held(l, s)]
  <2>1. \A s \in Sources : held[s] \in Nat
    BY <1>1
  <2>2. DOMAIN held = Sources
    OBVIOUS
  <2> HIDE DEF held
  <2>3. SumFunctionOnSet(held, Sources) \in Nat
    BY <2>1, SourceFacts, SumOfNaturals
  <2> QED
    BY <2>2, <2>3 DEF SumFunction, held
<1>3. \A i \in DOMAIN SourceSeq :
          /\ SourceSeq[i] \in Sources /\ l.remaining[SourceSeq[i]] \in Nat /\ Held(l, SourceSeq[i]) \in Nat
  BY <1>1, SourceFacts DEF Ledgers
<1>4. l.reserved \in Nat
  BY DEF Ledgers
<1> HIDE DEF snapshotted
<1>5. unheld \in [DOMAIN SourceSeq -> Nat]
  BY <1>3 DEF Larger
<1>6. AvailableInOrder(l) = [i \in DOMAIN SourceSeq |-> unheld[i] - part[i]]
  BY DEF AvailableInOrder, snapshotted
<1>7. Larger(l.reserved - snapshotted, 0) \in Int
  BY <1>2, <1>4 DEF Larger
<1>8. part \in [DOMAIN SourceSeq -> Nat] /\ \A i \in DOMAIN SourceSeq : part[i] <= unheld[i]
  <2> HIDE DEF unheld
  <2> QED
    BY <1>5, <1>7, TakeIsBounded
<1> HIDE DEF part
<1>9. \A i \in DOMAIN SourceSeq : unheld[i] > 0 =>
          /\ SourceSeq[i] \in l.rows
          /\ unheld[i] + Held(l, SourceSeq[i]) = l.remaining[SourceSeq[i]]
  BY <1>3 DEF Larger
<1> HIDE DEF unheld
<1> QED
  BY <1>3, <1>5, <1>6, <1>8, <1>9

\* A plan takes from rows that are there, and only what no charge holds.
LEMMA PlanIsFree ==
    ASSUME NEW l \in Ledgers, NEW required \in Nat
    PROVE  /\ PlanAllocations(l, required) \in [Sources -> Nat]
           /\ \A s \in Sources : PlanAllocations(l, required)[s] > 0 =>
                  s \in l.rows /\ PlanAllocations(l, required)[s] + Held(l, s) <= l.remaining[s]
<1> DEFINE available == AvailableInOrder(l)
           taken == TakeInOrder(available, required)
           place(s) == CHOOSE i \in DOMAIN SourceSeq : SourceSeq[i] = s
<1>1. available \in [DOMAIN SourceSeq -> Nat]
  BY AvailableIsFree
<1>2. taken \in [DOMAIN SourceSeq -> Nat] /\ \A i \in DOMAIN SourceSeq : taken[i] <= available[i]
  <2> HIDE DEF available
  <2> QED
    BY <1>1, TakeIsBounded
<1>3. \A s \in Sources : place(s) \in DOMAIN SourceSeq /\ SourceSeq[place(s)] = s
  BY SourceFacts
<1>4. PlanAllocations(l, required) = [s \in Sources |-> taken[place(s)]]
  BY DEF PlanAllocations
<1> HIDE DEF place, taken
<1> SUFFICES ASSUME NEW s \in Sources
             PROVE  /\ taken[place(s)] \in Nat
                    /\ taken[place(s)] > 0 =>
                           s \in l.rows /\ taken[place(s)] + Held(l, s) <= l.remaining[s]
  BY <1>4
<1>5. taken[place(s)] \in Nat /\ available[place(s)] \in Nat /\ taken[place(s)] <= available[place(s)]
  BY <1>1, <1>2, <1>3
<1>6. available[place(s)] > 0 => s \in l.rows /\ available[place(s)] + Held(l, s) <= l.remaining[s]
  BY <1>3, AvailableIsFree
<1>7. Held(l, s) \in Nat /\ l.remaining[s] \in Nat
  BY SharesAdd DEF Held, Reserved, Ledgers
<1> HIDE DEF available
<1> QED
  BY <1>5, <1>6, <1>7

-----------------------------------------------------------------------------
(* What the ledger operators keep. *)

\* A reserved charge is allocated in full, from sources that have a row.
ChargesAreWhole(l) ==
    \A u \in Reserved(l) :
        /\ Allocated(l, u) = Length[u]
        /\ \A s \in Sources : l.charge[u].alloc[s] > 0 => s \in l.rows

\* A balance is what was given less what was taken, and covers what is held of it.
Balanced(l, given) ==
    \A s \in Sources : /\ l.remaining[s] = given[s] - Taken(l, s)
                       /\ Held(l, s) <= l.remaining[s]

\* The counter of an account is its reserved charges and the holds of an older version.
Counted(l, older) == l.reserved = older + SumFunctionOnSet(Length, Reserved(l))

LedgerOK(l, given, older) ==
    l \in Ledgers /\ Balanced(l, given) /\ ChargesAreWhole(l) /\ Counted(l, older)

\* The lengths of any set of uploads add up, with one more and with one less.
LEMMA LengthsAdd ==
    ASSUME NEW R, R \subseteq Uploads
    PROVE  /\ IsFiniteSet(R) /\ \A u \in R : Length[u] \in Nat
           /\ SumFunctionOnSet(Length, R) \in Nat
           /\ \A u \in R : /\ Length[u] <= SumFunctionOnSet(Length, R)
                           /\ SumFunctionOnSet(Length, R) = Length[u] + SumFunctionOnSet(Length, R \ {u})
           /\ \A u \in Uploads \ R :
                  SumFunctionOnSet(Length, R \cup {u}) = SumFunctionOnSet(Length, R) + Length[u]
<1>1. IsFiniteSet(R)
  BY FS_Subset, UploadTrafficAssumption
<1>2. \A u \in Uploads : Length[u] \in Nat /\ Length[u] \in Int
  BY UploadTrafficAssumption
<1>3. \A u \in R : Length[u] \in Nat /\ Length[u] \in Int
  BY <1>2
<1>4. /\ SumFunctionOnSet(Length, R) \in Nat
      /\ \A u \in R : Length[u] <= SumFunctionOnSet(Length, R)
  BY <1>1, <1>3, SumOfNaturals
<1>5. \A u \in R : SumFunctionOnSet(Length, R) = Length[u] + SumFunctionOnSet(Length, R \ {u})
  BY <1>1, <1>3, SumTakesOut
<1>6. ASSUME NEW u \in Uploads \ R
      PROVE  SumFunctionOnSet(Length, R \cup {u}) = SumFunctionOnSet(Length, R) + Length[u]
  BY <1>1, <1>2, <1>3, SumPutsIn
<1> QED
  BY <1>1, <1>3, <1>4, <1>5, <1>6

\* What the invariant says of one reserved charge: it can be settled and refunded.
LEMMA ReservedIsCovered ==
    ASSUME NEW l, NEW given, NEW older \in Nat, LedgerOK(l, given, older), NEW u \in Reserved(l)
    PROVE  /\ CanSettle(l, u) /\ CanRefund(l, u)
           /\ \A s \in Sources : l.charge[u].alloc[s] <= Held(l, s) /\ Held(l, s) \in Nat
<1>1. /\ l \in Ledgers /\ u \in Uploads /\ l.charge[u].status = "reserved"
      /\ Reserved(l) \subseteq Uploads
  BY DEF LedgerOK, Reserved
<1>2. \A s \in Sources : /\ l.charge[u].alloc[s] <= Held(l, s) /\ Held(l, s) \in Nat
                         /\ l.charge[u].alloc[s] \in Nat /\ l.remaining[s] \in Nat
                         /\ Held(l, s) <= l.remaining[s]
  BY <1>1, SharesAdd DEF Held, LedgerOK, Balanced, Ledgers
<1>3. l.reserved >= Length[u]
  <2>1. /\ SumFunctionOnSet(Length, Reserved(l)) \in Nat
        /\ Length[u] <= SumFunctionOnSet(Length, Reserved(l)) /\ Length[u] \in Nat
    BY <1>1, LengthsAdd
  <2>2. l.reserved = older + SumFunctionOnSet(Length, Reserved(l))
    BY DEF LedgerOK, Counted
  <2> QED
    BY <2>1, <2>2
<1>4. /\ Allocated(l, u) = Length[u]
      /\ \A s \in Sources : l.charge[u].alloc[s] > 0 => s \in l.rows
  BY DEF LedgerOK, ChargesAreWhole
<1>5. \A s \in Sources : l.remaining[s] >= l.charge[u].alloc[s]
  BY <1>2
<1> QED
  BY <1>1, <1>2, <1>3, <1>4, <1>5 DEF CanSettle, CanRefund

\* A ledger that differs in neither charges nor rows nor balances.
LEMMA SameChargesSameSums ==
    ASSUME NEW l \in Ledgers, NEW m \in Ledgers, m.charge = l.charge
    PROVE  /\ Reserved(m) = Reserved(l) /\ Settled(m) = Settled(l)
           /\ \A s : SharesOf(m, s) = SharesOf(l, s) /\ Held(m, s) = Held(l, s) /\ Taken(m, s) = Taken(l, s)
           /\ \A u : Allocated(m, u) = Allocated(l, u)
BY DEF Reserved, Settled, SharesOf, Held, Taken, Allocated

\* ensureTrafficAccountTx: an account that is opened had nothing and nothing was taken.
LEMMA EnsureKeepsLedger ==
    ASSUME NEW l, NEW given, NEW older \in Nat, LedgerOK(l, given, older),
           given \in [Sources -> Nat], ~l.opened => given["free"] = 0
    PROVE  /\ LedgerOK(EnsureTrafficAccount(l),
                  IF l.opened THEN given ELSE [given EXCEPT !["free"] = InitialTraffic], older)
           /\ EnsureTrafficAccount(l).opened /\ EnsureTrafficAccount(l).rows = l.rows
           /\ EnsureTrafficAccount(l).charge = l.charge
<1>1. CASE l.opened
  BY <1>1 DEF EnsureTrafficAccount
<1>2. CASE ~l.opened
  <2> DEFINE m == EnsureTrafficAccount(l)
             more == [given EXCEPT !["free"] = InitialTraffic]
  <2>0. l \in Ledgers /\ "free" \in Sources /\ InitialTraffic \in Nat
    BY UploadTrafficAssumption DEF LedgerOK, Sources
  <2>1. \A s \in Sources : Taken(l, s) \in Nat /\ Held(l, s) \in Nat /\ l.remaining[s] \in Nat
    BY <2>0, SharesAdd DEF Taken, Held, Settled, Reserved, Ledgers
  <2>2. l.remaining["free"] = 0 - Taken(l, "free") /\ Held(l, "free") <= l.remaining["free"]
    BY <1>2, <2>0 DEF LedgerOK, Balanced
  <2>3. l.remaining["free"] = 0 /\ Taken(l, "free") = 0 /\ Held(l, "free") = 0
    BY <2>0, <2>1, <2>2
  <2>4. m = [l EXCEPT !.opened = TRUE, !.remaining["free"] = InitialTraffic]
    BY <1>2, <2>3 DEF EnsureTrafficAccount
  <2>5. /\ m \in Ledgers /\ m.charge = l.charge /\ m.rows = l.rows /\ m.opened /\ m.reserved = l.reserved
        /\ m.remaining = [l.remaining EXCEPT !["free"] = InitialTraffic]
    <3>1. [l.remaining EXCEPT !["free"] = InitialTraffic] \in [Sources -> Nat]
      BY <2>0 DEF Ledgers
    <3>2. /\ m.charge = l.charge /\ m.rows = l.rows /\ m.opened = TRUE /\ m.reserved = l.reserved
          /\ m.remaining = [l.remaining EXCEPT !["free"] = InitialTraffic]
          /\ m = [opened |-> m.opened, remaining |-> m.remaining, rows |-> m.rows,
                  reserved |-> m.reserved, charge |-> m.charge]
      BY <2>0, <2>4 DEF Ledgers
    <3> QED
      BY <2>0, <3>1, <3>2 DEF Ledgers
  <2> HIDE DEF m
  <2>6. \A s \in Sources : Held(m, s) = Held(l, s) /\ Taken(m, s) = Taken(l, s)
    BY <2>0, <2>5, SameChargesSameSums
  <2>7. Balanced(m, more)
    <3> SUFFICES ASSUME NEW s \in Sources
                 PROVE  m.remaining[s] = more[s] - Taken(m, s) /\ Held(m, s) <= m.remaining[s]
      BY DEF Balanced
    <3>1. l.remaining \in [Sources -> Nat]
      BY <2>0 DEF Ledgers
    <3>2. CASE s = "free"
      <4>1. m.remaining[s] = InitialTraffic /\ more[s] = InitialTraffic
        BY <2>0, <2>5, <3>1, <3>2
      <4> QED
        BY <2>0, <2>3, <2>6, <3>2, <4>1
    <3>3. CASE s # "free"
      <4>1. m.remaining[s] = l.remaining[s] /\ more[s] = given[s]
        BY <2>5, <3>1, <3>3
      <4> QED
        BY <2>6, <4>1 DEF LedgerOK, Balanced
    <3> QED
      BY <3>2, <3>3
  <2>8. ChargesAreWhole(m) /\ Counted(m, older)
    BY <2>0, <2>5, SameChargesSameSums DEF LedgerOK, ChargesAreWhole, Counted
  <2> QED
    BY <1>2, <2>5, <2>7, <2>8 DEF LedgerOK, m
<1> QED
  BY <1>1, <1>2

\* reserveUploadTrafficTx gives an upload that has no charge yet what nobody holds.
Charged(l, u) ==
    [l EXCEPT !.charge[u] = [status |-> "reserved", alloc |-> PlanAllocations(l, Length[u])],
              !.reserved = @ + Length[u]]

\* A reservation keeps the ledger, and takes nothing from a source without a row.
LEMMA ReserveKeepsLedger ==
    ASSUME NEW l, NEW given, NEW older \in Nat, LedgerOK(l, given, older), given \in [Sources -> Nat],
           NEW u \in Uploads, l.charge[u].status = "none", PlanSuffices(l, Length[u])
    PROVE  /\ LedgerOK(Charged(l, u), given, older)
           /\ Charged(l, u).opened = l.opened /\ Charged(l, u).rows = l.rows
           /\ \A w \in Uploads \ {u} : Charged(l, u).charge[w] = l.charge[w]
           /\ \A s \in Sources \ l.rows : Charged(l, u).charge[u].alloc[s] = 0
<1> DEFINE m == Charged(l, u)
           plan == PlanAllocations(l, Length[u])
           new == [status |-> "reserved", alloc |-> plan]
<1>0. l \in Ledgers /\ Length[u] \in Nat /\ l.charge \in [Uploads -> Charges] /\ l.reserved \in Nat
  BY UploadTrafficAssumption DEF LedgerOK, Ledgers
<1>1. /\ plan \in [Sources -> Nat]
      /\ \A s \in Sources : plan[s] > 0 => s \in l.rows /\ plan[s] + Held(l, s) <= l.remaining[s]
  BY <1>0, PlanIsFree
<1>2. SumFunctionOnSet(plan, Sources) = Length[u]
  BY DEF PlanSuffices
<1> HIDE DEF plan
<1>3. new \in Charges /\ new.alloc = plan /\ new.status = "reserved"
  BY <1>1 DEF Charges, ChargeStatuses
<1>4. m = [l EXCEPT !.charge = [@ EXCEPT ![u] = new], !.reserved = @ + Length[u]]
  BY DEF plan, Charged
<1> HIDE DEF new, m
<1>5. /\ m.opened = l.opened /\ m.rows = l.rows /\ m.remaining = l.remaining
      /\ m.charge = [l.charge EXCEPT ![u] = new] /\ m.reserved = l.reserved + Length[u]
      /\ m = [opened |-> m.opened, remaining |-> m.remaining, rows |-> m.rows,
              reserved |-> m.reserved, charge |-> m.charge]
  BY <1>0, <1>4 DEF Ledgers
<1>6. m.charge \in [Uploads -> Charges] /\ m.reserved \in Nat
  BY <1>0, <1>3, <1>5
<1>7. m \in Ledgers
  BY <1>0, <1>5, <1>6 DEF Ledgers
<1>8. m.charge[u] = new /\ \A w \in Uploads \ {u} : m.charge[w] = l.charge[w]
  BY <1>0, <1>5
<1>9. /\ Reserved(m) = Reserved(l) \cup {u} /\ u \notin Reserved(l) /\ Reserved(l) \subseteq Uploads
      /\ Settled(m) = Settled(l) /\ u \notin Settled(l) /\ Settled(l) \subseteq Uploads
  BY <1>3, <1>8 DEF Reserved, Settled
<1>10. Balanced(m, given)
  <2> SUFFICES ASSUME NEW s \in Sources
               PROVE  m.remaining[s] = given[s] - Taken(m, s) /\ Held(m, s) <= m.remaining[s]
    BY DEF Balanced
  <2>1. Taken(m, s) = Taken(l, s)
    <3>1. Settled(l) \in SUBSET Uploads /\ \A w \in Settled(l) : m.charge[w] = l.charge[w]
      BY <1>8, <1>9
    <3>2. SumFunctionOnSet(SharesOf(m, s), Settled(l)) = SumFunctionOnSet(SharesOf(l, s), Settled(l))
      BY <1>0, <1>7, <3>1, SharesOfOthers
    <3> QED
      BY <1>9, <3>2 DEF Taken
  <2>2. Held(m, s) = Held(l, s) + plan[s] /\ Held(l, s) \in Nat
    <3>1. Reserved(l) \in SUBSET Uploads /\ \A w \in Reserved(l) : m.charge[w] = l.charge[w]
      BY <1>8, <1>9
    <3>2. SumFunctionOnSet(SharesOf(m, s), Reserved(l)) = Held(l, s)
      BY <1>0, <1>7, <3>1, SharesOfOthers DEF Held
    <3>3. /\ SumFunctionOnSet(SharesOf(m, s), Reserved(l)) \in Nat
          /\ SumFunctionOnSet(SharesOf(m, s), Reserved(l) \cup {u}) =
                 SumFunctionOnSet(SharesOf(m, s), Reserved(l)) + m.charge[u].alloc[s]
      BY <1>7, <1>9, <3>1, ShareJoins
    <3> QED
      BY <1>3, <1>8, <1>9, <3>2, <3>3 DEF Held
  <2>3. l.remaining[s] = given[s] - Taken(l, s) /\ Held(l, s) <= l.remaining[s] /\ l.remaining[s] \in Nat
    BY <1>0 DEF LedgerOK, Balanced, Ledgers
  <2>4. plan[s] \in Nat
    BY <1>1
  <2>5. Held(l, s) + plan[s] <= l.remaining[s]
    BY <1>1, <2>2, <2>3, <2>4
  <2> QED
    BY <1>5, <2>1, <2>2, <2>3, <2>5
<1>11. ChargesAreWhole(m)
  <2> SUFFICES ASSUME NEW w \in Reserved(m)
               PROVE  /\ Allocated(m, w) = Length[w]
                      /\ \A s \in Sources : m.charge[w].alloc[s] > 0 => s \in m.rows
    BY DEF ChargesAreWhole
  <2>1. CASE w = u
    BY <1>1, <1>2, <1>3, <1>5, <1>8, <2>1 DEF Allocated
  <2>2. CASE w # u
    <3>1. w \in Reserved(l) /\ m.charge[w] = l.charge[w]
      BY <1>8, <1>9, <2>2
    <3> QED
      BY <1>5, <3>1 DEF LedgerOK, ChargesAreWhole, Allocated
  <2> QED
    BY <2>1, <2>2
<1>12. Counted(m, older)
  <2>1. /\ SumFunctionOnSet(Length, Reserved(m)) = SumFunctionOnSet(Length, Reserved(l)) + Length[u]
        /\ SumFunctionOnSet(Length, Reserved(l)) \in Nat
    BY <1>9, LengthsAdd
  <2>2. l.reserved = older + SumFunctionOnSet(Length, Reserved(l))
    BY DEF LedgerOK, Counted
  <2> QED
    BY <1>0, <1>5, <2>1, <2>2 DEF Counted
<1>13. LedgerOK(m, given, older)
  BY <1>7, <1>10, <1>11, <1>12 DEF LedgerOK
<1>14. \A s \in Sources \ l.rows : m.charge[u].alloc[s] = 0
  BY <1>1, <1>3, <1>8
<1> QED
  BY <1>5, <1>8, <1>13, <1>14 DEF m

\* A reserved charge that becomes something else no longer holds anything.
LEMMA ReleaseKeepsOthers ==
    ASSUME NEW l \in Ledgers, NEW m \in Ledgers, NEW older \in Nat, ChargesAreWhole(l), Counted(l, older),
           NEW u \in Reserved(l), m.charge[u].status # "reserved", m.rows = l.rows,
           \A w \in Uploads \ {u} : m.charge[w] = l.charge[w], m.reserved = l.reserved - Length[u]
    PROVE  /\ ChargesAreWhole(m) /\ Counted(m, older)
           /\ \A s \in Sources : /\ Held(l, s) = Held(m, s) + l.charge[u].alloc[s]
                                 /\ Held(m, s) \in Nat
<1>1. /\ u \in Uploads /\ Reserved(l) = Reserved(m) \cup {u} /\ u \notin Reserved(m)
      /\ Reserved(m) = Reserved(l) \ {u}
      /\ Reserved(m) \subseteq Uploads /\ Reserved(l) \subseteq Uploads
  BY DEF Reserved
<1>2. \A s \in Sources : /\ Held(l, s) = Held(m, s) + l.charge[u].alloc[s]
                         /\ Held(m, s) \in Nat
  <2> SUFFICES ASSUME NEW s \in Sources
               PROVE  Held(l, s) = Held(m, s) + l.charge[u].alloc[s] /\ Held(m, s) \in Nat
    OBVIOUS
  <2>1. Reserved(m) \in SUBSET Uploads /\ \A w \in Reserved(m) : l.charge[w] = m.charge[w]
    BY <1>1
  <2>2. SumFunctionOnSet(SharesOf(l, s), Reserved(m)) = Held(m, s)
    BY <2>1, SharesOfOthers DEF Held
  <2>3. /\ SumFunctionOnSet(SharesOf(l, s), Reserved(m)) \in Nat
        /\ SumFunctionOnSet(SharesOf(l, s), Reserved(m) \cup {u}) =
               SumFunctionOnSet(SharesOf(l, s), Reserved(m)) + l.charge[u].alloc[s]
    <3>1. u \in Uploads /\ u \notin Reserved(m) /\ Reserved(m) \in SUBSET Uploads
      BY <1>1
    <3> QED
      BY <3>1, ShareJoins
  <2> QED
    BY <1>1, <2>2, <2>3 DEF Held
<1>3. ChargesAreWhole(m)
  BY <1>1 DEF ChargesAreWhole, Allocated
<1>4. Counted(m, older)
  <2>1. /\ SumFunctionOnSet(Length, Reserved(l)) = Length[u] + SumFunctionOnSet(Length, Reserved(m))
        /\ Length[u] \in Nat /\ SumFunctionOnSet(Length, Reserved(m)) \in Nat
    <3>1. SumFunctionOnSet(Length, Reserved(l)) = Length[u] + SumFunctionOnSet(Length, Reserved(l) \ {u})
      BY <1>1, LengthsAdd
    <3>2. SumFunctionOnSet(Length, Reserved(m)) \in Nat /\ Length[u] \in Nat
      BY <1>1, LengthsAdd, UploadTrafficAssumption
    <3> QED
      BY <1>1, <3>1, <3>2
  <2> QED
    BY <2>1 DEF Counted
<1> QED
  BY <1>2, <1>3, <1>4

\* settleUploadTrafficTx takes what the charge holds, and takes it off the counter.
LEMMA SettleKeepsLedger ==
    ASSUME NEW l, NEW given, NEW older \in Nat, LedgerOK(l, given, older), given \in [Sources -> Nat],
           NEW u \in Uploads
    PROVE  /\ LedgerOK(SettleUploadTraffic(l, u), given, older)
           /\ SettleUploadTraffic(l, u).opened = l.opened /\ SettleUploadTraffic(l, u).rows = l.rows
<1>1. CASE l.charge[u].status # "reserved"
  BY <1>1 DEF SettleUploadTraffic
<1>2. CASE l.charge[u].status = "reserved"
  <2> DEFINE m == SettleUploadTraffic(l, u)
             new == [l.charge[u] EXCEPT !.status = "settled"]
             left == [s \in Sources |-> l.remaining[s] - l.charge[u].alloc[s]]
  <2>0. /\ l \in Ledgers /\ u \in Reserved(l) /\ l.charge \in [Uploads -> Charges]
        /\ l.reserved \in Nat /\ Length[u] \in Nat
    BY <1>2, UploadTrafficAssumption DEF LedgerOK, Ledgers, Reserved
  <2>1. /\ \A s \in Sources : l.charge[u].alloc[s] <= Held(l, s) /\ Held(l, s) \in Nat
        /\ l.reserved >= Length[u]
    BY <1>2, <2>0, ReservedIsCovered DEF CanSettle
  <2>2. \A s \in Sources : /\ Held(l, s) <= l.remaining[s] /\ l.remaining[s] \in Nat
                           /\ l.charge[u].alloc[s] \in Nat
    BY <2>0 DEF LedgerOK, Balanced, Ledgers, Charges
  <2>3. left \in [Sources -> Nat]
    BY <2>1, <2>2
  <2>4. new \in Charges /\ new.alloc = l.charge[u].alloc /\ new.status = "settled"
    BY <2>0 DEF Charges, ChargeStatuses
  <2>5. m = [l EXCEPT !.charge = [@ EXCEPT ![u] = new], !.reserved = @ - Length[u], !.remaining = left]
    BY <1>2 DEF SettleUploadTraffic
  <2> HIDE DEF m, new
  <2>6. /\ m.opened = l.opened /\ m.rows = l.rows /\ m.remaining = left
        /\ m.charge = [l.charge EXCEPT ![u] = new] /\ m.reserved = l.reserved - Length[u]
        /\ m = [opened |-> m.opened, remaining |-> m.remaining, rows |-> m.rows,
                reserved |-> m.reserved, charge |-> m.charge]
    BY <2>0, <2>5 DEF Ledgers
  <2>7. m.charge \in [Uploads -> Charges] /\ m.reserved \in Nat
    BY <2>0, <2>1, <2>4, <2>6
  <2>8. m \in Ledgers
    BY <2>0, <2>3, <2>6, <2>7 DEF Ledgers
  <2>9. m.charge[u] = new /\ \A w \in Uploads \ {u} : m.charge[w] = l.charge[w]
    BY <2>0, <2>6
  <2>10. /\ ChargesAreWhole(m) /\ Counted(m, older)
         /\ \A s \in Sources : Held(l, s) = Held(m, s) + l.charge[u].alloc[s] /\ Held(m, s) \in Nat
    BY <2>0, <2>4, <2>6, <2>8, <2>9, ReleaseKeepsOthers DEF LedgerOK
  <2>11. /\ Settled(m) = Settled(l) \cup {u} /\ u \notin Settled(l) /\ Settled(l) \subseteq Uploads
    BY <1>2, <2>4, <2>9 DEF Settled
  <2>12. Balanced(m, given)
    <3> SUFFICES ASSUME NEW s \in Sources
                 PROVE  m.remaining[s] = given[s] - Taken(m, s) /\ Held(m, s) <= m.remaining[s]
      BY DEF Balanced
    <3>1. Taken(m, s) = Taken(l, s) + l.charge[u].alloc[s] /\ Taken(l, s) \in Nat
      <4>1. Settled(l) \in SUBSET Uploads /\ \A w \in Settled(l) : m.charge[w] = l.charge[w]
        BY <2>9, <2>11
      <4>2. SumFunctionOnSet(SharesOf(m, s), Settled(l)) = Taken(l, s)
        BY <2>0, <2>8, <4>1, SharesOfOthers DEF Taken
      <4>3. /\ SumFunctionOnSet(SharesOf(m, s), Settled(l)) \in Nat
            /\ SumFunctionOnSet(SharesOf(m, s), Settled(l) \cup {u}) =
                   SumFunctionOnSet(SharesOf(m, s), Settled(l)) + m.charge[u].alloc[s]
        BY <2>8, <2>11, <4>1, ShareJoins
      <4> QED
        BY <2>4, <2>9, <2>11, <4>2, <4>3 DEF Taken
    <3>2. l.remaining[s] = given[s] - Taken(l, s) /\ given[s] \in Nat
      BY DEF LedgerOK, Balanced
    <3>3. m.remaining[s] = l.remaining[s] - l.charge[u].alloc[s]
      BY <2>6
    <3> HIDE DEF left
    <3> QED
      BY <2>2, <2>10, <3>1, <3>2, <3>3
  <2> QED
    BY <2>6, <2>8, <2>10, <2>12 DEF LedgerOK, m
<1> QED
  BY <1>1, <1>2

\* refundUploadTrafficTx gives up the hold and takes nothing.
LEMMA RefundKeepsLedger ==
    ASSUME NEW l, NEW given, NEW older \in Nat, LedgerOK(l, given, older), given \in [Sources -> Nat],
           NEW u \in Uploads
    PROVE  /\ LedgerOK(RefundUploadTraffic(l, u), given, older)
           /\ RefundUploadTraffic(l, u).opened = l.opened /\ RefundUploadTraffic(l, u).rows = l.rows
<1>1. CASE l.charge[u].status # "reserved"
  BY <1>1 DEF RefundUploadTraffic
<1>2. CASE l.charge[u].status = "reserved"
  <2> DEFINE m == RefundUploadTraffic(l, u)
             new == [l.charge[u] EXCEPT !.status = "refunded"]
  <2>0. /\ l \in Ledgers /\ u \in Reserved(l) /\ l.charge \in [Uploads -> Charges]
        /\ l.reserved \in Nat /\ Length[u] \in Nat
    BY <1>2, UploadTrafficAssumption DEF LedgerOK, Ledgers, Reserved
  <2>1. l.reserved >= Length[u]
    BY <1>2, <2>0, ReservedIsCovered DEF CanSettle
  <2>2. new \in Charges /\ new.status = "refunded"
    BY <2>0 DEF Charges, ChargeStatuses
  <2>3. m = [l EXCEPT !.charge = [@ EXCEPT ![u] = new], !.reserved = @ - Length[u]]
    BY <1>2 DEF RefundUploadTraffic
  <2> HIDE DEF m, new
  <2>4. /\ m.opened = l.opened /\ m.rows = l.rows /\ m.remaining = l.remaining
        /\ m.charge = [l.charge EXCEPT ![u] = new] /\ m.reserved = l.reserved - Length[u]
        /\ m = [opened |-> m.opened, remaining |-> m.remaining, rows |-> m.rows,
                reserved |-> m.reserved, charge |-> m.charge]
    BY <2>0, <2>3 DEF Ledgers
  <2>5. m.charge \in [Uploads -> Charges] /\ m.reserved \in Nat
    BY <2>0, <2>1, <2>2, <2>4
  <2>6. m \in Ledgers
    BY <2>0, <2>4, <2>5 DEF Ledgers
  <2>7. m.charge[u] = new /\ \A w \in Uploads \ {u} : m.charge[w] = l.charge[w]
    BY <2>0, <2>4
  <2>8. /\ ChargesAreWhole(m) /\ Counted(m, older)
        /\ \A s \in Sources : Held(l, s) = Held(m, s) + l.charge[u].alloc[s] /\ Held(m, s) \in Nat
    BY <2>0, <2>2, <2>4, <2>6, <2>7, ReleaseKeepsOthers DEF LedgerOK
  <2>9. /\ Settled(m) = Settled(l) /\ u \notin Settled(l) /\ Settled(l) \subseteq Uploads
    BY <1>2, <2>2, <2>7 DEF Settled
  <2>10. Balanced(m, given)
    <3> SUFFICES ASSUME NEW s \in Sources
                 PROVE  m.remaining[s] = given[s] - Taken(m, s) /\ Held(m, s) <= m.remaining[s]
      BY DEF Balanced
    <3>1. Taken(m, s) = Taken(l, s)
      <4>1. Settled(l) \in SUBSET Uploads /\ \A w \in Settled(l) : m.charge[w] = l.charge[w]
        BY <2>7, <2>9
      <4>2. SumFunctionOnSet(SharesOf(m, s), Settled(l)) = SumFunctionOnSet(SharesOf(l, s), Settled(l))
        BY <2>0, <2>6, <4>1, SharesOfOthers
      <4> QED
        BY <2>9, <4>2 DEF Taken
    <3>2. l.remaining[s] = given[s] - Taken(l, s) /\ Held(l, s) <= l.remaining[s] /\ l.remaining[s] \in Nat
      BY <2>0 DEF LedgerOK, Balanced, Ledgers
    <3>3. l.charge[u].alloc[s] \in Nat
      BY <2>0 DEF Charges
    <3> QED
      BY <2>4, <2>8, <3>1, <3>2, <3>3
  <2> QED
    BY <2>4, <2>6, <2>8, <2>10 DEF LedgerOK, m
<1> QED
  BY <1>1, <1>2

\* completeOrderTx: nothing was taken from, or is held of, an entitlement that was not there.
LEMMA GrantKeepsLedger ==
    ASSUME NEW l, NEW given, NEW older \in Nat, LedgerOK(l, given, older), given \in [Sources -> Nat],
           NEW o \in Orders, given[o] = 0
    PROVE  /\ LedgerOK(GrantEntitlement(l, o), [given EXCEPT ![o] = Traffic[o]], older)
           /\ GrantEntitlement(l, o).opened = l.opened /\ GrantEntitlement(l, o).charge = l.charge
           /\ GrantEntitlement(l, o).rows = l.rows \cup {o}
<1> DEFINE m == GrantEntitlement(l, o)
           more == [given EXCEPT ![o] = Traffic[o]]
<1>0. l \in Ledgers /\ o \in Sources /\ Traffic[o] \in Nat
  BY UploadTrafficAssumption DEF LedgerOK, Sources
<1>1. \A s \in Sources : Taken(l, s) \in Nat /\ Held(l, s) \in Nat /\ l.remaining[s] \in Nat
  BY <1>0, SharesAdd DEF Taken, Held, Settled, Reserved, Ledgers
<1>2. l.remaining[o] = 0 - Taken(l, o) /\ Held(l, o) <= l.remaining[o]
  BY <1>0 DEF LedgerOK, Balanced
<1>3. l.remaining[o] = 0 /\ Taken(l, o) = 0 /\ Held(l, o) = 0
  BY <1>0, <1>1, <1>2
<1>4. /\ m.charge = l.charge /\ m.rows = l.rows \cup {o} /\ m.opened = l.opened
      /\ m.reserved = l.reserved /\ m.remaining = [l.remaining EXCEPT ![o] = Traffic[o]]
      /\ m = [opened |-> m.opened, remaining |-> m.remaining, rows |-> m.rows,
              reserved |-> m.reserved, charge |-> m.charge]
  <2>1. m = [l EXCEPT !.rows = @ \cup {o}, !.remaining[o] = Traffic[o]]
    BY DEF GrantEntitlement
  <2> HIDE DEF m
  <2> QED
    BY <1>0, <2>1 DEF Ledgers
<1> HIDE DEF m
<1>5. l.remaining \in [Sources -> Nat] /\ m.remaining \in [Sources -> Nat] /\ m.rows \in SUBSET Sources
  BY <1>0, <1>4 DEF Ledgers
<1>6. m \in Ledgers
  BY <1>0, <1>4, <1>5 DEF Ledgers
<1>7. \A s \in Sources : Held(m, s) = Held(l, s) /\ Taken(m, s) = Taken(l, s)
  BY <1>0, <1>4, <1>6, SameChargesSameSums
<1>8. Balanced(m, more)
  <2> SUFFICES ASSUME NEW s \in Sources
               PROVE  m.remaining[s] = more[s] - Taken(m, s) /\ Held(m, s) <= m.remaining[s]
    BY DEF Balanced
  <2>1. CASE s = o
    <3>1. m.remaining[s] = Traffic[o] /\ more[s] = Traffic[o]
      BY <1>0, <1>4, <1>5, <2>1
    <3> QED
      BY <1>0, <1>3, <1>7, <2>1, <3>1
  <2>2. CASE s # o
    <3>1. m.remaining[s] = l.remaining[s] /\ more[s] = given[s]
      BY <1>4, <1>5, <2>2
    <3> QED
      BY <1>7, <3>1 DEF LedgerOK, Balanced
  <2> QED
    BY <2>1, <2>2
<1>9. ChargesAreWhole(m) /\ Counted(m, older)
  BY <1>0, <1>4, <1>6, SameChargesSameSums DEF LedgerOK, ChargesAreWhole, Counted
<1> QED
  BY <1>4, <1>6, <1>8, <1>9 DEF LedgerOK, m

\* RefundOrder takes back an entitlement of which nothing was taken and nothing is held.
TakeBack(l, o) == [l EXCEPT !.rows = @ \ {o}, !.remaining[o] = 0]
NobodyHolds(l, o) == \A u \in Reserved(l) : l.charge[u].alloc[o] = 0
NobodyUses(l, o) ==
    \A u \in Uploads : l.charge[u].status \in {"reserved", "settled"} => l.charge[u].alloc[o] = 0

\* Taking back an entitlement keeps the ledger, and shows that nobody used it.
LEMMA ReturnKeepsLedger ==
    ASSUME NEW l, NEW given, NEW older \in Nat, LedgerOK(l, given, older), given \in [Sources -> Nat],
           NEW o \in Orders, l.remaining[o] = given[o], NobodyHolds(l, o)
    PROVE  /\ LedgerOK(TakeBack(l, o), [given EXCEPT ![o] = 0], older)
           /\ TakeBack(l, o).opened = l.opened /\ TakeBack(l, o).charge = l.charge
           /\ TakeBack(l, o).rows = l.rows \ {o}
           /\ NobodyUses(l, o)
<1> DEFINE less == [given EXCEPT ![o] = 0]
           m == TakeBack(l, o)
<1>0. l \in Ledgers /\ o \in Sources
  BY DEF LedgerOK, Sources
<1>1. \A s \in Sources : Taken(l, s) \in Nat /\ Held(l, s) \in Nat /\ l.remaining[s] \in Nat
  BY <1>0, SharesAdd DEF Taken, Held, Settled, Reserved, Ledgers
<1>2. l.remaining[o] = given[o] - Taken(l, o)
  BY <1>0 DEF LedgerOK, Balanced
<1>3. Taken(l, o) = 0
  BY <1>0, <1>1, <1>2
<1>4. \A u \in Settled(l) : l.charge[u].alloc[o] = 0
  <2> SUFFICES ASSUME NEW u \in Settled(l) PROVE l.charge[u].alloc[o] = 0
    OBVIOUS
  <2>1. Settled(l) \subseteq Uploads
    BY DEF Settled
  <2>2. l.charge[u].alloc[o] \in Nat /\ l.charge[u].alloc[o] <= Taken(l, o)
    BY <1>0, <2>1, SharesAdd DEF Taken
  <2> QED
    BY <1>3, <2>2
<1>5. Held(l, o) = 0
  <2>1. Reserved(l) \in SUBSET Uploads
    BY DEF Reserved
  <2>2. IsFiniteSet(Reserved(l)) /\ \A u \in Reserved(l) : SharesOf(l, o)[u] = 0
    BY <1>0, <2>1, SharesAdd DEF NobodyHolds
  <2> QED
    BY <2>2, SumOfZeros DEF Held
<1>6. /\ m.charge = l.charge /\ m.rows = l.rows \ {o} /\ m.opened = l.opened
      /\ m.reserved = l.reserved /\ m.remaining = [l.remaining EXCEPT ![o] = 0]
      /\ m = [opened |-> m.opened, remaining |-> m.remaining, rows |-> m.rows,
              reserved |-> m.reserved, charge |-> m.charge]
  <2>1. m = [l EXCEPT !.rows = @ \ {o}, !.remaining[o] = 0]
    BY DEF TakeBack
  <2> HIDE DEF m
  <2> QED
    BY <1>0, <2>1 DEF Ledgers
<1> HIDE DEF m
<1>7. l.remaining \in [Sources -> Nat] /\ m.remaining \in [Sources -> Nat] /\ m.rows \in SUBSET Sources
  BY <1>0, <1>6 DEF Ledgers
<1>8. m \in Ledgers
  BY <1>0, <1>6, <1>7 DEF Ledgers
<1>9. \A s \in Sources : Held(m, s) = Held(l, s) /\ Taken(m, s) = Taken(l, s)
  BY <1>0, <1>6, <1>8, SameChargesSameSums
<1>10. Balanced(m, less)
  <2> SUFFICES ASSUME NEW s \in Sources
               PROVE  m.remaining[s] = less[s] - Taken(m, s) /\ Held(m, s) <= m.remaining[s]
    BY DEF Balanced
  <2>1. CASE s = o
    <3>1. m.remaining[s] = 0 /\ less[s] = 0
      BY <1>0, <1>6, <1>7, <2>1
    <3> QED
      BY <1>0, <1>3, <1>5, <1>9, <2>1, <3>1
  <2>2. CASE s # o
    <3>1. m.remaining[s] = l.remaining[s] /\ less[s] = given[s]
      BY <1>6, <1>7, <2>2
    <3> QED
      BY <1>9, <3>1 DEF LedgerOK, Balanced
  <2> QED
    BY <2>1, <2>2
<1>11. Counted(m, older) /\ Reserved(m) = Reserved(l) /\ \A u : Allocated(m, u) = Allocated(l, u)
  BY <1>0, <1>6, <1>8, SameChargesSameSums DEF LedgerOK, Counted
<1>12. ChargesAreWhole(m)
  <2> SUFFICES ASSUME NEW u \in Reserved(l)
               PROVE  /\ Allocated(m, u) = Length[u]
                      /\ \A s \in Sources : m.charge[u].alloc[s] > 0 => s \in m.rows
    BY <1>11 DEF ChargesAreWhole
  <2>1. /\ Allocated(l, u) = Length[u]
        /\ \A s \in Sources : l.charge[u].alloc[s] > 0 => s \in l.rows
    BY DEF LedgerOK, ChargesAreWhole
  <2> QED
    BY <1>6, <1>11, <2>1 DEF NobodyHolds
<1>13. NobodyUses(l, o)
  BY <1>4 DEF Reserved, Settled, NobodyHolds, NobodyUses
<1>14. LedgerOK(m, less, older)
  BY <1>8, <1>10, <1>11, <1>12 DEF LedgerOK
<1> QED
  BY <1>6, <1>13, <1>14 DEF m

-----------------------------------------------------------------------------
(* Balances, holds and orders. *)

GivenNow == [s \in Sources |-> Given(s)]

AccountTypes ==
    /\ legacy \in Nat /\ points \in Nat
    /\ order \in [Orders -> {"none", "pending", "paid", "refunded", "closed"}]

\* The sources that have a row are the free balance and the entitlements of paid orders.
RowsArePaid ==
    /\ "free" \in ledger.rows
    /\ \A o \in Orders : o \in ledger.rows <=> order[o] = "paid"

PaidOrders == {o \in Orders : order[o] = "paid"}
PointsOf == [o \in Orders |-> IF Method[o] = "points" THEN - PointsPrice ELSE Reward]
PointsAreKept == points = InitialPoints + SumFunctionOnSet(PointsOf, PaidOrders)

\* A returned order has no share in a charge that counts.
ReturnedHasNoShare ==
    \A o \in Orders : order[o] = "refunded" =>
        \A u \in Uploads : ledger.charge[u].status \in {"reserved", "settled"} =>
            ledger.charge[u].alloc[o] = 0

LedgerInv ==
    /\ AccountTypes
    /\ LedgerOK(ledger, GivenNow, legacy)
    /\ RowsArePaid
    /\ PointsAreKept
    /\ ReturnedHasNoShare

\* What a source was given is never negative.
LEMMA GivenIsNatural == GivenNow \in [Sources -> Nat]
BY UploadTrafficAssumption DEF GivenNow, Given, Sources

\* An account that is not opened yet has nothing and holds nothing.
LEMMA LedgerInvInit == Init => LedgerInv
<1> SUFFICES ASSUME Init PROVE LedgerInv
  OBVIOUS
<1>1. /\ ledger = [opened |-> FALSE, remaining |-> [s \in Sources |-> 0], rows |-> {"free"},
                   reserved |-> legacy, charge |-> [u \in Uploads |-> NoCharge]]
      /\ legacy \in Nat /\ points = InitialPoints /\ points \in Nat /\ order = [o \in Orders |-> "none"]
  BY UploadTrafficAssumption DEF Init
<1>2. ledger \in Ledgers
  BY <1>1 DEF Ledgers, Charges, ChargeStatuses, NoCharge, Sources
<1>3. Reserved(ledger) = {} /\ Settled(ledger) = {}
  BY <1>1 DEF Reserved, Settled, NoCharge
<1>4. \A s \in Sources : /\ Held(ledger, s) = 0 /\ Taken(ledger, s) = 0
                         /\ ledger.remaining[s] = 0 /\ GivenNow[s] = 0
  BY <1>1, <1>3, SumOfNothing DEF Held, Taken, GivenNow, Given, Sources
<1>5. SumFunctionOnSet(Length, Reserved(ledger)) = 0
  BY <1>3, SumOfNothing
<1>6. LedgerOK(ledger, GivenNow, legacy)
  <2>1. Balanced(ledger, GivenNow)
    BY <1>4 DEF Balanced
  <2>2. ChargesAreWhole(ledger)
    BY <1>3 DEF ChargesAreWhole
  <2>3. Counted(ledger, legacy)
    BY <1>1, <1>5 DEF Counted
  <2> QED
    BY <1>2, <2>1, <2>2, <2>3 DEF LedgerOK
<1>7. PaidOrders = {}
  BY <1>1 DEF PaidOrders
<1>8. PointsAreKept
  BY <1>1, <1>7, SumOfNothing DEF PointsAreKept
<1>9. AccountTypes /\ ReturnedHasNoShare
  BY <1>1 DEF AccountTypes, ReturnedHasNoShare
<1>10. RowsArePaid
  BY <1>1, UploadTrafficAssumption DEF RowsArePaid
<1> QED
  BY <1>6, <1>8, <1>9, <1>10 DEF LedgerInv

\* Paying for an order, or taking it back, moves its points.
LEMMA PointsMove ==
    ASSUME NEW R, R \subseteq Orders, NEW o \in Orders
    PROVE  /\ SumFunctionOnSet(PointsOf, R) \in Int /\ PointsOf[o] \in Int
           /\ PointsOf[o] = IF Method[o] = "points" THEN - PointsPrice ELSE Reward
           /\ o \notin R => SumFunctionOnSet(PointsOf, R \cup {o}) = SumFunctionOnSet(PointsOf, R) + PointsOf[o]
           /\ o \in R => SumFunctionOnSet(PointsOf, R) = PointsOf[o] + SumFunctionOnSet(PointsOf, R \ {o})
<1>1. IsFiniteSet(R)
  BY FS_Subset, UploadTrafficAssumption
<1>2. \A x \in Orders : PointsOf[x] \in Int /\ PointsOf[x] = IF Method[x] = "points" THEN - PointsPrice ELSE Reward
  BY UploadTrafficAssumption DEF PointsOf
<1>3. \A x \in R : PointsOf[x] \in Int
  BY <1>2
<1>4. SumFunctionOnSet(PointsOf, R) \in Int
  BY <1>1, <1>3, SumTakesOut
<1>5. o \in R => SumFunctionOnSet(PointsOf, R) = PointsOf[o] + SumFunctionOnSet(PointsOf, R \ {o})
  BY <1>1, <1>3, SumTakesOut
<1>6. o \notin R => SumFunctionOnSet(PointsOf, R \cup {o}) = SumFunctionOnSet(PointsOf, R) + PointsOf[o]
  BY <1>1, <1>2, <1>3, SumPutsIn
<1> QED
  BY <1>2, <1>4, <1>5, <1>6

\* PayOrderWithPoints and CompleteSandboxOrder.
LEMMA PaymentKeepsLedger ==
    ASSUME LedgerInv, NEW o \in Orders, PayOrderWithPoints(o) \/ CompleteSandboxOrder(o)
    PROVE  LedgerInv'
<1>1. /\ order[o] = "pending" /\ order' = [order EXCEPT ![o] = "paid"]
      /\ ledger' = GrantEntitlement(ledger, o) /\ legacy' = legacy
      /\ points' \in Nat /\ points' = points + PointsOf[o]
  <2>1. CASE PayOrderWithPoints(o)
    BY <2>1, UploadTrafficAssumption DEF PayOrderWithPoints, PointsOf, LedgerInv, AccountTypes
  <2>2. CASE CompleteSandboxOrder(o)
    BY <2>2, UploadTrafficAssumption DEF CompleteSandboxOrder, PointsOf, LedgerInv, AccountTypes
  <2> QED
    BY <2>1, <2>2
<1>2. /\ order \in [Orders -> {"none", "pending", "paid", "refunded", "closed"}]
      /\ legacy \in Nat /\ points \in Nat /\ LedgerOK(ledger, GivenNow, legacy) /\ RowsArePaid
      /\ PointsAreKept /\ ReturnedHasNoShare
  BY DEF LedgerInv, AccountTypes
<1>3. order'[o] = "paid" /\ \A p \in Orders \ {o} : order'[p] = order[p]
  BY <1>1, <1>2
<1>4. o # "free" /\ o \in Sources /\ GivenNow[o] = 0
  BY <1>1, UploadTrafficAssumption DEF GivenNow, Given, Sources
<1>5. /\ LedgerOK(ledger', [GivenNow EXCEPT ![o] = Traffic[o]], legacy)
      /\ ledger'.opened = ledger.opened /\ ledger'.charge = ledger.charge
      /\ ledger'.rows = ledger.rows \cup {o}
  <2>1. ledger' = GrantEntitlement(ledger, o)
    BY <1>1
  <2>2. LedgerOK(ledger, GivenNow, legacy) /\ legacy \in Nat /\ GivenNow[o] = 0
    BY <1>2, <1>4
  <2>3. /\ LedgerOK(GrantEntitlement(ledger, o), [GivenNow EXCEPT ![o] = Traffic[o]], legacy)
        /\ GrantEntitlement(ledger, o).opened = ledger.opened
        /\ GrantEntitlement(ledger, o).charge = ledger.charge
        /\ GrantEntitlement(ledger, o).rows = ledger.rows \cup {o}
    BY ZenonT(40), <2>2, GivenIsNatural, GrantKeepsLedger
  <2> QED
    BY <2>1, <2>3
<1>6. GivenNow' = [GivenNow EXCEPT ![o] = Traffic[o]]
  BY <1>3, <1>4, <1>5 DEF GivenNow, Given, Sources
<1>7. RowsArePaid' /\ AccountTypes'
  BY <1>1, <1>2, <1>3, <1>5 DEF RowsArePaid, AccountTypes
<1>8. ReturnedHasNoShare'
  BY <1>2, <1>3, <1>5 DEF ReturnedHasNoShare
<1>9. PointsAreKept'
  <2>1. PaidOrders' = PaidOrders \cup {o} /\ o \notin PaidOrders /\ PaidOrders \subseteq Orders
    BY <1>1, <1>3 DEF PaidOrders
  <2>2. /\ SumFunctionOnSet(PointsOf, PaidOrders \cup {o}) = SumFunctionOnSet(PointsOf, PaidOrders) + PointsOf[o]
        /\ SumFunctionOnSet(PointsOf, PaidOrders) \in Int /\ PointsOf[o] \in Int
    BY <2>1, PointsMove
  <2> QED
    BY <1>1, <1>2, <2>1, <2>2, UploadTrafficAssumption DEF PointsAreKept, PointsOf
<1> QED
  BY <1>1, <1>5, <1>6, <1>7, <1>8, <1>9 DEF LedgerInv

\* RefundOrder.
LEMMA ReturnedOrderKeepsLedger ==
    ASSUME LedgerInv, NEW o \in Orders, RefundOrder(o)
    PROVE  LedgerInv'
<1>0. PointsOf[o] = IF Method[o] = "points" THEN - PointsPrice ELSE Reward
  BY DEF PointsOf
<1>1. /\ order[o] = "paid" /\ order' = [order EXCEPT ![o] = "refunded"]
      /\ ledger.remaining[o] = Traffic[o] /\ \A u \in Reserved(ledger) : ledger.charge[u].alloc[o] = 0
      /\ ledger' = [ledger EXCEPT !.rows = @ \ {o}, !.remaining[o] = 0] /\ legacy' = legacy
      /\ points' \in Nat /\ points = points' + PointsOf[o]
  <2>1. Method[o] \in {"points", "sandbox"} /\ points \in Nat /\ PointsPrice \in Nat /\ Reward \in Nat
    BY UploadTrafficAssumption DEF LedgerInv, AccountTypes
  <2>2. /\ points' = IF Method[o] = "points" THEN points + PointsPrice ELSE points - Reward
        /\ Method[o] = "sandbox" => points >= Reward
    BY DEF RefundOrder, Refundable
  <2>3. points' \in Nat /\ points = points' + PointsOf[o]
    BY <1>0, <2>1, <2>2
  <2> QED
    BY <2>3 DEF RefundOrder, Refundable
<1>2. /\ order \in [Orders -> {"none", "pending", "paid", "refunded", "closed"}]
      /\ legacy \in Nat /\ points \in Nat /\ LedgerOK(ledger, GivenNow, legacy) /\ RowsArePaid
      /\ PointsAreKept /\ ReturnedHasNoShare
  BY DEF LedgerInv, AccountTypes
<1>3. order'[o] = "refunded" /\ \A p \in Orders \ {o} : order'[p] = order[p]
  BY <1>1, <1>2
<1>4. o # "free" /\ o \in Sources /\ GivenNow[o] = Traffic[o]
  BY <1>1, UploadTrafficAssumption DEF GivenNow, Given, Sources
<1>5. /\ LedgerOK(ledger', [GivenNow EXCEPT ![o] = 0], legacy)
      /\ ledger'.opened = ledger.opened /\ ledger'.charge = ledger.charge
      /\ ledger'.rows = ledger.rows \ {o} /\ NobodyUses(ledger, o)
  <2>1. ledger.remaining[o] = GivenNow[o]
    BY <1>1, <1>4
  <2>2. ledger' = TakeBack(ledger, o) /\ NobodyHolds(ledger, o)
    BY <1>1 DEF TakeBack, NobodyHolds
  <2>3. /\ LedgerOK(TakeBack(ledger, o), [GivenNow EXCEPT ![o] = 0], legacy)
        /\ TakeBack(ledger, o).opened = ledger.opened /\ TakeBack(ledger, o).charge = ledger.charge
        /\ TakeBack(ledger, o).rows = ledger.rows \ {o} /\ NobodyUses(ledger, o)
    BY <1>2, <2>1, <2>2, GivenIsNatural, ReturnKeepsLedger
  <2> QED
    BY <2>2, <2>3
<1>6. GivenNow' = [GivenNow EXCEPT ![o] = 0]
  BY <1>3, <1>4, <1>5 DEF GivenNow, Given, Sources
<1>7. RowsArePaid' /\ AccountTypes'
  BY <1>1, <1>2, <1>3, <1>4, <1>5 DEF RowsArePaid, AccountTypes
<1>8. ReturnedHasNoShare'
  BY <1>2, <1>3, <1>5 DEF ReturnedHasNoShare, NobodyUses
<1>9. PointsAreKept'
  <2>1. PaidOrders' = PaidOrders \ {o} /\ o \in PaidOrders /\ PaidOrders \subseteq Orders
    BY <1>1, <1>3 DEF PaidOrders
  <2>2. /\ SumFunctionOnSet(PointsOf, PaidOrders) = PointsOf[o] + SumFunctionOnSet(PointsOf, PaidOrders \ {o})
        /\ PointsOf[o] \in Int
    BY <2>1, PointsMove
  <2>3. SumFunctionOnSet(PointsOf, PaidOrders \ {o}) \in Int
    BY <2>1, PointsMove
  <2>4. points' = InitialPoints + SumFunctionOnSet(PointsOf, PaidOrders \ {o})
    <3>1. points = InitialPoints + SumFunctionOnSet(PointsOf, PaidOrders) /\ InitialPoints \in Nat
      BY <1>2, UploadTrafficAssumption DEF PointsAreKept
    <3>2. points = points' + PointsOf[o] /\ points' \in Nat /\ points \in Nat
      BY <1>1, <1>2
    <3> QED
      BY <2>2, <2>3, <3>1, <3>2
  <2> QED
    BY <2>1, <2>4 DEF PointsAreKept, PointsOf
<1> QED
  BY <1>1, <1>5, <1>6, <1>7, <1>8, <1>9 DEF LedgerInv

\* What a step does to the charges without giving anybody a new share.
KeepsShares(l, m) ==
    \A u \in Uploads : m.charge[u].status \in {"reserved", "settled"} =>
        l.charge[u].status \in {"reserved", "settled"} /\ m.charge[u].alloc = l.charge[u].alloc

\* Settling and refunding give nobody a new share.
LEMMA SettlementKeepsShares ==
    ASSUME NEW l \in Ledgers, NEW u \in Uploads
    PROVE  KeepsShares(l, SettleUploadTraffic(l, u)) /\ KeepsShares(l, RefundUploadTraffic(l, u))
<1>0. l.charge \in [Uploads -> Charges]
  BY DEF Ledgers
<1>1. CASE l.charge[u].status # "reserved"
  BY <1>1 DEF KeepsShares, SettleUploadTraffic, RefundUploadTraffic
<1>2. CASE l.charge[u].status = "reserved"
  <2>1. KeepsShares(l, SettleUploadTraffic(l, u))
    <3>1. SettleUploadTraffic(l, u).charge = [l.charge EXCEPT ![u] = [@ EXCEPT !.status = "settled"]]
      BY <1>2 DEF SettleUploadTraffic, Ledgers
    <3> QED
      BY <1>0, <1>2, <3>1 DEF KeepsShares, Charges
  <2>2. KeepsShares(l, RefundUploadTraffic(l, u))
    <3>1. RefundUploadTraffic(l, u).charge = [l.charge EXCEPT ![u] = [@ EXCEPT !.status = "refunded"]]
      BY <1>2 DEF RefundUploadTraffic, Ledgers
    <3> QED
      BY <1>0, <1>2, <3>1 DEF KeepsShares, Charges
  <2> QED
    BY <2>1, <2>2
<1> QED
  BY <1>1, <1>2

\* What commitTerminal keeps: it settles, and refunds what is not settled.
LEMMA CommitKeepsLedger ==
    ASSUME NEW l, NEW given, NEW older \in Nat, LedgerOK(l, given, older), given \in [Sources -> Nat],
           NEW u \in Uploads, NEW v
    PROVE  /\ LedgerOK(CommitTerminal(l, u, v), given, older)
           /\ CommitTerminal(l, u, v).opened = l.opened /\ CommitTerminal(l, u, v).rows = l.rows
           /\ KeepsShares(l, CommitTerminal(l, u, v))
<1> DEFINE m == SettleUploadTraffic(l, u)
           n == RefundUploadTraffic(m, u)
<1>1. LedgerOK(m, given, older) /\ m.opened = l.opened /\ m.rows = l.rows
  BY SettleKeepsLedger
<1>2. KeepsShares(l, m)
  BY SettlementKeepsShares DEF LedgerOK
<1> HIDE DEF m
<1>3. LedgerOK(n, given, older) /\ n.opened = m.opened /\ n.rows = m.rows
  BY <1>1, RefundKeepsLedger
<1>4. KeepsShares(m, n)
  BY <1>1, SettlementKeepsShares DEF LedgerOK
<1> HIDE DEF n
<1>5. KeepsShares(l, n)
  BY <1>2, <1>4 DEF KeepsShares
<1>6. CommitTerminal(l, u, v) = IF v = "blocked" THEN n ELSE m
  BY DEF CommitTerminal, m, n
<1> QED
  BY <1>1, <1>2, <1>3, <1>5, <1>6

\* A step that settles or refunds.
LEMMA ChargeStepKeepsLedger ==
    ASSUME LedgerInv, order' = order, points' = points, legacy' = legacy,
           LedgerOK(ledger', GivenNow, legacy), ledger'.opened = ledger.opened,
           ledger'.rows = ledger.rows, KeepsShares(ledger, ledger')
    PROVE  LedgerInv'
<1>1. GivenNow' = GivenNow
  BY DEF GivenNow, Given
<1>2. AccountTypes' /\ RowsArePaid' /\ PointsAreKept'
  BY DEF LedgerInv, AccountTypes, RowsArePaid, PointsAreKept, PaidOrders, PointsOf
<1>3. ReturnedHasNoShare'
  BY DEF LedgerInv, ReturnedHasNoShare, KeepsShares
<1> QED
  BY <1>1, <1>2, <1>3 DEF LedgerInv

\* The three ways in which a step settles or refunds.
LEMMA SettlementStepKeepsLedger ==
    ASSUME LedgerInv, order' = order, points' = points, legacy' = legacy, NEW u \in Uploads, NEW v,
           \/ ledger' = SettleUploadTraffic(ledger, u)
           \/ ledger' = RefundUploadTraffic(ledger, u)
           \/ ledger' = CommitTerminal(ledger, u, v)
    PROVE  LedgerInv'
<1>1. LedgerOK(ledger, GivenNow, legacy) /\ legacy \in Nat /\ ledger \in Ledgers
  BY DEF LedgerInv, AccountTypes, LedgerOK
<1>2. /\ LedgerOK(ledger', GivenNow, legacy) /\ ledger'.opened = ledger.opened
      /\ ledger'.rows = ledger.rows /\ KeepsShares(ledger, ledger')
  <2>1. CASE ledger' = SettleUploadTraffic(ledger, u)
    BY <1>1, <2>1, GivenIsNatural, SettleKeepsLedger, SettlementKeepsShares
  <2>2. CASE ledger' = RefundUploadTraffic(ledger, u)
    BY <1>1, <2>2, GivenIsNatural, RefundKeepsLedger, SettlementKeepsShares
  <2>3. CASE ledger' = CommitTerminal(ledger, u, v)
    BY <1>1, <2>3, GivenIsNatural, CommitKeepsLedger
  <2> QED
    BY <2>1, <2>2, <2>3
<1> QED
  BY <1>2, ChargeStepKeepsLedger

\* A step that leaves the account alone, and one that opens or closes an order.
LEMMA OtherStepKeepsLedger ==
    ASSUME LedgerInv, UNCHANGED <<ledger, legacy, points, order>>
    PROVE  LedgerInv'
<1>1. GivenNow' = GivenNow
  BY DEF GivenNow, Given
<1>2. LedgerOK(ledger, GivenNow, legacy)
  BY DEF LedgerInv
<1>3. LedgerOK(ledger', GivenNow', legacy')
  BY <1>1, <1>2
<1>4. AccountTypes' /\ RowsArePaid' /\ PointsAreKept'
  BY DEF LedgerInv, AccountTypes, RowsArePaid, PointsAreKept, PaidOrders, PointsOf
<1>5. ReturnedHasNoShare'
  BY DEF LedgerInv, ReturnedHasNoShare
<1> QED
  BY <1>3, <1>4, <1>5 DEF LedgerInv

\* CreateOrder and CloseOrder: an order nobody paid for gives nothing.
LEMMA UnpaidOrderKeepsLedger ==
    ASSUME LedgerInv, NEW o \in Orders, CreateOrder(o) \/ CloseOrder(o)
    PROVE  LedgerInv'
<1>1. PICK to \in {"pending", "closed"} :
          /\ order[o] \in {"none", "pending"} /\ order' = [order EXCEPT ![o] = to]
          /\ ledger' = ledger /\ legacy' = legacy /\ points' = points
  BY DEF CreateOrder, CloseOrder
<1>2. /\ order \in [Orders -> {"none", "pending", "paid", "refunded", "closed"}]
      /\ LedgerOK(ledger, GivenNow, legacy)
  BY DEF LedgerInv, AccountTypes
<1>3. order'[o] = to /\ \A p \in Orders \ {o} : order'[p] = order[p]
  BY <1>1, <1>2
<1>4. \A p \in Orders : (order'[p] = "paid" <=> order[p] = "paid") /\ (order'[p] = "refunded" <=> order[p] = "refunded")
  BY <1>1, <1>3
<1>5. GivenNow' = GivenNow
  BY <1>1, <1>4 DEF GivenNow, Given, Sources
<1>6. LedgerOK(ledger', GivenNow', legacy')
  BY <1>1, <1>2, <1>5
<1>7. AccountTypes' /\ RowsArePaid'
  BY <1>1, <1>4 DEF LedgerInv, AccountTypes, RowsArePaid
<1>8. PointsAreKept'
  <2>1. PaidOrders' = PaidOrders
    BY <1>4 DEF PaidOrders
  <2> QED
    BY <1>1, <2>1 DEF LedgerInv, PointsAreKept, PointsOf
<1>9. ReturnedHasNoShare'
  BY <1>1, <1>4 DEF LedgerInv, ReturnedHasNoShare
<1> QED
  BY <1>6, <1>7, <1>8, <1>9 DEF LedgerInv

\* ensureDownloadReservationStateSchema: the holds of an older version leave the counter.
LEMMA RetirementKeepsLedger ==
    ASSUME LedgerInv, RetireLegacyHolds
    PROVE  LedgerInv'
<1>1. /\ ledger' = [ledger EXCEPT !.reserved = Larger(@ - legacy, 0)]
      /\ legacy' = 0 /\ points' = points /\ order' = order
  BY DEF RetireLegacyHolds, orderVars
<1>2. ledger \in Ledgers /\ Balanced(ledger, GivenNow) /\ ChargesAreWhole(ledger) /\ Counted(ledger, legacy)
  BY DEF LedgerInv, LedgerOK
<1>3. /\ ledger'.charge = ledger.charge /\ ledger'.rows = ledger.rows /\ ledger'.opened = ledger.opened
      /\ ledger'.reserved = Larger(ledger.reserved - legacy, 0) /\ ledger'.remaining = ledger.remaining
      /\ ledger' = [opened |-> ledger'.opened, remaining |-> ledger'.remaining, rows |-> ledger'.rows,
                    reserved |-> ledger'.reserved, charge |-> ledger'.charge]
  BY <1>1, <1>2 DEF Ledgers
<1>4. legacy \in Nat /\ ledger.reserved \in Nat
  BY <1>2 DEF LedgerInv, AccountTypes, Ledgers
<1>5. ledger'.reserved \in Nat
  BY <1>3, <1>4 DEF Larger
<1>6. ledger' \in Ledgers
  BY <1>2, <1>3, <1>5 DEF Ledgers
<1> DEFINE m == ledger'
<1>7. /\ Reserved(m) = Reserved(ledger)
      /\ \A s \in Sources : Held(m, s) = Held(ledger, s) /\ Taken(m, s) = Taken(ledger, s)
      /\ \A u : Allocated(m, u) = Allocated(ledger, u)
  BY <1>2, <1>3, <1>6, SameChargesSameSums
<1>8. Counted(m, 0)
  <2>1. ledger.reserved = legacy + SumFunctionOnSet(Length, Reserved(ledger))
    BY <1>2 DEF Counted
  <2>2. SumFunctionOnSet(Length, Reserved(ledger)) \in Nat
    BY LengthsAdd DEF Reserved
  <2> QED
    BY <1>3, <1>4, <1>7, <2>1, <2>2 DEF Counted, Larger
<1>9. Balanced(m, GivenNow) /\ ChargesAreWhole(m)
  BY <1>2, <1>3, <1>7 DEF Balanced, ChargesAreWhole
<1>10. GivenNow' = GivenNow
  BY <1>1, <1>3 DEF GivenNow, Given
<1>11. LedgerOK(ledger', GivenNow', legacy')
  BY <1>1, <1>6, <1>8, <1>9, <1>10 DEF LedgerOK
<1>12. AccountTypes' /\ RowsArePaid' /\ PointsAreKept'
  BY <1>1, <1>3 DEF LedgerInv, AccountTypes, RowsArePaid, PointsAreKept, PaidOrders, PointsOf
<1>13. ReturnedHasNoShare'
  BY <1>1, <1>3 DEF LedgerInv, ReturnedHasNoShare
<1> QED
  BY <1>11, <1>12, <1>13 DEF LedgerInv

\* CreateUploadWithQuota: only an upload that is new is charged, and only from rows that
\* are there, so not from an order that was returned.
LEMMA CreationKeepsLedger ==
    ASSUME LedgerInv, NEW u \in Uploads, ledger.charge[u].status = "none", CreateUpload(u)
    PROVE  LedgerInv'
<1>1. CASE UNCHANGED ledger
  BY <1>1, OtherStepKeepsLedger DEF CreateUpload, orderVars
<1>2. CASE CanReserve(ledger, u) /\ ledger' = ReserveUploadTraffic(ledger, u)
  <2> DEFINE l == EnsureTrafficAccount(ledger)
             given == IF ledger.opened THEN GivenNow ELSE [GivenNow EXCEPT !["free"] = InitialTraffic]
  <2>1. legacy' = legacy /\ points' = points /\ order' = order
    BY DEF CreateUpload, orderVars
  <2>2. /\ legacy \in Nat /\ LedgerOK(ledger, GivenNow, legacy) /\ RowsArePaid
        /\ order \in [Orders -> {"none", "pending", "paid", "refunded", "closed"}]
        /\ "free" \in Sources /\ InitialTraffic \in Nat
    BY UploadTrafficAssumption DEF LedgerInv, AccountTypes, Sources
  <2>3. ~ledger.opened => GivenNow["free"] = 0
    BY <2>2 DEF GivenNow, Given
  <2>4. LedgerOK(l, given, legacy) /\ l.opened /\ l.rows = ledger.rows /\ l.charge = ledger.charge
    BY <2>2, <2>3, GivenIsNatural, EnsureKeepsLedger
  <2>5. given \in [Sources -> Nat]
    BY <2>2, GivenIsNatural
  <2>6. l.charge[u].status = "none" /\ PlanSuffices(l, Length[u]) /\ ledger' = Charged(l, u)
    BY <1>2, <2>4 DEF CanReserve, ReserveUploadTraffic, Charged
  <2> HIDE DEF l, given
  <2>7. /\ LedgerOK(Charged(l, u), given, legacy)
        /\ Charged(l, u).opened = l.opened /\ Charged(l, u).rows = l.rows
        /\ \A w \in Uploads \ {u} : Charged(l, u).charge[w] = l.charge[w]
        /\ \A s \in Sources \ l.rows : Charged(l, u).charge[u].alloc[s] = 0
    <3>1. legacy \in Nat /\ LedgerOK(l, given, legacy) /\ l.charge[u].status = "none" /\ PlanSuffices(l, Length[u])
      BY <2>2, <2>4, <2>6
    <3> QED
      BY <2>5, <3>1, ReserveKeepsLedger
  <2>8. /\ LedgerOK(ledger', given, legacy) /\ ledger'.opened /\ ledger'.rows = ledger.rows
        /\ \A w \in Uploads \ {u} : ledger'.charge[w] = ledger.charge[w]
        /\ \A s \in Sources \ ledger.rows : ledger'.charge[u].alloc[s] = 0
    BY <2>4, <2>6, <2>7
  <2>9. GivenNow' = given
    <3>1. CASE ledger.opened
      BY <2>1, <2>8, <3>1 DEF given, GivenNow, Given, Sources
    <3>2. CASE ~ledger.opened
      BY <2>1, <2>8, <3>2 DEF given, GivenNow, Given, Sources
    <3> QED
      BY <3>1, <3>2
  <2>10. LedgerOK(ledger', GivenNow', legacy')
    BY <2>1, <2>8, <2>9
  <2>11. AccountTypes' /\ RowsArePaid' /\ PointsAreKept'
    BY <2>1, <2>8 DEF LedgerInv, AccountTypes, RowsArePaid, PointsAreKept, PaidOrders, PointsOf
  <2>12. ReturnedHasNoShare'
    <3> SUFFICES ASSUME NEW o \in Orders, order[o] = "refunded", NEW w \in Uploads,
                        ledger'.charge[w].status \in {"reserved", "settled"}
                 PROVE  ledger'.charge[w].alloc[o] = 0
      BY <2>1 DEF ReturnedHasNoShare
    <3>1. o \in Sources \ ledger.rows
      BY <2>2 DEF RowsArePaid, Sources
    <3>2. CASE w = u
      BY <2>8, <3>1, <3>2
    <3>3. CASE w # u
      BY <2>8, <3>3 DEF LedgerInv, ReturnedHasNoShare
    <3> QED
      BY <3>2, <3>3
  <2> QED
    BY <2>10, <2>11, <2>12 DEF LedgerInv
<1> QED
  BY <1>1, <1>2 DEF CreateUpload

\* Every step keeps the ledger's part of the invariant. ChargeInv is needed once: an upload
\* that was never created has no charge.
LEMMA LedgerInvNext ==
    ASSUME ChargeInv, LedgerInv, [Next]_vars
    PROVE  LedgerInv'
<1>1. CASE RetireLegacyHolds
  BY <1>1, RetirementKeepsLedger
<1>2. ASSUME NEW o \in Orders,
             \/ CreateOrder(o) \/ PayOrderWithPoints(o) \/ CompleteSandboxOrder(o)
             \/ RefundOrder(o) \/ CloseOrder(o)
      PROVE  LedgerInv'
  BY <1>2, UnpaidOrderKeepsLedger, PaymentKeepsLedger, ReturnedOrderKeepsLedger
<1>3. ASSUME NEW u \in Uploads, CreateUpload(u)
      PROVE  LedgerInv'
  <2>1. ledger.charge[u].status = "none"
    BY <1>3 DEF CreateUpload, ChargeInv, CreatedFirst
  <2> QED
    BY <1>3, <2>1, CreationKeepsLedger
<1>4. ASSUME NEW u \in Uploads, AbandonUpload(u)
      PROVE  LedgerInv'
  <2>1. CASE UNCHANGED ledger
    BY <1>4, <2>1, OtherStepKeepsLedger DEF AbandonUpload, orderVars
  <2>2. CASE ledger' = RefundUploadTraffic(ledger, u)
    BY <1>4, <2>2, SettlementStepKeepsLedger DEF AbandonUpload, orderVars
  <2> QED
    BY <1>4, <2>1, <2>2 DEF AbandonUpload, MarkDeleted
<1>5. ASSUME NEW r \in worker.batch, DeleteListed(r)
      PROVE  LedgerInv'
  <2>1. r.id \in Uploads
    BY DEF ChargeInv, StatusTypes
  <2>2. ledger' = RefundUploadTraffic(ledger, r.id) /\ order' = order /\ points' = points /\ legacy' = legacy
    BY <1>5 DEF DeleteListed, MarkDeleted, orderVars
  <2> QED
    BY <2>1, <2>2, SettlementStepKeepsLedger
<1>6. ASSUME NEW u \in Uploads, NEW v \in Verdicts, FinishScan(u, v)
      PROVE  LedgerInv'
  <2>1. CASE v # "blocked"
    BY <1>6, <2>1, OtherStepKeepsLedger DEF FinishScan, orderVars
  <2>2. CASE v = "blocked"
    BY <1>6, <2>2, SettlementStepKeepsLedger DEF FinishScan, orderVars
  <2> QED
    BY <2>1, <2>2
<1>7. ASSUME NEW u \in Uploads, CompleteRemoteUpload(u)
      PROVE  LedgerInv'
  <2>1. /\ ledger' = CommitTerminal(ledger, u, callback[u])
        /\ order' = order /\ points' = points /\ legacy' = legacy
    BY <1>7 DEF CompleteRemoteUpload, orderVars
  <2> QED
    BY <2>1, SettlementStepKeepsLedger
<1>8. ASSUME NEW u \in Uploads, MarkUploaded(u)
      PROVE  LedgerInv'
  <2>1. /\ ledger' = SettleUploadTraffic(ledger, u)
        /\ order' = order /\ points' = points /\ legacy' = legacy
    BY <1>8 DEF MarkUploaded, orderVars
  <2> QED
    BY <2>1, SettlementStepKeepsLedger
<1>9. ASSUME NEW u \in Uploads,
             \/ ReserveOnNode(u) \/ ReserveSucceeds(u) \/ ReserveFails(u)
             \/ SendCompletion(u) \/ LoseCompletion(u) \/ RefuseCompletion(u)
             \/ ReceiveBytes(u) \/ GrowOld(u) \/ \E v \in Verdicts : FinishOnNode(u, v)
      PROVE  LedgerInv'
  <2>1. UNCHANGED <<ledger, legacy, points, order>>
    BY <1>9 DEF ReserveOnNode, ReserveSucceeds, ReserveFails, SendCompletion, LoseCompletion,
                RefuseCompletion, ReceiveBytes, GrowOld, FinishOnNode, orderVars
  <2> QED
    BY <2>1, OtherStepKeepsLedger
<1>10. CASE \/ ClaimUploads \/ StartCleanup \/ \E r \in worker.batch : RemoveBytes(r) \/ SkipUpload(r)
            \/ ClaimTransfer \/ RevokeTransfer \/ ExpiryPasses \/ NewDay \/ Restart
            \/ UNCHANGED vars
  <2>1. UNCHANGED <<ledger, legacy, points, order>>
    BY <1>10 DEF ClaimUploads, StartCleanup, RemoveBytes, SkipUpload, ClaimTransfer, RevokeTransfer,
                 ExpiryPasses, NewDay, Restart, orderVars, vars
  <2> QED
    BY <2>1, OtherStepKeepsLedger
<1> QED
  BY <1>1, <1>2, <1>3, <1>4, <1>5, <1>6, <1>7, <1>8, <1>9, <1>10 DEF Next

\* The ledger is kept in every reachable state.
LEMMA LedgerAlways == Spec => [](ChargeInv /\ LedgerInv)
<1>1. Init => ChargeInv /\ LedgerInv
  BY ChargeInvInit, LedgerInvInit
<1>2. ChargeInv /\ LedgerInv /\ [Next]_vars => (ChargeInv /\ LedgerInv)'
  BY ChargeInvNext, LedgerInvNext
<1> QED
  BY <1>1, <1>2, PTL DEF Spec

\* Whatever was reserved, settled, refunded, bought or returned, every hold is covered by the
\* balance it was taken from, so settleUploadTrafficTx and refundUploadTrafficTx can always
\* take, or give up, exactly what reserveUploadTrafficTx allocated.
THEOREM HoldsAlwaysCovered == Spec => []HoldsAreCovered
<1>1. LedgerInv => HoldsAreCovered
  <2> SUFFICES ASSUME LedgerInv PROVE HoldsAreCovered
    OBVIOUS
  <2>1. LedgerOK(ledger, GivenNow, legacy) /\ legacy \in Nat
    BY DEF LedgerInv, AccountTypes
  <2>2. \A s \in Sources : Held(ledger, s) <= ledger.remaining[s]
    BY <2>1 DEF LedgerOK, Balanced
  <2>3. \A u \in Reserved(ledger) : CanSettle(ledger, u) /\ CanRefund(ledger, u)
    BY <2>1, ReservedIsCovered
  <2> QED
    BY <2>2, <2>3 DEF HoldsAreCovered
<1> QED
  BY <1>1, LedgerAlways, PTL

\* No byte of traffic appears or disappears: a balance is what ensureTrafficAccountTx and
\* completeOrderTx gave less what settleUploadTrafficTx took, and traffic_reserved_bytes is
\* the sum of the reserved charges.
THEOREM TrafficAlwaysConserved == Spec => []TrafficIsConserved
<1>1. LedgerInv => TrafficIsConserved
  <2> SUFFICES ASSUME LedgerInv PROVE TrafficIsConserved
    OBVIOUS
  <2>1. Balanced(ledger, GivenNow) /\ Counted(ledger, legacy)
    BY DEF LedgerInv, LedgerOK
  <2>2. \A s \in Sources : ledger.remaining[s] = Given(s) - Taken(ledger, s)
    BY <2>1 DEF Balanced, GivenNow
  <2> QED
    BY <2>1, <2>2 DEF TrafficIsConserved, Taken, Settled, Counted
<1> QED
  BY <1>1, LedgerAlways, PTL

\* RefundOrder takes back only what nobody used: no charge that counts has a share in a
\* returned order, and the points are those of the orders that are paid.
THEOREM ReturnedOrdersUnused == Spec => []ReturnedOrderIsUnused
<1>1. LedgerInv => ReturnedOrderIsUnused
  BY DEF LedgerInv, ReturnedHasNoShare, PointsAreKept, PointsOf, PaidOrders, ReturnedOrderIsUnused
<1> QED
  BY <1>1, LedgerAlways, PTL

-----------------------------------------------------------------------------
(* What a transfer counts. *)

LiveUploads == {u \in Uploads : upload[u].status \notin {"none", "deleted"}}

Transfers == [status : {"active", "expired", "revoked"}, owner : {"guest", "user"},
              files : Nat, bytes : Nat]

TransferTypes ==
    /\ transfer \in Transfers
    /\ due \in BOOLEAN /\ guestUsed \in Nat /\ faults \in Nat
    /\ issued \subseteq Uploads /\ old \subseteq Uploads

\* A createUpload handler that waits for the node has its upload to itself: no token is out,
\* it is too young for maintenance, and nothing completes it.
HandlersWait ==
    \A u \in Uploads :
        /\ handler[u] # "idle" =>
               /\ u \notin issued \cup old /\ upload[u].status # "none"
               /\ transfer.status = "active" => upload[u].status = "uploading"
        /\ u \in issued \cup old => upload[u].status # "none"
        /\ u \in Remote \ issued => node[u].state # "finished" /\ ~node[u].queued /\ callback[u] = None

\* While the transfer takes files, the worker's list has incomplete uploads only that were
\* old when it was read, each once, and nobody else deletes them.
ListIsOld ==
    /\ \A r, t \in worker.batch : r.id = t.id => r = t
    /\ transfer.status = "active" =>
           \A r \in worker.batch : r.seen = "uploading" /\ r.id \in old /\ r.id \in LiveUploads

CountsLive ==
    transfer.status = "active" =>
        /\ transfer.files = Cardinality(LiveUploads)
        /\ transfer.bytes = SumFunctionOnSet(Length, LiveUploads)

TransferInv == TransferTypes /\ HandlersWait /\ ListIsOld /\ CountsLive

\* Counters that stay natural numbers keep the row of the transfer well typed.
LEMMA CountersMove ==
    ASSUME NEW t \in Transfers, NEW f \in Nat, NEW b \in Nat
    PROVE  [t EXCEPT !.files = f, !.bytes = b] \in Transfers
BY DEF Transfers

\* One live upload more, or one less.
LEMMA LiveUploadsCount ==
    ASSUME NEW R \in SUBSET Uploads, NEW u \in Uploads
    PROVE  /\ Cardinality(R) \in Nat /\ SumFunctionOnSet(Length, R) \in Nat /\ Length[u] \in Nat
           /\ u \notin R => /\ Cardinality(R \cup {u}) = Cardinality(R) + 1
                            /\ SumFunctionOnSet(Length, R \cup {u}) = SumFunctionOnSet(Length, R) + Length[u]
           /\ u \in R => /\ Cardinality(R \ {u}) = Larger(Cardinality(R) - 1, 0)
                         /\ SumFunctionOnSet(Length, R \ {u}) = Larger(SumFunctionOnSet(Length, R) - Length[u], 0)
<1>1. /\ IsFiniteSet(R) /\ SumFunctionOnSet(Length, R) \in Nat
      /\ u \notin R => SumFunctionOnSet(Length, R \cup {u}) = SumFunctionOnSet(Length, R) + Length[u]
      /\ u \in R => SumFunctionOnSet(Length, R) = Length[u] + SumFunctionOnSet(Length, R \ {u})
  BY LengthsAdd
<1>2. Cardinality(R) \in Nat
  BY <1>1, FS_CardinalityType
<1>3. u \notin R => Cardinality(R \cup {u}) = Cardinality(R) + 1
  BY <1>1, FS_AddElement
<1>4. IsFiniteSet(R \ {u}) /\ Cardinality(R \ {u}) \in Nat
  BY <1>1, FS_RemoveElement, FS_CardinalityType
<1>5. u \in R => Cardinality(R \ {u}) = Cardinality(R) - 1
  BY <1>1, FS_RemoveElement
<1>6. SumFunctionOnSet(Length, R \ {u}) \in Nat /\ Length[u] \in Nat
  <2>1. R \ {u} \subseteq Uploads
    OBVIOUS
  <2> QED
    BY <2>1, LengthsAdd, UploadTrafficAssumption
<1> QED
  BY <1>1, <1>2, <1>3, <1>4, <1>5, <1>6 DEF Larger

\* A new transfer counts nothing.
LEMMA TransferInvInit == Init => TransferInv
<1> SUFFICES ASSUME Init PROVE TransferInv
  OBVIOUS
<1>1. LiveUploads = {}
  BY DEF Init, LiveUploads
<1>2. Cardinality(LiveUploads) = 0 /\ SumFunctionOnSet(Length, LiveUploads) = 0
  BY <1>1, FS_EmptySet, SumOfNothing
<1>3. PICK owner \in {"guest", "user"} :
          transfer = [status |-> "active", owner |-> owner, files |-> 0, bytes |-> 0]
  BY DEF Init
<1>4. CountsLive
  BY <1>2, <1>3 DEF CountsLive
<1>5. TransferTypes
  BY <1>3 DEF Init, TransferTypes, Transfers
<1>6. HandlersWait /\ ListIsOld
  BY DEF Init, HandlersWait, ListIsOld
<1> QED
  BY <1>4, <1>5, <1>6 DEF TransferInv

\* A step that deletes and creates nothing, and leaves the transfer's counters alone.
LEMMA SameLiveSameCount ==
    ASSUME CountsLive, transfer'.files = transfer.files, transfer'.bytes = transfer.bytes,
           transfer'.status = "active" => transfer.status = "active",
           \A u \in Uploads : upload'[u].status \in {"none", "deleted"} <=> upload[u].status \in {"none", "deleted"}
    PROVE  CountsLive' /\ LiveUploads' = LiveUploads
<1>1. LiveUploads' = LiveUploads
  BY DEF LiveUploads
<1> QED
  BY <1>1 DEF CountsLive

\* Every step keeps the types of the transfer, of time and of the tokens.
LEMMA TransferTypesNext ==
    ASSUME ChargeInv, TransferTypes, [Next]_vars
    PROVE  TransferTypes'
<1>0. /\ transfer \in Transfers
      /\ due \in BOOLEAN /\ guestUsed \in Nat /\ faults \in Nat
      /\ issued \subseteq Uploads /\ old \subseteq Uploads
  BY DEF TransferTypes
<1>1. CASE RetireLegacyHolds \/ \E o \in Orders : \/ CreateOrder(o) \/ PayOrderWithPoints(o)
                                                  \/ CompleteSandboxOrder(o) \/ RefundOrder(o) \/ CloseOrder(o)
  BY <1>1 DEF TransferTypes, RetireLegacyHolds, CreateOrder, PayOrderWithPoints, CompleteSandboxOrder,
              RefundOrder, CloseOrder, uploadVars
<1>2. ASSUME NEW u \in Uploads, CreateUpload(u)
      PROVE  TransferTypes'
  <2>1. Length[u] \in Nat
    BY UploadTrafficAssumption
  <2>2. /\ transfer' = [transfer EXCEPT !.files = @ + 1, !.bytes = @ + Length[u]]
        /\ due' = due /\ faults' = faults /\ old' = old
        /\ issued' \in {issued, issued \cup {u}} /\ guestUsed' \in {guestUsed, guestUsed + Length[u]}
    BY <1>2 DEF CreateUpload
  <2>3. transfer.files + 1 \in Nat /\ transfer.bytes + Length[u] \in Nat
    BY <1>0, <2>1 DEF Transfers
  <2>4. transfer' \in Transfers
    BY <1>0, <2>2, <2>3, CountersMove
  <2> QED
    BY <1>0, <2>1, <2>2, <2>4 DEF TransferTypes
<1>3. ASSUME NEW u \in Uploads, NEW seen, MarkDeleted(u, seen)
      PROVE  transfer' \in Transfers
  <2>1. Length[u] \in Nat
    BY UploadTrafficAssumption
  <2>2. Larger(transfer.files - 1, 0) \in Nat /\ Larger(transfer.bytes - Length[u], 0) \in Nat
    BY <1>0, <2>1 DEF Larger, Transfers
  <2>3. \/ transfer' = transfer
        \/ transfer' = [transfer EXCEPT !.files = Larger(transfer.files - 1, 0),
                                        !.bytes = Larger(transfer.bytes - Length[u], 0)]
    BY <1>3 DEF MarkDeleted
  <2> QED
    BY <1>0, <2>2, <2>3, CountersMove
<1>4. ASSUME NEW u \in Uploads, AbandonUpload(u)
      PROVE  TransferTypes'
  <2>1. due' = due /\ guestUsed' = guestUsed /\ issued' = issued /\ old' = old /\ faults' \in Nat
    BY <1>0, <1>4 DEF AbandonUpload
  <2>2. MarkDeleted(u, "uploading") \/ transfer' = transfer
    BY <1>4 DEF AbandonUpload
  <2> QED
    BY <1>0, <1>3, <2>1, <2>2 DEF TransferTypes
<1>5. ASSUME NEW r \in worker.batch, DeleteListed(r)
      PROVE  TransferTypes'
  <2>1. due' = due /\ guestUsed' = guestUsed /\ issued' = issued /\ old' = old /\ faults' = faults
    BY <1>5 DEF DeleteListed
  <2>2. r.id \in Uploads /\ MarkDeleted(r.id, r.seen)
    BY <1>5 DEF DeleteListed, ChargeInv, StatusTypes
  <2> QED
    BY <1>0, <1>3, <2>1, <2>2 DEF TransferTypes
<1>6. ASSUME NEW u \in Uploads,
             \/ ReserveOnNode(u) \/ ReserveSucceeds(u) \/ ReserveFails(u)
             \/ SendCompletion(u) \/ LoseCompletion(u) \/ RefuseCompletion(u)
             \/ CompleteRemoteUpload(u) \/ MarkUploaded(u)
             \/ ReceiveBytes(u) \/ GrowOld(u) \/ \E v \in Verdicts : FinishOnNode(u, v) \/ FinishScan(u, v)
      PROVE  TransferTypes'
  <2>1. /\ transfer' = transfer /\ due' = due /\ guestUsed' = guestUsed
        /\ issued' \in {issued, issued \cup {u}} /\ old' \in {old, old \cup {u}}
        /\ faults' \in {faults, faults + 1}
    BY <1>6 DEF ReserveOnNode, ReserveSucceeds, ReserveFails, SendCompletion, LoseCompletion,
                RefuseCompletion, CompleteRemoteUpload, MarkUploaded, ReceiveBytes, GrowOld,
                FinishOnNode, FinishScan
  <2> QED
    BY <1>0, <2>1 DEF TransferTypes
<1>7. CASE \/ ClaimUploads \/ (\E r \in worker.batch : RemoveBytes(r) \/ SkipUpload(r))
           \/ ExpiryPasses \/ NewDay \/ Restart \/ UNCHANGED vars
  <2>1. /\ transfer' = transfer /\ due' \in {due, TRUE} /\ guestUsed' \in {guestUsed, 0}
        /\ issued' = issued /\ old' = old /\ faults' \in {faults, faults + 1}
    BY <1>7 DEF ClaimUploads, RemoveBytes, SkipUpload, ExpiryPasses, NewDay, Restart, vars
  <2>2. due' \in BOOLEAN
    BY <1>0, <2>1, Zenon
  <2>3. guestUsed' \in Nat /\ faults' \in Nat
    BY <1>0, <2>1
  <2> QED
    BY <1>0, <2>1, <2>2, <2>3 DEF TransferTypes
<1>8. CASE StartCleanup \/ ClaimTransfer \/ RevokeTransfer
  <2>1. /\ due' = due /\ guestUsed' = guestUsed /\ issued' = issued /\ old' = old /\ faults' = faults
        /\ \/ \E s \in {"active", "expired", "revoked"} : transfer' = [transfer EXCEPT !.status = s]
           \/ transfer' = [transfer EXCEPT !.owner = "user"]
    BY <1>0, <1>8 DEF StartCleanup, ClaimTransfer, RevokeTransfer, Transfers
  <2>2. transfer' \in Transfers
    BY <1>0, <2>1 DEF Transfers
  <2> QED
    BY <1>0, <2>1, <2>2 DEF TransferTypes
<1> QED
  BY <1>1, <1>2, <1>4, <1>5, <1>6, <1>7, <1>8 DEF Next

\* CreateUploadWithQuota counts one more.
LEMMA CreationIsCounted ==
    ASSUME ChargeInv, TransferInv, NEW u \in Uploads, CreateUpload(u)
    PROVE  HandlersWait' /\ ListIsOld' /\ CountsLive'
<1>1. /\ upload[u].status = "none" /\ upload' = [upload EXCEPT ![u].status = "uploading"]
      /\ transfer' = [transfer EXCEPT !.files = @ + 1, !.bytes = @ + Length[u]]
      /\ handler' = [handler EXCEPT ![u] = IF u \in Remote THEN "reserving" ELSE "idle"]
      /\ issued' = IF u \in Remote THEN issued ELSE issued \cup {u}
      /\ old' = old /\ node' = node /\ callback' = callback /\ worker' = worker
  BY DEF CreateUpload
<1>2. /\ upload \in [Uploads -> [status : UploadStatuses, full : BOOLEAN]]
      /\ handler \in [Uploads -> {"idle", "reserving", "failed"}]
      /\ worker.batch \subseteq [id : Uploads, seen : UploadStatuses]
      /\ transfer \in Transfers
  BY DEF ChargeInv, StatusTypes, TransferInv, TransferTypes
<1>3. /\ upload'[u].status = "uploading" /\ \A w \in Uploads \ {u} : upload'[w] = upload[w]
      /\ transfer'.status = transfer.status /\ transfer'.files = transfer.files + 1
      /\ transfer'.bytes = transfer.bytes + Length[u]
      /\ \A w \in Uploads \ {u} : handler'[w] = handler[w]
  BY <1>1, <1>2 DEF Transfers
<1>4. HandlersWait /\ ListIsOld /\ CountsLive
  BY DEF TransferInv
<1>5. LiveUploads' = LiveUploads \cup {u} /\ u \notin LiveUploads /\ LiveUploads \in SUBSET Uploads
  BY <1>1, <1>3 DEF LiveUploads
<1>6. HandlersWait'
  <2> SUFFICES ASSUME NEW w \in Uploads
               PROVE  /\ handler'[w] # "idle" =>
                             /\ w \notin issued' \cup old' /\ upload'[w].status # "none"
                             /\ transfer'.status = "active" => upload'[w].status = "uploading"
                      /\ w \in issued' \cup old' => upload'[w].status # "none"
                      /\ w \in Remote \ issued' =>
                             node'[w].state # "finished" /\ ~node'[w].queued /\ callback'[w] = None
    BY DEF HandlersWait
  <2>1. CASE w # u
    BY <1>1, <1>3, <1>4, <2>1 DEF HandlersWait
  <2>2. CASE w = u
    <3>1. u \notin issued \cup old
      BY <1>1, <1>4 DEF HandlersWait
    <3>2. handler'[u] # "idle" => u \in Remote
      BY <1>1, <1>2
    <3> QED
      BY <1>1, <1>3, <1>4, <2>2, <3>1, <3>2 DEF HandlersWait
  <2> QED
    BY <2>1, <2>2
<1>7. ListIsOld'
  BY <1>1, <1>3, <1>4, <1>5 DEF ListIsOld
<1>8. CountsLive'
  BY <1>3, <1>4, <1>5, LiveUploadsCount DEF CountsLive
<1> QED
  BY <1>6, <1>7, <1>8

\* MarkDeleted of a live upload counts one less.
LEMMA DeletionIsCounted ==
    ASSUME ChargeInv, TransferInv, NEW u \in Uploads, NEW seen, MarkDeleted(u, seen),
           transfer.status = "active" => seen = "uploading" /\ u \in LiveUploads
    PROVE  /\ CountsLive' /\ LiveUploads' = LiveUploads \ {u}
           /\ transfer'.status = transfer.status
           /\ upload'[u].status = "deleted" /\ \A w \in Uploads \ {u} : upload'[w] = upload[w]
<1>1. /\ upload \in [Uploads -> [status : UploadStatuses, full : BOOLEAN]]
      /\ transfer \in Transfers
      /\ CountsLive
  BY DEF ChargeInv, StatusTypes, TransferInv, TransferTypes
<1>2. upload'[u].status = "deleted" /\ \A w \in Uploads \ {u} : upload'[w] = upload[w]
  BY <1>1 DEF MarkDeleted
<1>3. LiveUploads' = LiveUploads \ {u} /\ LiveUploads \in SUBSET Uploads
  BY <1>2 DEF LiveUploads
<1>4. transfer'.status = transfer.status
  BY <1>1 DEF MarkDeleted, Transfers
<1>5. ASSUME transfer.status = "active"
      PROVE  /\ transfer'.files = Cardinality(LiveUploads')
             /\ transfer'.bytes = SumFunctionOnSet(Length, LiveUploads')
  <2>1. seen = "uploading" /\ u \in LiveUploads
    BY <1>5
  <2>2. /\ transfer'.files = Larger(transfer.files - 1, 0)
        /\ transfer'.bytes = Larger(transfer.bytes - Length[u], 0)
    BY <1>1, <2>1 DEF MarkDeleted, Transfers
  <2>3. /\ Cardinality(LiveUploads \ {u}) = Larger(Cardinality(LiveUploads) - 1, 0)
        /\ SumFunctionOnSet(Length, LiveUploads \ {u}) =
               Larger(SumFunctionOnSet(Length, LiveUploads) - Length[u], 0)
    BY <1>3, <2>1, LiveUploadsCount
  <2> QED
    BY <1>1, <1>3, <1>5, <2>2, <2>3 DEF CountsLive
<1> QED
  BY <1>2, <1>3, <1>4, <1>5 DEF CountsLive

\* Steps that create and delete nothing: the list of the worker stays as it is.
LEMMA ListStays ==
    ASSUME TransferInv, transfer'.status = "active" => transfer.status = "active",
           transfer'.files = transfer.files, transfer'.bytes = transfer.bytes,
           worker'.batch \subseteq worker.batch, old \subseteq old',
           \A u \in Uploads : upload'[u].status \in {"none", "deleted"} <=> upload[u].status \in {"none", "deleted"}
    PROVE  ListIsOld' /\ CountsLive'
<1>1. CountsLive' /\ LiveUploads' = LiveUploads
  BY SameLiveSameCount DEF TransferInv
<1>2. ListIsOld
  BY DEF TransferInv
<1> QED
  BY <1>1, <1>2 DEF ListIsOld

\* The handler, the node and the completion on its way.
LEMMA NodeStepsKeepCount ==
    ASSUME ChargeInv, TransferInv, NEW u \in Uploads,
           \/ ReserveOnNode(u) \/ ReserveSucceeds(u) \/ ReserveFails(u)
           \/ SendCompletion(u) \/ LoseCompletion(u) \/ RefuseCompletion(u) \/ GrowOld(u)
           \/ \E v \in Verdicts : FinishOnNode(u, v)
    PROVE  HandlersWait' /\ ListIsOld' /\ CountsLive'
<1>1. transfer' = transfer /\ upload' = upload /\ worker' = worker /\ old \subseteq old'
  BY DEF ReserveOnNode, ReserveSucceeds, ReserveFails, SendCompletion, LoseCompletion,
         RefuseCompletion, GrowOld, FinishOnNode
<1>2. ListIsOld' /\ CountsLive'
  BY <1>1, ListStays
<1>3. /\ handler \in [Uploads -> {"idle", "reserving", "failed"}]
      /\ node \in [Uploads -> [state : {"none", "open", "finished", "gone"},
                               verdict : Verdicts \cup {None}, queued : BOOLEAN]]
      /\ callback \in [Uploads -> Verdicts \cup {None}]
      /\ NodeWorkIsRemote /\ HandlersWait
  BY DEF ChargeInv, StatusTypes, TransferInv
<1>4. HandlersWait'
  <2>1. CASE ReserveOnNode(u)
    <3>1. /\ UNCHANGED <<handler, issued, old, callback>>
          /\ node' = [node EXCEPT ![u].state = "open"]
      BY <2>1 DEF ReserveOnNode
    <3>2. \A w \in Uploads : /\ node'[w].queued = node[w].queued
                             /\ node'[w].state = "finished" => node[w].state = "finished"
      BY <1>3, <3>1
    <3> QED
      BY <1>1, <1>3, <3>1, <3>2 DEF HandlersWait
  <2>2. CASE ReserveSucceeds(u)
    <3>1. /\ UNCHANGED <<node, old, callback>> /\ handler[u] # "idle"
          /\ handler' = [handler EXCEPT ![u] = "idle"] /\ issued' = issued \cup {u}
      BY <2>2 DEF ReserveSucceeds
    <3>2. handler'[u] = "idle" /\ \A w \in Uploads \ {u} : handler'[w] = handler[w]
      BY <1>3, <3>1
    <3> QED
      BY <1>1, <1>3, <3>1, <3>2 DEF HandlersWait
  <2>3. CASE ReserveFails(u)
    <3>1. /\ UNCHANGED <<node, old, callback, issued>> /\ handler[u] # "idle"
          /\ handler' = [handler EXCEPT ![u] = "failed"]
      BY <2>3 DEF ReserveFails
    <3>2. \A w \in Uploads : handler'[w] # "idle" => handler[w] # "idle"
      BY <1>3, <3>1
    <3> QED
      BY <1>1, <1>3, <3>1, <3>2 DEF HandlersWait
  <2>4. CASE SendCompletion(u)
    <3>1. /\ UNCHANGED <<handler, node, old, issued>> /\ node[u].queued
          /\ callback' = [callback EXCEPT ![u] = node[u].verdict]
      BY <2>4 DEF SendCompletion
    <3>2. \A w \in Uploads \ {u} : callback'[w] = callback[w]
      BY <1>3, <3>1
    <3>3. u \in issued
      BY <1>3, <3>1 DEF NodeWorkIsRemote, HandlersWait
    <3> QED
      BY <1>1, <1>3, <3>1, <3>2, <3>3 DEF HandlersWait
  <2>5. CASE LoseCompletion(u) \/ RefuseCompletion(u)
    <3>1. /\ UNCHANGED <<handler, old, issued>>
          /\ callback' = [callback EXCEPT ![u] = None]
          /\ node' \in {node, [node EXCEPT ![u].queued = FALSE]}
      BY <2>5 DEF LoseCompletion, RefuseCompletion
    <3>2. \A w \in Uploads : /\ callback'[w] # None => callback[w] # None
                             /\ node'[w].queued => node[w].queued
                             /\ node'[w].state = node[w].state
      BY <1>3, <3>1
    <3> QED
      BY <1>1, <1>3, <3>1, <3>2 DEF HandlersWait
  <2>6. CASE GrowOld(u)
    <3>1. /\ UNCHANGED <<handler, node, callback, issued>> /\ old' = old \cup {u}
          /\ upload[u].status = "uploading" /\ handler[u] = "idle"
      BY <2>6 DEF GrowOld
    <3> QED
      BY <1>1, <1>3, <3>1 DEF HandlersWait
  <2>7. ASSUME NEW v \in Verdicts, FinishOnNode(u, v)
        PROVE  HandlersWait'
    <3>1. /\ UNCHANGED <<handler, old, callback, issued>> /\ u \in issued
          /\ node' = [node EXCEPT ![u] = [state |-> "finished", verdict |-> v, queued |-> TRUE]]
      BY <2>7 DEF FinishOnNode
    <3>2. \A w \in Uploads \ {u} : node'[w] = node[w]
      BY <1>3, <3>1
    <3> QED
      BY <1>1, <1>3, <3>1, <3>2 DEF HandlersWait
  <2> QED
    BY <2>1, <2>2, <2>3, <2>4, <2>5, <2>6, <2>7
<1> QED
  BY <1>2, <1>4

\* Progress of an upload nobody is waiting for.
LEMMA ProgressKeepsCount ==
    ASSUME ChargeInv, TransferInv, UNCHANGED <<transfer, handler, issued, old>>,
           worker'.batch = worker.batch,
           \A w \in Uploads : \/ upload'[w].status = upload[w].status
                              \/ /\ handler[w] = "idle"
                                 /\ upload[w].status \notin {"none", "deleted"}
                                 /\ upload'[w].status \notin {"none", "deleted"},
           \A w \in Uploads : /\ callback'[w] # None => callback[w] # None
                              /\ node'[w].queued => node[w].queued
                              /\ node'[w].state = node[w].state
    PROVE  HandlersWait' /\ ListIsOld' /\ CountsLive'
<1>1. \A w \in Uploads : upload'[w].status \in {"none", "deleted"} <=> upload[w].status \in {"none", "deleted"}
  OBVIOUS
<1>2. ListIsOld' /\ CountsLive'
  BY <1>1, ListStays
<1>3. HandlersWait
  BY DEF TransferInv
<1>4. HandlersWait'
  BY <1>3 DEF HandlersWait
<1> QED
  BY <1>2, <1>4

\* Bytes arrive, an upload completes, a scan ends.
LEMMA UploadStepsKeepCount ==
    ASSUME ChargeInv, TransferInv, NEW u \in Uploads,
           \/ ReceiveBytes(u) \/ MarkUploaded(u) \/ CompleteRemoteUpload(u)
           \/ \E v \in Verdicts : FinishScan(u, v)
    PROVE  HandlersWait' /\ ListIsOld' /\ CountsLive'
<1>1. /\ upload \in [Uploads -> [status : UploadStatuses, full : BOOLEAN]]
      /\ node \in [Uploads -> [state : {"none", "open", "finished", "gone"},
                               verdict : Verdicts \cup {None}, queued : BOOLEAN]]
      /\ callback \in [Uploads -> Verdicts \cup {None}]
      /\ worker \in [scans : SUBSET Uploads, batch : SUBSET [id : Uploads, seen : UploadStatuses],
                     removed : Uploads \cup {None}]
      /\ NodeWorkIsRemote /\ ScansAreExclusive /\ HandlersWait
  BY DEF ChargeInv, StatusTypes, TransferInv
<1>2. UNCHANGED <<transfer, handler, issued, old>>
  BY DEF ReceiveBytes, MarkUploaded, CompleteRemoteUpload, FinishScan
<1>3. worker'.batch = worker.batch
  <2>1. worker' = worker \/ worker' = [worker EXCEPT !.scans = @ \ {u}]
    BY DEF ReceiveBytes, MarkUploaded, CompleteRemoteUpload, FinishScan
  <2> QED
    BY <1>1, <2>1
<1>4. \A w \in Uploads : /\ callback'[w] # None => callback[w] # None
                         /\ node'[w].queued => node[w].queued
                         /\ node'[w].state = node[w].state
  <2>1. /\ callback' \in {callback, [callback EXCEPT ![u] = None]}
        /\ node' \in {node, [node EXCEPT ![u].queued = FALSE]}
    BY DEF ReceiveBytes, MarkUploaded, CompleteRemoteUpload, FinishScan
  <2> QED
    BY <1>1, <2>1
<1> DEFINE Moves(w) ==
        \/ upload'[w].status = upload[w].status
        \/ /\ handler[w] = "idle"
           /\ upload[w].status \notin {"none", "deleted"}
           /\ upload'[w].status \notin {"none", "deleted"}
<1>5. \A w \in Uploads : Moves(w)
  <2>1. CASE ReceiveBytes(u)
    <3>1. upload' = [upload EXCEPT ![u].full = TRUE]
      BY <2>1 DEF ReceiveBytes
    <3> QED
      BY <1>1, <3>1
  <2>2. CASE MarkUploaded(u)
    <3>1. /\ upload' = [upload EXCEPT ![u].status = "uploaded"] /\ upload[u].status = "uploading"
          /\ u \notin Remote
      BY <2>2 DEF MarkUploaded
    <3>2. handler[u] = "idle"
      BY <1>1, <3>1 DEF NodeWorkIsRemote
    <3> QED
      BY <1>1, <3>1, <3>2
  <2>3. CASE CompleteRemoteUpload(u)
    <3>1. /\ upload' = [upload EXCEPT ![u] = [status |-> callback[u], full |-> TRUE]]
          /\ callback[u] # None /\ upload[u].status \in {"uploading", "uploaded", "scanning", callback[u]}
      BY <2>3 DEF CompleteRemoteUpload, Completes
    <3>2. callback[u] \in {"ready", "blocked", "quarantined"}
      BY <1>1, <3>1 DEF Verdicts
    <3>3. handler[u] = "idle"
      BY <1>1, <3>1 DEF NodeWorkIsRemote, HandlersWait
    <3>4. upload'[u].status = callback[u] /\ \A w \in Uploads \ {u} : upload'[w] = upload[w]
      BY <1>1, <3>1
    <3> QED
      BY <3>1, <3>2, <3>3, <3>4
  <2>4. ASSUME NEW v \in Verdicts, FinishScan(u, v)
        PROVE  \A w \in Uploads : Moves(w)
    <3>1. /\ upload' = [upload EXCEPT ![u].status = IF v = "ready" /\ @ # "scanning" THEN @ ELSE v]
          /\ u \in worker.scans
      BY <2>4 DEF FinishScan
    <3>2. upload[u].status = "scanning" /\ handler[u] = "idle"
      BY <1>1, <3>1 DEF ScansAreExclusive, NodeWorkIsRemote
    <3>3. upload'[u].status = v /\ \A w \in Uploads \ {u} : upload'[w] = upload[w]
      BY <1>1, <3>1, <3>2
    <3> QED
      BY <3>2, <3>3 DEF Verdicts
  <2> QED
    BY <2>1, <2>2, <2>3, <2>4
<1> QED
  BY <1>2, <1>3, <1>4, <1>5, ProgressKeepsCount

\* ClaimUploads takes local uploads, which have no handler that waits.
LEMMA ClaimKeepsCount ==
    ASSUME ChargeInv, TransferInv, ClaimUploads
    PROVE  HandlersWait' /\ ListIsOld' /\ CountsLive'
<1> DEFINE claimed == {u \in Uploads \ Remote : upload[u].status = "uploaded"}
<1>1. /\ upload' = [u \in Uploads |->
             IF u \in claimed THEN [upload[u] EXCEPT !.status = "scanning"] ELSE upload[u]]
      /\ worker' = [worker EXCEPT !.scans = claimed]
      /\ UNCHANGED <<transfer, handler, issued, old, node, callback>>
  BY DEF ClaimUploads
<1>2. /\ upload \in [Uploads -> [status : UploadStatuses, full : BOOLEAN]]
      /\ worker \in [scans : SUBSET Uploads, batch : SUBSET [id : Uploads, seen : UploadStatuses],
                     removed : Uploads \cup {None}]
      /\ NodeWorkIsRemote
  BY DEF ChargeInv, StatusTypes
<1>3. worker'.batch = worker.batch
  BY <1>1, <1>2
<1>4. \A w \in Uploads : \/ upload'[w].status = upload[w].status
                         \/ /\ handler[w] = "idle"
                            /\ upload[w].status \notin {"none", "deleted"}
                            /\ upload'[w].status \notin {"none", "deleted"}
  <2> SUFFICES ASSUME NEW w \in Uploads
               PROVE  \/ upload'[w].status = upload[w].status
                      \/ /\ handler[w] = "idle"
                         /\ upload[w].status \notin {"none", "deleted"}
                         /\ upload'[w].status \notin {"none", "deleted"}
    OBVIOUS
  <2>1. CASE w \notin claimed
    BY <1>1, <2>1
  <2>2. CASE w \in claimed
    <3>1. upload'[w].status = "scanning"
      BY <1>1, <1>2, <2>2
    <3> QED
      BY <1>2, <2>2, <3>1 DEF NodeWorkIsRemote
  <2> QED
    BY <2>1, <2>2
<1> QED
  BY <1>1, <1>3, <1>4, ProgressKeepsCount

\* createUpload gives up: the upload is still the handler's own, so it is live and unlisted.
LEMMA AbandonKeepsCount ==
    ASSUME ChargeInv, TransferInv, NEW u \in Uploads, AbandonUpload(u)
    PROVE  HandlersWait' /\ ListIsOld' /\ CountsLive'
<1>1. /\ handler[u] = "failed" /\ handler' = [handler EXCEPT ![u] = "idle"]
      /\ node' \in {node, NodeDeletes(u)}
      /\ UNCHANGED <<issued, old, callback, worker>>
      /\ MarkDeleted(u, "uploading") \/ UNCHANGED <<upload, transfer>>
  BY DEF AbandonUpload
<1>2. /\ handler \in [Uploads -> {"idle", "reserving", "failed"}]
      /\ node \in [Uploads -> [state : {"none", "open", "finished", "gone"},
                               verdict : Verdicts \cup {None}, queued : BOOLEAN]]
      /\ worker.batch \subseteq [id : Uploads, seen : UploadStatuses]
      /\ HandlersWait /\ ListIsOld
  BY DEF ChargeInv, StatusTypes, TransferInv
<1>3. handler'[u] = "idle" /\ \A w \in Uploads \ {u} : handler'[w] = handler[w]
  BY <1>1, <1>2
<1>4. \A w \in Uploads : /\ node'[w].queued => node[w].queued
                         /\ node'[w].state = "finished" => node[w].state = "finished"
  BY ZenonT(40), <1>1, <1>2 DEF NodeDeletes
<1>5. CASE UNCHANGED <<upload, transfer>>
  <2>1. ListIsOld' /\ CountsLive'
    BY <1>1, <1>5, ListStays
  <2>2. HandlersWait'
    BY <1>1, <1>2, <1>3, <1>4, <1>5 DEF HandlersWait
  <2> QED
    BY <2>1, <2>2
<1>6. CASE MarkDeleted(u, "uploading")
  <2>1. u \notin old /\ (transfer.status = "active" => u \in LiveUploads)
    BY <1>1, <1>2 DEF HandlersWait, LiveUploads
  <2>2. /\ CountsLive' /\ LiveUploads' = LiveUploads \ {u} /\ transfer'.status = transfer.status
        /\ upload'[u].status = "deleted" /\ \A w \in Uploads \ {u} : upload'[w] = upload[w]
    BY <1>6, <2>1, DeletionIsCounted
  <2>3. ListIsOld'
    BY <1>1, <1>2, <2>1, <2>2 DEF ListIsOld
  <2>4. HandlersWait'
    BY <1>1, <1>2, <1>3, <1>4, <2>2 DEF HandlersWait
  <2> QED
    BY <2>2, <2>3, <2>4
<1> QED
  BY <1>1, <1>5, <1>6

\* The worker deletes what it listed: the status it read earlier still says whether the
\* upload was counted, because nobody else deletes an old upload of a transfer that is active.
LEMMA ListedDeletionKeepsCount ==
    ASSUME ChargeInv, TransferInv, NEW r \in worker.batch, DeleteListed(r)
    PROVE  HandlersWait' /\ ListIsOld' /\ CountsLive'
<1>1. /\ MarkDeleted(r.id, r.seen) /\ worker' = [worker EXCEPT !.batch = @ \ {r}, !.removed = None]
      /\ UNCHANGED <<handler, issued, old, node, callback>>
  BY DEF DeleteListed
<1>2. /\ worker \in [scans : SUBSET Uploads, batch : SUBSET [id : Uploads, seen : UploadStatuses],
                     removed : Uploads \cup {None}]
      /\ HandlersWait /\ ListIsOld
  BY DEF ChargeInv, StatusTypes, TransferInv
<1>3. worker'.batch = worker.batch \ {r} /\ r.id \in Uploads
  BY <1>1, <1>2
<1>4. transfer.status = "active" => r.seen = "uploading" /\ r.id \in old /\ r.id \in LiveUploads
  BY <1>2 DEF ListIsOld
<1>5. /\ CountsLive' /\ LiveUploads' = LiveUploads \ {r.id} /\ transfer'.status = transfer.status
      /\ upload'[r.id].status = "deleted" /\ \A w \in Uploads \ {r.id} : upload'[w] = upload[w]
  BY <1>1, <1>3, <1>4, DeletionIsCounted
<1>6. ListIsOld'
  BY <1>1, <1>2, <1>3, <1>5 DEF ListIsOld
<1>7. HandlersWait'
  BY <1>1, <1>2, <1>3, <1>4, <1>5 DEF HandlersWait
<1> QED
  BY <1>5, <1>6, <1>7

\* MaintenanceCandidates lists each upload once, and of an active transfer the old ones.
LEMMA CleanupKeepsCount ==
    ASSUME ChargeInv, TransferInv, StartCleanup
    PROVE  HandlersWait' /\ ListIsOld' /\ CountsLive'
<1> DEFINE status == IF transfer.status = "active" /\ due THEN "expired" ELSE transfer.status
           listed == {[id |-> u, seen |-> upload[u].status] : u \in Candidates(status)}
<1>1. /\ transfer' = [transfer EXCEPT !.status = status] /\ worker' = [worker EXCEPT !.batch = listed]
      /\ UNCHANGED <<upload, handler, issued, old, node, callback>>
  BY DEF StartCleanup
<1>2. /\ worker \in [scans : SUBSET Uploads, batch : SUBSET [id : Uploads, seen : UploadStatuses],
                     removed : Uploads \cup {None}]
      /\ transfer \in Transfers /\ HandlersWait /\ CountsLive
  BY DEF ChargeInv, StatusTypes, TransferInv, TransferTypes
<1>3. /\ worker'.batch = listed /\ transfer'.status = status
      /\ transfer'.files = transfer.files /\ transfer'.bytes = transfer.bytes
  BY <1>1, <1>2 DEF Transfers
<1>4. status = "active" => transfer.status = "active"
  OBVIOUS
<1>5. CountsLive' /\ LiveUploads' = LiveUploads
  BY <1>1, <1>2, <1>3, <1>4, SameLiveSameCount
<1>6. status = "active" =>
          \A u \in Candidates(status) : upload[u].status = "uploading" /\ u \in old /\ u \in LiveUploads
  BY DEF Candidates, LiveUploads
<1> HIDE DEF status
<1>7. ListIsOld'
  BY <1>1, <1>3, <1>5, <1>6 DEF ListIsOld
<1>8. HandlersWait'
  BY <1>1, <1>2, <1>3, <1>4 DEF HandlersWait
<1> QED
  BY <1>5, <1>7, <1>8

\* The bytes of a listed upload are removed, an upload is skipped, the process restarts.
LEMMA WorkerStepsKeepCount ==
    ASSUME ChargeInv, TransferInv, (\E r \in worker.batch : RemoveBytes(r) \/ SkipUpload(r)) \/ Restart
    PROVE  HandlersWait' /\ ListIsOld' /\ CountsLive'
<1>1. /\ worker \in [scans : SUBSET Uploads, batch : SUBSET [id : Uploads, seen : UploadStatuses],
                     removed : Uploads \cup {None}]
      /\ node \in [Uploads -> [state : {"none", "open", "finished", "gone"},
                               verdict : Verdicts \cup {None}, queued : BOOLEAN]]
      /\ HandlersWait
  BY DEF ChargeInv, StatusTypes, TransferInv
<1>2. UNCHANGED <<transfer, upload, issued, old>>
  BY DEF RemoveBytes, SkipUpload, Restart
<1>3. worker'.batch \subseteq worker.batch
  <2>1. CASE \E r \in worker.batch : RemoveBytes(r)
    <3>1. PICK id : worker' = [worker EXCEPT !.removed = id]
      BY <2>1 DEF RemoveBytes
    <3> QED
      BY <1>1, <3>1
  <2>2. CASE \E r \in worker.batch : SkipUpload(r)
    <3>1. PICK r : worker' = [worker EXCEPT !.batch = @ \ {r}, !.removed = None]
      BY <2>2 DEF SkipUpload
    <3>2. worker'.batch = worker.batch \ {r}
      BY <1>1, <3>1
    <3> QED
      BY <3>2
  <2>3. CASE Restart
    BY <2>3 DEF Restart
  <2> QED
    BY <2>1, <2>2, <2>3
<1>4. ListIsOld' /\ CountsLive'
  BY <1>2, <1>3, ListStays
<1>5. \A w \in Uploads : /\ handler'[w] # "idle" => handler'[w] = handler[w]
                         /\ callback'[w] # None => callback'[w] = callback[w]
  BY DEF RemoveBytes, SkipUpload, Restart
<1>6. \A w \in Uploads : /\ node'[w].queued => node[w].queued
                         /\ node'[w].state = "finished" => node[w].state = "finished"
  <2>1. \/ node' = node
        \/ \E r \in worker.batch : node' = NodeDeletes(r.id)
    BY DEF RemoveBytes, SkipUpload, Restart
  <2>2. \A r \in worker.batch : r.id \in Uploads
    BY <1>1
  <2>3. ASSUME NEW u \in Uploads, node' = NodeDeletes(u)
        PROVE  \A x \in Uploads : /\ node'[x].queued => node[x].queued
                                  /\ node'[x].state = "finished" => node[x].state = "finished"
    BY <1>1, <2>3 DEF NodeDeletes
  <2> QED
    BY <2>1, <2>2, <2>3
<1>7. HandlersWait'
  BY <1>1, <1>2, <1>5, <1>6 DEF HandlersWait
<1> QED
  BY <1>4, <1>7

\* Every step keeps what the transfer counts.
LEMMA TransferInvNext ==
    ASSUME ChargeInv, TransferInv, [Next]_vars
    PROVE  TransferInv'
<1> DEFINE Goal == HandlersWait' /\ ListIsOld' /\ CountsLive'
<1>1. ASSUME \/ RetireLegacyHolds
             \/ \E o \in Orders : \/ CreateOrder(o) \/ PayOrderWithPoints(o)
                                  \/ CompleteSandboxOrder(o) \/ RefundOrder(o) \/ CloseOrder(o)
      PROVE  Goal
  <2>1. UNCHANGED <<transfer, upload, handler, issued, old, node, callback, worker>>
    BY <1>1 DEF RetireLegacyHolds, CreateOrder, PayOrderWithPoints, CompleteSandboxOrder,
                RefundOrder, CloseOrder, uploadVars
  <2> QED
    BY <2>1 DEF TransferInv, HandlersWait, ListIsOld, CountsLive, LiveUploads
<1>2. ASSUME NEW u \in Uploads, CreateUpload(u) PROVE Goal
  BY <1>2, CreationIsCounted
<1>3. ASSUME NEW u \in Uploads,
             \/ ReserveOnNode(u) \/ ReserveSucceeds(u) \/ ReserveFails(u)
             \/ SendCompletion(u) \/ LoseCompletion(u) \/ RefuseCompletion(u) \/ GrowOld(u)
             \/ \E v \in Verdicts : FinishOnNode(u, v)
      PROVE  Goal
  BY <1>3, NodeStepsKeepCount
<1>4. ASSUME NEW u \in Uploads, AbandonUpload(u) PROVE Goal
  BY <1>4, AbandonKeepsCount
<1>5. ASSUME NEW u \in Uploads,
             \/ ReceiveBytes(u) \/ MarkUploaded(u) \/ CompleteRemoteUpload(u)
             \/ \E v \in Verdicts : FinishScan(u, v)
      PROVE  Goal
  BY <1>5, UploadStepsKeepCount
<1>6. ASSUME ClaimUploads PROVE Goal
  BY <1>6, ClaimKeepsCount
<1>7. ASSUME StartCleanup PROVE Goal
  BY <1>7, CleanupKeepsCount
<1>8. ASSUME (\E r \in worker.batch : RemoveBytes(r) \/ SkipUpload(r)) \/ Restart PROVE Goal
  BY <1>8, WorkerStepsKeepCount
<1>9. ASSUME NEW r \in worker.batch, DeleteListed(r) PROVE Goal
  BY <1>9, ListedDeletionKeepsCount
<1>10. ASSUME ClaimTransfer \/ RevokeTransfer \/ ExpiryPasses \/ NewDay \/ UNCHANGED vars PROVE Goal
  <2>1. UNCHANGED <<upload, handler, issued, old, node, callback, worker>>
    BY <1>10 DEF ClaimTransfer, RevokeTransfer, ExpiryPasses, NewDay, vars
  <2>2. /\ transfer'.files = transfer.files /\ transfer'.bytes = transfer.bytes
        /\ transfer'.status = "active" => transfer.status = "active"
    <3>1. transfer \in Transfers
      BY DEF TransferInv, TransferTypes
    <3> QED
      BY <1>10, <3>1 DEF ClaimTransfer, RevokeTransfer, ExpiryPasses, NewDay, vars, Transfers
  <2>3. ListIsOld' /\ CountsLive'
    BY <2>1, <2>2, ListStays
  <2>4. HandlersWait'
    BY <2>1, <2>2 DEF TransferInv, HandlersWait
  <2> QED
    BY <2>3, <2>4
<1>11. TransferTypes'
  BY TransferTypesNext DEF TransferInv
<1> HIDE DEF Goal
<1>12. Goal
  BY <1>1, <1>2, <1>3, <1>4, <1>5, <1>6, <1>7, <1>8, <1>9, <1>10 DEF Next
<1> QED
  BY <1>11, <1>12 DEF Goal, TransferInv

\* The three parts of the invariant hold together.
LEMMA UploadsAlways == Spec => [](ChargeInv /\ LedgerInv /\ TransferInv)
<1>1. Init => ChargeInv /\ LedgerInv /\ TransferInv
  BY ChargeInvInit, LedgerInvInit, TransferInvInit
<1>2. ChargeInv /\ LedgerInv /\ TransferInv /\ [Next]_vars => (ChargeInv /\ LedgerInv /\ TransferInv)'
  BY ChargeInvNext, LedgerInvNext, TransferInvNext
<1> QED
  BY <1>1, <1>2, PTL DEF Spec

\* While a transfer takes files, file_count and total_bytes are those of its uploads, however
\* late MarkDeleted comes after the worker, or the failed handler, read the upload.
THEOREM TransfersCountUploads == Spec => []TransferCountsUploads
<1>1. TransferInv => TransferCountsUploads
  BY DEF TransferInv, CountsLive, LiveUploads, TransferCountsUploads
<1> QED
  BY <1>1, UploadsAlways, PTL

\* Every row, balance and counter keeps its type: no balance and no counter is ever negative.
THEOREM UploadTrafficTypes == Spec => []TypeOK
<1>1. ChargeInv /\ LedgerInv /\ TransferInv => TypeOK
  BY DEF ChargeInv, StatusTypes, LedgerInv, AccountTypes, LedgerOK, TransferInv, TransferTypes, Transfers, TypeOK
<1> QED
  BY <1>1, UploadsAlways, PTL

===============================================================================
