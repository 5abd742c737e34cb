-------------------------- MODULE QuotaLedgerProofs --------------------------
(***************************************************************************)
(* Proofs about the quota ledger: for any deliveries, metrics, limits,     *)
(* windows and lifetimes, a delivery is charged once if its bundle is      *)
(* committed and never otherwise, settled rows stay as they are, and a     *)
(* bundle that is reserved has all its reservations.                       *)
(***************************************************************************)
EXTENDS QuotaLedger, TLAPS

-----------------------------------------------------------------------------
(* The inductive invariant.                                                *)

BundleRow == [status : Status, estimate : BOOLEAN, expires : Nat]
ItemRow == [status : Status, amount : Nat, expires : Nat]
SingleRow == [status : Status, metric : Metrics, amount : Nat, expires : Nat]

(* What the properties read; limits, windows and usage are not among it.   *)
RowsTyped ==
  /\ now \in Nat
  /\ bundle \in [Deliveries -> BundleRow]
  /\ item \in [Deliveries -> [BundleMetrics -> ItemRow]]
  /\ single \in [Singles -> SingleRow]
  /\ charges \in [Deliveries -> Nat]

(* A delivery without a bundle has no reservations.                        *)
NoneHasNoItems ==
  \A d \in Deliveries : bundle[d].status = "none" =>
    \A m \in BundleMetrics : item[d][m].status = "none"

LedgerInv ==
  /\ RowsTyped /\ NoneHasNoItems /\ ChargedOnce
  /\ Restarts \/ ReservedBundleIsWhole

LEMMA LedgerInvInit == LedgerAssumption /\ Init => LedgerInv
  BY DEF LedgerAssumption, Init, LedgerInv, RowsTyped, NoneHasNoItems, ChargedOnce,
         ReservedBundleIsWhole, BundleRow, ItemRow, SingleRow, NoBundle, NoItem, NoSingle,
         Status, Settled, BundleMetrics, Metrics

-----------------------------------------------------------------------------
(* What a step may do to the rows of the ledger without committing.        *)

(* A change of status or of lifetime leaves a reservation a reservation.   *)
WithStatus(i, s) == [i EXCEPT !.status = s]
WithExpiry(i, t) == [i EXCEPT !.expires = t]

LEMMA ItemChanges ==
  /\ \A i \in ItemRow, s \in Status :
       WithStatus(i, s) \in ItemRow /\ WithStatus(i, s).status = s
  /\ \A i \in ItemRow, t \in Nat :
       /\ WithExpiry(i, t) \in ItemRow /\ WithExpiry(i, t).expires = t
       /\ WithExpiry(i, t).status = i.status
BY DEF ItemRow, WithStatus, WithExpiry

(* A reservation that expires keeps its other columns.                     *)
LEMMA ExpireKeeps ==
  /\ \A b \in BundleRow :
       /\ Expire(b) \in BundleRow /\ Expire(b).status # "reserved"
       /\ b.status # "reserved" => Expire(b) = b
       /\ b.status = "reserved" => Expire(b).status = "expired"
  /\ \A i \in ItemRow :
       /\ Expire(i) \in ItemRow
       /\ i.status # "reserved" => Expire(i) = i
  /\ \A r \in SingleRow :
       /\ Expire(r) \in SingleRow
       /\ r.status # "reserved" => Expire(r) = r
BY DEF Expire, BundleRow, ItemRow, SingleRow, Status, Settled

LEMMA ExpireStaleKeeps ==
  /\ \A b \in BundleRow :
       /\ ExpireStale(b) \in BundleRow
       /\ ExpireStale(b) = b \/ (b.status = "reserved" /\ ExpireStale(b).status = "expired")
       /\ ExpireStale(b).status = "reserved" => ExpireStale(b) = b /\ b.status = "reserved" /\ ~Stale(b)
  /\ \A i \in ItemRow :
       /\ ExpireStale(i) \in ItemRow
       /\ i.status # "reserved" => ExpireStale(i) = i
       /\ ~Stale(i) => ExpireStale(i) = i
  /\ \A r \in SingleRow :
       /\ ExpireStale(r) \in SingleRow
       /\ r.status # "reserved" => ExpireStale(r) = r
BY DEF ExpireStale, Stale, BundleRow, ItemRow, SingleRow, Status, Settled

(* A window reset: all reserved bundles expire, or nothing is changed.     *)
LEMMA ResetKeeps ==
  ASSUME RowsTyped, NEW M
  PROVE  /\ BundleAfter(M) \in [Deliveries -> BundleRow]
         /\ ItemAfter(M) \in [Deliveries -> [BundleMetrics -> ItemRow]]
         /\ SingleAfter(M) \in [Singles -> SingleRow]
         /\ \A d \in Deliveries :
              /\ bundle[d].status # "reserved" => BundleAfter(M)[d] = bundle[d]
              /\ bundle[d].status = "reserved" =>
                   BundleAfter(M)[d] = bundle[d] \/ BundleAfter(M)[d].status = "expired"
              /\ BundleAfter(M)[d].status = "reserved" =>
                   /\ BundleAfter(M)[d] = bundle[d]
                   /\ \A m \in BundleMetrics : ItemAfter(M)[d][m] = item[d][m]
              /\ \A m \in BundleMetrics :
                   item[d][m].status # "reserved" => ItemAfter(M)[d][m] = item[d][m]
         /\ \A r \in Singles : single[r].status # "reserved" => SingleAfter(M)[r] = single[r]
<1>1. CASE Due(M) = {}
  BY <1>1 DEF RowsTyped, BundleAfter, ItemAfter, SingleAfter
<1>2. CASE Due(M) # {}
  <2>1. /\ BundleAfter(M) = [d \in Deliveries |-> Expire(bundle[d])]
        /\ \A d \in Deliveries : bundle[d] \in BundleRow
    BY <1>2 DEF BundleAfter, RowsTyped
  <2>2. /\ BundleAfter(M) \in [Deliveries -> BundleRow]
        /\ \A d \in Deliveries :
              /\ bundle[d].status # "reserved" => BundleAfter(M)[d] = bundle[d]
              /\ bundle[d].status = "reserved" => BundleAfter(M)[d].status = "expired"
              /\ BundleAfter(M)[d].status # "reserved"
    BY <2>1, ExpireKeeps
  <2>3. /\ ItemAfter(M) \in [Deliveries -> [BundleMetrics -> ItemRow]]
        /\ \A d \in Deliveries, m \in BundleMetrics :
             item[d][m].status # "reserved" => ItemAfter(M)[d][m] = item[d][m]
    BY ExpireKeeps DEF ItemAfter, RowsTyped
  <2>4. /\ SingleAfter(M) \in [Singles -> SingleRow]
        /\ \A r \in Singles : single[r].status # "reserved" => SingleAfter(M)[r] = single[r]
    BY ExpireKeeps DEF SingleAfter, RowsTyped
  <2> QED BY <2>2, <2>3, <2>4
<1> QED BY <1>1, <1>2

(* A step that commits nothing keeps the invariant: bundles stay, leave    *)
(* 'reserved', or come to be with all their reservations.                  *)
LEMMA RowsKept ==
  ASSUME LedgerInv, RowsTyped', UNCHANGED charges,
         \A d \in Deliveries :
           \/ /\ bundle'[d] = bundle[d]
              /\ \A m \in BundleMetrics :
                   \/ item'[d][m] = item[d][m]
                   \/ item[d][m].status = "reserved" /\ bundle[d].status # "reserved"
                   \/ item[d][m].status = "reserved" /\ Restarts
           \/ /\ bundle[d].status = "reserved" /\ bundle'[d].status \in {"released", "expired"}
              /\ \A m \in BundleMetrics :
                   item'[d][m] = item[d][m] \/ item[d][m].status = "reserved"
           \/ /\ bundle[d].status \in {"none", "reserved"} /\ bundle'[d].status = "reserved"
              /\ \A m \in BundleMetrics :
                   /\ item[d][m].status \in {"none", "reserved"} \/ item'[d][m] = item[d][m]
                   /\ \/ item[d][m].status # "reserved" /\ bundle[d].status = "reserved"
                      \/ item'[d][m].status = "reserved" /\ item'[d][m].expires = bundle'[d].expires,
         \A r \in Singles : single[r].status \in Settled => single'[r] = single[r]
  PROVE  LedgerInv' /\ SettledForGood
<1>1. /\ NoneHasNoItems /\ ChargedOnce /\ (Restarts \/ ReservedBundleIsWhole)
      /\ \A d \in Deliveries : bundle[d].status \in Status /\ bundle'[d].status \in Status
  BY DEF LedgerInv, RowsTyped, BundleRow
<1>2. NoneHasNoItems'
  BY <1>1 DEF NoneHasNoItems
<1>3. ChargedOnce'
  BY <1>1 DEF ChargedOnce
<1>4. ASSUME ~Restarts, NEW d \in Deliveries, bundle'[d].status = "reserved", NEW m \in BundleMetrics
      PROVE  item'[d][m].status = "reserved" /\ item'[d][m].expires = bundle'[d].expires
  <2>1. bundle[d].status = "reserved" =>
          item[d][m].status = "reserved" /\ item[d][m].expires = bundle[d].expires
    BY <1>1, <1>4 DEF ReservedBundleIsWhole
  <2> QED BY <1>4, <2>1
<1>5. Restarts \/ ReservedBundleIsWhole'
  BY <1>4 DEF ReservedBundleIsWhole
<1>6. SettledForGood
  BY DEF SettledForGood, Settled
<1> QED BY <1>2, <1>3, <1>5, <1>6 DEF LedgerInv

LEMMA StepFacts ==
  ASSUME LedgerAssumption, LedgerInv, [Next]_vars
  PROVE  LedgerInv' /\ SettledForGood
<1> DEFINE Goal == LedgerInv' /\ SettledForGood
<1>0. /\ RowsTyped /\ now \in Nat
      /\ bundle \in [Deliveries -> BundleRow]
      /\ item \in [Deliveries -> [BundleMetrics -> ItemRow]]
      /\ single \in [Singles -> SingleRow] /\ charges \in [Deliveries -> Nat]
      /\ BundleTtl \in Nat /\ SingleTtl \in Nat /\ RenewTtl \in Nat /\ Amounts \subseteq Nat
      /\ Estimates \subseteq BOOLEAN
  BY DEF LedgerAssumption, LedgerInv, RowsTyped
(* Steps that look at the usage, with or without a reservation.            *)
<1>1. ASSUME NEW M, bundle' = BundleAfter(M), item' = ItemAfter(M),
             single' \in [Singles -> SingleRow],
             \A r \in Singles : single[r].status \in Settled => single'[r] = single[r],
             UNCHANGED <<now, charges>>
      PROVE  Goal
  <2>1. RowsTyped'
    BY <1>0, <1>1, ResetKeeps DEF RowsTyped
  <2>2. \A d \in Deliveries :
           \/ /\ bundle'[d] = bundle[d]
              /\ \A m \in BundleMetrics :
                   \/ item'[d][m] = item[d][m]
                   \/ item[d][m].status = "reserved" /\ bundle[d].status # "reserved"
           \/ /\ bundle[d].status = "reserved" /\ bundle'[d].status \in {"released", "expired"}
              /\ \A m \in BundleMetrics :
                   item'[d][m] = item[d][m] \/ item[d][m].status = "reserved"
    BY <1>0, <1>1, ResetKeeps
  <2> QED BY <1>1, <2>1, <2>2, RowsKept
<1>2. ASSUME NEW M, GetUsage(M)
      PROVE  Goal
  <2>1. /\ bundle' = BundleAfter(M) /\ item' = ItemAfter(M) /\ single' = SingleAfter(M)
        /\ UNCHANGED <<now, charges>>
    BY <1>2 DEF GetUsage
  <2>2. /\ single' \in [Singles -> SingleRow]
        /\ \A r \in Singles : single[r].status \in Settled => single'[r] = single[r]
    BY <1>0, <2>1, ResetKeeps DEF Settled
  <2> QED BY <1>1, <2>1, <2>2
<1>3. ASSUME NEW m \in Other, NEW a \in Amounts,
             DirectConsume(m, a) \/ DecrementUsage(m, a) \/ SetBaselineUsage(m, a)
      PROVE  Goal
  <2>1. /\ bundle' = BundleAfter({m}) /\ item' = ItemAfter({m}) /\ single' = SingleAfter({m})
        /\ UNCHANGED <<now, charges>>
    BY <1>3 DEF DirectConsume, DecrementUsage, SetBaselineUsage
  <2>2. /\ single' \in [Singles -> SingleRow]
        /\ \A r \in Singles : single[r].status \in Settled => single'[r] = single[r]
    BY <1>0, <2>1, ResetKeeps DEF Settled
  <2> QED BY <1>1, <2>1, <2>2
<1>4. ASSUME NEW r \in Singles, NEW m \in Other, NEW a \in Amounts, Reserve(r, m, a)
      PROVE  Goal
  <2> DEFINE new == [status |-> "reserved", metric |-> m, amount |-> a, expires |-> now + SingleTtl]
  <2>1. /\ bundle' = BundleAfter({m}) /\ item' = ItemAfter({m})
        /\ single' = [SingleAfter({m}) EXCEPT ![r] = new]
        /\ single[r].status = "none" /\ UNCHANGED <<now, charges>>
    BY <1>4 DEF Reserve
  <2>2. new \in SingleRow
    BY <1>0 DEF SingleRow, Status, Settled, Metrics
  <2> HIDE DEF new
  <2>3. /\ single' \in [Singles -> SingleRow]
        /\ \A q \in Singles : single[q].status \in Settled => single'[q] = single[q]
    BY <1>0, <2>1, <2>2, ResetKeeps DEF Settled
  <2> QED BY <1>1, <2>1, <2>3
<1>5. ASSUME NEW r \in Singles, NEW a \in Amounts, Commit(r, a)
      PROVE  Goal
  <2>1. PICK m : m = single[r].metric
    OBVIOUS
  <2> DEFINE new == [single[r] EXCEPT !.status = "committed"]
  <2>2. /\ bundle' = BundleAfter({m}) /\ item' = ItemAfter({m})
        /\ single' = [SingleAfter({m}) EXCEPT ![r] = new]
        /\ single[r].status = "reserved" /\ UNCHANGED <<now, charges>>
    BY <1>5, <2>1 DEF Commit, Live
  <2>3. new \in SingleRow
    BY <1>0 DEF SingleRow, Status, Settled
  <2> HIDE DEF new
  <2>4. /\ single' \in [Singles -> SingleRow]
        /\ \A q \in Singles : single[q].status \in Settled => single'[q] = single[q]
    BY <1>0, <2>2, <2>3, ResetKeeps DEF Settled
  <2> QED BY <1>1, <2>2, <2>4
<1>6. ASSUME NEW r \in Singles, Release(r)
      PROVE  Goal
  <2>1. /\ single[r].status = "reserved" /\ single' = [single EXCEPT ![r].status = "released"]
        /\ UNCHANGED <<now, bundle, item, charges>>
    BY <1>6 DEF Release
  <2>2. /\ single' \in [Singles -> SingleRow]
        /\ \A q \in Singles : single[q].status \in Settled => single'[q] = single[q]
    BY <1>0, <2>1 DEF SingleRow, Status, Settled
  <2>3. RowsTyped'
    BY <1>0, <2>1, <2>2 DEF RowsTyped
  <2> QED BY <2>1, <2>2, <2>3, RowsKept
(* Bundles.                                                                *)
<1>7. ASSUME NEW d \in Deliveries, NEW t \in Amounts, NEW e \in Estimates, ReserveBundle(d, 1, t, e)
      PROVE  Goal
  <2> DEFINE new == [status |-> "reserved", estimate |-> e, expires |-> now + BundleTtl]
  <2> DEFINE rows == [m \in BundleMetrics |->
                 [status |-> "reserved", amount |-> IF m = Tokens THEN t ELSE 1,
                  expires |-> now + BundleTtl]]
  <2>1. /\ bundle[d].status = "none" /\ single' = SingleAfter(BundleMetrics)
        /\ bundle' = [BundleAfter(BundleMetrics) EXCEPT ![d] = new]
        /\ item' = [ItemAfter(BundleMetrics) EXCEPT ![d] = rows]
        /\ UNCHANGED <<now, charges>>
    BY <1>7 DEF ReserveBundle
  <2>2. /\ new \in BundleRow /\ new.status = "reserved" /\ rows \in [BundleMetrics -> ItemRow]
        /\ \A m \in BundleMetrics : rows[m].status = "reserved" /\ rows[m].expires = new.expires
    BY <1>0 DEF BundleRow, ItemRow, Status, Settled
  <2> HIDE DEF new, rows
  <2>3. \A m \in BundleMetrics : item[d][m].status = "none"
    BY <2>1 DEF LedgerInv, NoneHasNoItems
  <2>4. RowsTyped'
    BY <1>0, <2>1, <2>2, ResetKeeps DEF RowsTyped
  <2>5. /\ bundle'[d] = new /\ item'[d] = rows
        /\ \A f \in Deliveries \ {d} : /\ bundle'[f] = BundleAfter(BundleMetrics)[f]
                                       /\ item'[f] = ItemAfter(BundleMetrics)[f]
    BY <1>0, <2>1, ResetKeeps
  <2>6. \A f \in Deliveries \ {d} :
           \/ /\ bundle'[f] = bundle[f]
              /\ \A m \in BundleMetrics :
                   \/ item'[f][m] = item[f][m]
                   \/ item[f][m].status = "reserved" /\ bundle[f].status # "reserved"
           \/ /\ bundle[f].status = "reserved" /\ bundle'[f].status \in {"released", "expired"}
              /\ \A m \in BundleMetrics :
                   item'[f][m] = item[f][m] \/ item[f][m].status = "reserved"
    BY <1>0, <2>5, ResetKeeps
  <2>7. \A r \in Singles : single[r].status \in Settled => single'[r] = single[r]
    BY <1>0, <2>1, ResetKeeps DEF Settled
  <2> QED BY <2>1, <2>2, <2>3, <2>4, <2>5, <2>6, <2>7, RowsKept
<1>8. ASSUME NEW d \in Deliveries, NEW t \in Amounts, CommitBundle(d, t)
      PROVE  Goal
  <2> DEFINE rows == [m \in BundleMetrics |-> [item[d][m] EXCEPT !.status = "committed"]]
  <2>1. /\ bundle[d].status = "reserved" /\ \A m \in BundleMetrics : item[d][m].status = "reserved"
        /\ bundle' = [bundle EXCEPT ![d].status = "committed"]
        /\ item' = [item EXCEPT ![d] = rows]
        /\ charges' = [charges EXCEPT ![d] = @ + 1] /\ UNCHANGED <<now, single>>
    BY <1>8 DEF CommitBundle
  <2>2. rows \in [BundleMetrics -> ItemRow]
    <3>1. "committed" \in Status
      BY DEF Status, Settled
    <3>2. \A m \in BundleMetrics : WithStatus(item[d][m], "committed") \in ItemRow
      BY <1>0, <3>1, ItemChanges
    <3> QED BY <3>2 DEF WithStatus
  <2> HIDE DEF rows
  <2>3. /\ bundle' \in [Deliveries -> BundleRow] /\ bundle'[d].status = "committed"
        /\ \A f \in Deliveries \ {d} : bundle'[f] = bundle[f]
    BY <1>0, <2>1 DEF BundleRow, Status, Settled
  <2>4. /\ item' \in [Deliveries -> [BundleMetrics -> ItemRow]]
        /\ \A f \in Deliveries \ {d} : item'[f] = item[f]
    BY <1>0, <2>1, <2>2
  <2>5. /\ charges' \in [Deliveries -> Nat] /\ charges'[d] = charges[d] + 1
        /\ \A f \in Deliveries \ {d} : charges'[f] = charges[f]
    BY <1>0, <2>1
  <2>6. RowsTyped'
    BY <1>0, <2>1, <2>3, <2>4, <2>5 DEF RowsTyped
  <2>7. ChargedOnce'
    BY <2>1, <2>3, <2>5 DEF LedgerInv, ChargedOnce
  <2>8. NoneHasNoItems'
    BY <2>3, <2>4 DEF LedgerInv, NoneHasNoItems
  <2>9. (Restarts \/ ReservedBundleIsWhole)'
    BY <2>3, <2>4 DEF LedgerInv, ReservedBundleIsWhole
  <2>10. SettledForGood
    BY <2>1, <2>3, <2>4 DEF SettledForGood, Settled
  <2> QED BY <2>6, <2>7, <2>8, <2>9, <2>10 DEF LedgerInv
<1>9. ASSUME NEW d \in Deliveries, ReleaseBundle(d)
      PROVE  Goal
  <2>1. CASE bundle[d].status = "reserved"
    <3>1. /\ bundle' = [bundle EXCEPT ![d].status = "released"]
          /\ item' = ReleaseItems(d) /\ UNCHANGED <<now, single, charges>>
      BY <1>9, <2>1 DEF ReleaseBundle
    <3>2. /\ bundle' \in [Deliveries -> BundleRow] /\ bundle'[d].status = "released"
          /\ \A f \in Deliveries \ {d} : bundle'[f] = bundle[f]
      BY <1>0, <3>1 DEF BundleRow, Status, Settled
    <3>3. /\ item' \in [Deliveries -> [BundleMetrics -> ItemRow]]
          /\ \A f \in Deliveries \ {d} : item'[f] = item[f]
          /\ \A m \in BundleMetrics : item'[d][m] = item[d][m] \/ item[d][m].status = "reserved"
      <4> DEFINE Row(m) == IF item[d][m].status = "reserved"
                           THEN WithStatus(item[d][m], "released") ELSE item[d][m]
      <4>1. "released" \in Status
        BY DEF Status, Settled
      <4>2. \A m \in BundleMetrics : /\ Row(m) \in ItemRow
                                     /\ item[d][m].status = "reserved" \/ Row(m) = item[d][m]
        BY <1>0, <4>1, ItemChanges
      <4>3. item' = [item EXCEPT ![d] = [m \in BundleMetrics |-> Row(m)]]
        BY <3>1 DEF ReleaseItems, WithStatus
      <4> HIDE DEF Row
      <4> QED BY <1>0, <4>2, <4>3
    <3>4. RowsTyped'
      BY <1>0, <3>1, <3>2, <3>3 DEF RowsTyped
    <3> QED BY <2>1, <3>1, <3>2, <3>3, <3>4, RowsKept
  <2>2. CASE bundle[d].status # "reserved"
    <3>1. UNCHANGED <<now, bundle, item, single, charges>>
      BY <1>9, <2>2 DEF ReleaseBundle
    <3>2. RowsTyped'
      BY <1>0, <3>1 DEF RowsTyped
    <3> QED BY <3>1, <3>2, RowsKept
  <2> QED BY <2>1, <2>2
<1>10. ASSUME NEW d \in Deliveries, RenewBundle(d)
       PROVE  Goal
  <2>1. /\ bundle[d].status = "reserved" /\ bundle' = [bundle EXCEPT ![d].expires = now + RenewTtl]
        /\ item' = RenewItems(d) /\ UNCHANGED <<now, single, charges>>
    BY <1>10 DEF RenewBundle
  <2>2. /\ bundle' \in [Deliveries -> BundleRow] /\ bundle'[d].status = "reserved"
        /\ bundle'[d].expires = now + RenewTtl
        /\ \A f \in Deliveries \ {d} : bundle'[f] = bundle[f]
    BY <1>0, <2>1 DEF BundleRow
  <2>3. /\ item' \in [Deliveries -> [BundleMetrics -> ItemRow]]
        /\ \A f \in Deliveries \ {d} : item'[f] = item[f]
        /\ \A m \in BundleMetrics :
             /\ item[d][m].status # "reserved" => item'[d][m] = item[d][m]
             /\ item[d][m].status = "reserved" =>
                  item'[d][m].status = "reserved" /\ item'[d][m].expires = now + RenewTtl
    <3> DEFINE Row(m) == IF item[d][m].status = "reserved"
                         THEN WithExpiry(item[d][m], now + RenewTtl) ELSE item[d][m]
    <3>1. now + RenewTtl \in Nat /\ "reserved" \in Status
      BY <1>0 DEF Status
    <3>2. \A m \in BundleMetrics :
            /\ Row(m) \in ItemRow
            /\ item[d][m].status # "reserved" => Row(m) = item[d][m]
            /\ item[d][m].status = "reserved" =>
                 Row(m).status = "reserved" /\ Row(m).expires = now + RenewTtl
      BY <1>0, <3>1, ItemChanges
    <3>3. item' = [item EXCEPT ![d] = [m \in BundleMetrics |-> Row(m)]]
      BY <2>1 DEF RenewItems, WithExpiry
    <3> HIDE DEF Row
    <3> QED BY <1>0, <3>2, <3>3
  <2>4. RowsTyped'
    BY <1>0, <2>1, <2>2, <2>3 DEF RowsTyped
  <2> QED BY <2>1, <2>2, <2>3, <2>4, RowsKept
(* Sweeps.                                                                 *)
<1>11. ASSUME ExpireStaleReservations
       PROVE  Goal
  <2>1. /\ bundle' = [d \in Deliveries |-> ExpireStale(bundle[d])]
        /\ item' = [d \in Deliveries |-> [m \in BundleMetrics |-> ExpireStale(item[d][m])]]
        /\ single' = [r \in Singles |-> ExpireStale(single[r])] /\ UNCHANGED <<now, charges>>
    BY <1>11 DEF ExpireStaleReservations
  <2>2. RowsTyped'
    BY <1>0, <2>1, ExpireStaleKeeps DEF RowsTyped
  <2>3. ASSUME NEW d \in Deliveries, ~Restarts, bundle'[d] = bundle[d], bundle[d].status = "reserved",
               NEW m \in BundleMetrics
        PROVE  item'[d][m] = item[d][m]
    <3>1. item[d][m].expires = bundle[d].expires /\ ~Stale(bundle[d])
      BY <1>0, <2>1, <2>3, ExpireStaleKeeps DEF LedgerInv, ReservedBundleIsWhole
    <3>2. ~Stale(item[d][m])
      BY <2>3, <3>1 DEF Stale
    <3> QED BY <1>0, <2>1, <3>2, ExpireStaleKeeps
  <2>4. \A d \in Deliveries, m \in BundleMetrics :
          item'[d][m] = item[d][m] \/ item[d][m].status = "reserved"
    BY <1>0, <2>1, ExpireStaleKeeps
  <2>5. \A d \in Deliveries :
          bundle'[d] = bundle[d] \/ (bundle[d].status = "reserved" /\ bundle'[d].status = "expired")
    BY <1>0, <2>1, ExpireStaleKeeps
  <2>6. \A r \in Singles : single[r].status \in Settled => single'[r] = single[r]
    BY <1>0, <2>1, ExpireStaleKeeps DEF Settled
  <2> QED BY <2>1, <2>2, <2>3, <2>4, <2>5, <2>6, RowsKept
<1>12. ASSUME RecoverAfterRestart
       PROVE  Goal
  <2>1. /\ Restarts /\ UNCHANGED <<now, bundle, charges>>
        /\ item' = [d \in Deliveries |-> [m \in BundleMetrics |-> ExpireStale(item[d][m])]]
        /\ single' = [r \in Singles |-> ExpireStale(single[r])]
    BY <1>12 DEF RecoverAfterRestart
  <2>2. RowsTyped'
    BY <1>0, <2>1, ExpireStaleKeeps DEF RowsTyped
  <2>3. \A d \in Deliveries, m \in BundleMetrics :
          item'[d][m] = item[d][m] \/ item[d][m].status = "reserved"
    BY <1>0, <2>1, ExpireStaleKeeps
  <2>4. \A r \in Singles : single[r].status \in Settled => single'[r] = single[r]
    BY <1>0, <2>1, ExpireStaleKeeps DEF Settled
  <2> QED BY <2>1, <2>2, <2>3, <2>4, RowsKept
(* The clock, limits, and steps that change nothing.                       *)
<1>13. ASSUME now' \in Nat, UNCHANGED <<bundle, item, single, charges>>
       PROVE  Goal
  <2>1. RowsTyped'
    BY <1>0, <1>13 DEF RowsTyped
  <2> QED BY <1>13, <2>1, RowsKept
<1>14. ASSUME Tick
       PROVE  Goal
  BY <1>0, <1>13, <1>14 DEF Tick
<1>15. ASSUME NEW m \in Metrics, NEW l \in Limits, NEW w \in Windows, NEW r, SetLimit(m, l, w, r)
       PROVE  Goal
  BY <1>0, <1>13, <1>15 DEF SetLimit
<1>16. ASSUME UNCHANGED vars
       PROVE  Goal
  BY <1>0, <1>13, <1>16 DEF vars
<1> HIDE DEF Goal
<1>17. ASSUME Next
       PROVE  Goal
  <2>1. CASE \E M \in {{m} : m \in Metrics} \cup {Metrics} : GetUsage(M)
    BY <1>2, <2>1
  <2>2. CASE \E m \in Metrics, l \in Limits, w \in Windows, r \in {now + 1, Never} :
               SetLimit(m, l, w, r)
    BY <1>15, <2>2
  <2>3. CASE \E r \in Singles : \/ \E m \in Other, a \in Amounts : Reserve(r, m, a)
                                \/ \E a \in Amounts : Commit(r, a)
                                \/ Release(r)
    BY <1>4, <1>5, <1>6, <2>3
  <2>4. CASE \E m \in Other, a \in Amounts :
               DirectConsume(m, a) \/ DecrementUsage(m, a) \/ SetBaselineUsage(m, a)
    BY <1>3, <2>4
  <2>5. CASE \E d \in Deliveries :
               \/ \E t \in Amounts, e \in Estimates : ReserveBundle(d, 1, t, e)
               \/ \E t \in Amounts : CommitBundle(d, t)
               \/ ReleaseBundle(d)
               \/ RenewBundle(d)
    BY <1>7, <1>8, <1>9, <1>10, <2>5
  <2> QED BY <1>11, <1>12, <1>14, <1>17, <2>1, <2>2, <2>3, <2>4, <2>5 DEF Next
<1> QED BY <1>16, <1>17 DEF Goal

-----------------------------------------------------------------------------
(* However reservations, commits, releases, renewals, sweeps, window       *)
(* resets and changes of limits follow one another (quota-ledger-repo.ts), *)
(* a delivery is added to the usage once if its bundle is committed and    *)
(* never otherwise; a settled bundle or reservation never changes again;   *)
(* and a reserved bundle has all its reservations where the sweep of a     *)
(* server start (recoverAfterRestart), which forgets the bundles, does not *)
(* run.                                                                    *)
THEOREM LedgerKeepsItsWord ==
  LedgerAssumption =>
    (Spec => []ChargedOnce /\ [][SettledForGood]_vars /\ [](Restarts \/ ReservedBundleIsWhole))
<1> SUFFICES ASSUME LedgerAssumption
             PROVE  Spec => /\ []ChargedOnce /\ [][SettledForGood]_vars
                            /\ [](Restarts \/ ReservedBundleIsWhole)
  OBVIOUS
<1>1. Init => LedgerInv
  BY LedgerInvInit
<1>2. LedgerInv /\ [Next]_vars => LedgerInv' /\ SettledForGood
  BY StepFacts
<1>3. LedgerInv => ChargedOnce /\ (Restarts \/ ReservedBundleIsWhole)
  BY DEF LedgerInv
<1> QED BY <1>1, <1>2, <1>3, PTL DEF Spec
=============================================================================
