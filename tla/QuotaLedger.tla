----------------------------- MODULE QuotaLedger -----------------------------
(***************************************************************************)
(* The quota ledger of one user: limits with lazily reset windows, usage,  *)
(* two-phase reservations of one metric, and bundles that reserve several  *)
(* metrics for one delivery.  Every operation is one SQLite transaction of *)
(* synchronous code; one that throws is rolled back and changes nothing.   *)
(***************************************************************************)
EXTENDS Integers, FiniteSetsExt

CONSTANTS
  Deliveries,     \* ids for which bundles are reserved
  Singles,        \* ids of reservations outside bundles
  Hard, Tokens,   \* the metrics of a bundle: Tokens, and those in Hard
  Other,          \* the metrics that are reserved alone
  Amounts,        \* amounts asked for, and actual amounts
  Estimates,      \* values of isEstimateTokens, TRUE for the delivery gateway
  Limits,         \* values of limit_amount, negative for no limit
  Windows,        \* values of window_seconds or reset_interval, 0 for none
  BundleTtl, SingleTtl, RenewTtl,
  MaxTime,        \* bound: the clock
  MaxUsed,        \* bound: usage
  MaxSets,        \* bound: changes of a limit
  Restarts        \* does the sweep of a server start run?

BundleMetrics == Hard \cup {Tokens}
Metrics == BundleMetrics \cup Other

\* reset_at NULL, and a limit row that does not exist.
Never == MaxTime + 1000
Unset == -1000

(* What a run assumes of the constants.                                    *)
LedgerAssumption ==
  /\ Tokens \notin Hard
  /\ MaxTime \in Nat /\ MaxUsed \in Nat /\ MaxSets \in Nat
  /\ BundleTtl \in Nat \ {0} /\ SingleTtl \in Nat \ {0} /\ RenewTtl \in Nat \ {0}
  /\ Amounts \subseteq Nat
  /\ Estimates \subseteq BOOLEAN
  /\ Limits \subseteq Int
  /\ Windows \subseteq Nat
  /\ Restarts \in BOOLEAN

VARIABLES
  now,
  limit,     \* quota_limits.limit_amount
  resetAt,   \* quota_limits.reset_at
  window,    \* the interval that advances it
  used,      \* quota_usage.used_amount
  bundle,    \* quota_bundles by delivery
  item,      \* the quota_reservations of a bundle, by metric
  single,    \* the quota_reservations without bundle
  sets,      \* changes of limits so far
  charges,   \* observer: how often a delivery was added to the usage
  given,     \* observer: deliveries for which releaseBundle has returned
  debt       \* observer: a commit exhausted the token limit, and no window began since

vars == <<now, limit, resetAt, window, used, bundle, item, single, sets, charges, given,
          debt>>

Settled == {"committed", "released", "expired"}
Status == {"none", "reserved"} \cup Settled

NoItem == [status |-> "none", amount |-> 0, expires |-> 0]
NoBundle == [status |-> "none", estimate |-> FALSE, expires |-> 0]
NoSingle == [status |-> "none", metric |-> Tokens, amount |-> 0, expires |-> 0]

TypeOK ==
  /\ now \in 0..MaxTime
  /\ limit \in [Metrics -> Int]
  /\ resetAt \in [Metrics -> Nat]
  /\ window \in [Metrics -> Nat]
  /\ used \in [Metrics -> Nat]
  /\ bundle \in [Deliveries -> [status : Status, estimate : BOOLEAN, expires : Nat]]
  /\ item \in [Deliveries -> [BundleMetrics -> [status : Status, amount : Nat, expires : Nat]]]
  /\ single \in [Singles -> [status : Status, metric : Metrics, amount : Nat, expires : Nat]]
  /\ sets \in 0..MaxSets
  /\ charges \in [Deliveries -> Nat]
  /\ given \in SUBSET Deliveries
  /\ debt \in BOOLEAN

Init ==
  /\ now = 0
  /\ limit = [m \in Metrics |-> Unset]
  /\ resetAt = [m \in Metrics |-> Never]
  /\ window = [m \in Metrics |-> 0]
  /\ used = [m \in Metrics |-> 0]
  /\ bundle = [d \in Deliveries |-> NoBundle]
  /\ item = [d \in Deliveries |-> [m \in BundleMetrics |-> NoItem]]
  /\ single = [r \in Singles |-> NoSingle]
  /\ sets = 0
  /\ charges = [d \in Deliveries |-> 0]
  /\ given = {}
  /\ debt = FALSE

-----------------------------------------------------------------------------
(* The lazy window reset of getUsageInternal, for the metrics an operation
   reads; the definitions give the rows as the operation then sees them. *)

Due(M) == {m \in M : limit[m] # Unset /\ resetAt[m] <= now}

UsedAfter(M) == [m \in Metrics |-> IF m \in Due(M) THEN 0 ELSE used[m]]

Expire(row) == IF row.status = "reserved" THEN [row EXCEPT !.status = "expired"] ELSE row

\* Mutant: the bundles are left alone.
BundleAfterKept(M) == bundle

\* Every reserved bundle of the user, whatever the metric.
BundleAfter(M) == IF Due(M) = {} THEN bundle ELSE [d \in Deliveries |-> Expire(bundle[d])]

ItemAfter(M) ==
  [d \in Deliveries |-> [m \in BundleMetrics |->
     IF m \in Due(M) THEN Expire(item[d][m]) ELSE item[d][m]]]

SingleAfter(M) ==
  [r \in Singles |-> IF single[r].metric \in Due(M) THEN Expire(single[r]) ELSE single[r]]

\* advanceResetAt: the first instant of the cycle after now.
NextReset(m) ==
  IF window[m] = 0 THEN Never
  ELSE CHOOSE t \in (now + 1)..(now + window[m]) : (t - resetAt[m]) % window[m] = 0

ResetAtAfter(M) == [m \in Metrics |-> IF m \in Due(M) THEN NextReset(m) ELSE resetAt[m]]

\* Reservations that still hold capacity: those past their TTL do not.
Live(row) == row.status = "reserved" /\ row.expires > now

Reserved(m, D, items, singles) ==
  MapThenSumSet(LAMBDA d : items[d][m].amount,
                {d \in D : m \in BundleMetrics /\ Live(items[d][m])})
  + MapThenSumSet(LAMBDA r : singles[r].amount,
                  {r \in Singles : singles[r].metric = m /\ Live(singles[r])})

\* limit < 0 is unlimited, a limit that was never set is 0.
Fits(m, amount) ==
  LET l == IF limit[m] = Unset THEN 0 ELSE limit[m]
      u == UsedAfter({m})[m]
      r == Reserved(m, Deliveries, ItemAfter({m}), SingleAfter({m}))
  IN l < 0 \/ amount <= Max({0, l - u - r})

\* getUsage and getAllUsages.
GetUsage(M) ==
  /\ Due(M) # {}
  /\ used' = UsedAfter(M)
  /\ bundle' = BundleAfter(M)
  /\ item' = ItemAfter(M)
  /\ single' = SingleAfter(M)
  /\ resetAt' = ResetAtAfter(M)
  /\ UNCHANGED <<now, limit, window, sets, charges, given, debt>>

SetLimit(m, l, w, r) ==
  /\ sets < MaxSets
  /\ sets' = sets + 1
  /\ limit' = [limit EXCEPT ![m] = l]
  /\ window' = [window EXCEPT ![m] = w]
  /\ resetAt' = [resetAt EXCEPT ![m] = r]
  /\ debt' = (debt /\ m # Tokens)
  /\ UNCHANGED <<now, used, bundle, item, single, charges, given>>

-----------------------------------------------------------------------------
(* Reservations of one metric *)

Reserve(r, m, amount) ==
  /\ single[r].status = "none"
  /\ amount > 0
  /\ Fits(m, amount)
  /\ used' = UsedAfter({m})
  /\ bundle' = BundleAfter({m})
  /\ item' = ItemAfter({m})
  /\ resetAt' = ResetAtAfter({m})
  /\ single' = [SingleAfter({m}) EXCEPT
       ![r] = [status |-> "reserved", metric |-> m, amount |-> amount,
               expires |-> now + SingleTtl]]
  /\ UNCHANGED <<now, limit, window, sets, charges, given, debt>>

\* Usage is added first; the reset of the closing getUsageInternal may clear it.
Commit(r, actual) ==
  LET m == single[r].metric IN
  /\ Live(single[r])
  /\ used[m] + actual <= MaxUsed
  /\ used' = [UsedAfter({m}) EXCEPT ![m] = IF Due({m}) = {} THEN @ + actual ELSE 0]
  /\ bundle' = BundleAfter({m})
  /\ item' = ItemAfter({m})
  /\ resetAt' = ResetAtAfter({m})
  /\ single' = [SingleAfter({m}) EXCEPT ![r] = [single[r] EXCEPT !.status = "committed"]]
  /\ UNCHANGED <<now, limit, window, sets, charges, given, debt>>

\* Mutant: a release does not look at the status.
ReleaseAny(r) ==
  /\ single[r].status # "none"
  /\ single' = [single EXCEPT ![r].status = "released"]
  /\ UNCHANGED <<now, limit, resetAt, window, used, bundle, item, sets, charges, given, debt>>

Release(r) ==
  /\ single[r].status = "reserved"
  /\ single' = [single EXCEPT ![r].status = "released"]
  /\ UNCHANGED <<now, limit, resetAt, window, used, bundle, item, sets, charges, given, debt>>

\* directConsume, and adjustUsage with a positive delta.
DirectConsume(m, amount) ==
  /\ amount > 0
  /\ Fits(m, amount)
  /\ UsedAfter({m})[m] + amount <= MaxUsed
  /\ used' = [UsedAfter({m}) EXCEPT ![m] = @ + amount]
  /\ bundle' = BundleAfter({m})
  /\ item' = ItemAfter({m})
  /\ single' = SingleAfter({m})
  /\ resetAt' = ResetAtAfter({m})
  /\ UNCHANGED <<now, limit, window, sets, charges, given, debt>>

\* Mutant: the decrement is not clamped.
DecrementUsageBelowZero(m, amount) ==
  /\ used' = [UsedAfter({m}) EXCEPT ![m] = @ - amount]
  /\ bundle' = BundleAfter({m})
  /\ item' = ItemAfter({m})
  /\ single' = SingleAfter({m})
  /\ resetAt' = ResetAtAfter({m})
  /\ UNCHANGED <<now, limit, window, sets, charges, given, debt>>

\* adjustUsage with a negative delta.
DecrementUsage(m, amount) ==
  /\ used' = [UsedAfter({m}) EXCEPT ![m] = Max({0, @ - amount})]
  /\ bundle' = BundleAfter({m})
  /\ item' = ItemAfter({m})
  /\ single' = SingleAfter({m})
  /\ resetAt' = ResetAtAfter({m})
  /\ UNCHANGED <<now, limit, window, sets, charges, given, debt>>

\* The baseline is written before the reset is looked at.
SetBaselineUsage(m, amount) ==
  /\ used' = [UsedAfter({m}) EXCEPT ![m] = IF Due({m}) = {} THEN amount ELSE 0]
  /\ bundle' = BundleAfter({m})
  /\ item' = ItemAfter({m})
  /\ single' = SingleAfter({m})
  /\ resetAt' = ResetAtAfter({m})
  /\ UNCHANGED <<now, limit, window, sets, charges, given, debt>>

-----------------------------------------------------------------------------
(* Bundles *)

\* A delivery that has a bundle gets the same one back, or is refused when it
\* is released or expired: nothing changes.  The gateway asks for one turn and
\* one message.
ReserveBundle(d, hard, tokens, estimate) ==
  /\ bundle[d].status = "none"
  /\ hard > 0
  /\ \A m \in Hard : Fits(m, hard)
  /\ limit[Tokens] # Unset
  /\ Fits(Tokens, tokens)
  /\ used' = UsedAfter(BundleMetrics)
  /\ single' = SingleAfter(BundleMetrics)
  /\ resetAt' = ResetAtAfter(BundleMetrics)
  /\ bundle' = [BundleAfter(BundleMetrics) EXCEPT
       ![d] = [status |-> "reserved", estimate |-> estimate, expires |-> now + BundleTtl]]
  /\ item' = [ItemAfter(BundleMetrics) EXCEPT
       ![d] = [m \in BundleMetrics |->
                 [status |-> "reserved", amount |-> IF m = Tokens THEN tokens ELSE hard,
                  expires |-> now + BundleTtl]]]
  /\ UNCHANGED <<now, limit, window, sets, charges, given, debt>>

Actual(d, m, tokens) == IF m = Tokens THEN tokens ELSE item[d][m].amount

\* Mutant: a reservation is taken for the capacity it once held.
CommitFitsTrusting(d, tokens) == \A m \in BundleMetrics : limit[m] # Unset

\* The check against the limit as the rows stand, without a window reset; rows
\* whose bundle_id is NULL fail the comparison with this bundle's id.  A token
\* estimate may be exceeded, because the turn has already run.
CommitFits(d, tokens) ==
  \A m \in BundleMetrics :
    /\ limit[m] # Unset
    /\ \/ limit[m] < 0
       \/ m = Tokens /\ bundle[d].estimate
       \/ Actual(d, m, tokens) <=
            Max({0, limit[m] - used[m]
                    - MapThenSumSet(LAMBDA e : item[e][m].amount,
                                    {e \in Deliveries \ {d} : Live(item[e][m])})})

\* commitBundleInTransactionSync; a committed bundle is returned as it is.
CommitBundle(d, tokens) ==
  /\ bundle[d].status = "reserved"
  /\ CommitFits(d, tokens)
  /\ \A m \in BundleMetrics : item[d][m].status = "reserved"
  /\ \A m \in BundleMetrics : used[m] + Actual(d, m, tokens) <= MaxUsed
  /\ bundle' = [bundle EXCEPT ![d].status = "committed"]
  /\ item' = [item EXCEPT ![d] =
                [m \in BundleMetrics |-> [item[d][m] EXCEPT !.status = "committed"]]]
  /\ used' = [m \in Metrics |->
                IF m \in BundleMetrics THEN used[m] + Actual(d, m, tokens) ELSE used[m]]
  /\ charges' = [charges EXCEPT ![d] = @ + 1]
  /\ debt' = (limit[Tokens] >= 0 /\ used'[Tokens] >= limit[Tokens])
  /\ UNCHANGED <<now, limit, resetAt, window, single, sets, given>>

ReleaseItems(d) ==
  [item EXCEPT ![d] = [m \in BundleMetrics |->
     IF item[d][m].status = "reserved" THEN [item[d][m] EXCEPT !.status = "released"]
     ELSE item[d][m]]]

\* Mutant: a committed bundle is released.
ReleaseBundleAny(d) ==
  /\ bundle[d].status # "none"
  /\ given' = given \cup {d}
  /\ bundle' = [bundle EXCEPT ![d].status = "released"]
  /\ item' = ReleaseItems(d)
  /\ UNCHANGED <<now, limit, resetAt, window, used, single, sets, charges, debt>>

\* releaseBundleInTransactionSync; a settled bundle is returned as it is.
ReleaseBundle(d) ==
  /\ bundle[d].status # "none"
  /\ given' = given \cup {d}
  /\ IF bundle[d].status = "reserved"
     THEN /\ bundle' = [bundle EXCEPT ![d].status = "released"]
          /\ item' = ReleaseItems(d)
     ELSE UNCHANGED <<bundle, item>>
  /\ UNCHANGED <<now, limit, resetAt, window, used, single, sets, charges, debt>>

RenewItems(d) ==
  [item EXCEPT ![d] = [m \in BundleMetrics |->
     IF item[d][m].status = "reserved" THEN [item[d][m] EXCEPT !.expires = now + RenewTtl]
     ELSE item[d][m]]]

\* Mutant: an expired bundle is renewed.
RenewBundleExpired(d) ==
  /\ bundle[d].status \in {"reserved", "expired"}
  /\ bundle' = [bundle EXCEPT ![d] = [@ EXCEPT !.status = "reserved", !.expires = now + RenewTtl]]
  /\ item' = RenewItems(d)
  /\ UNCHANGED <<now, limit, resetAt, window, used, single, sets, charges, given, debt>>

\* Also a bundle past its TTL, as long as nothing has marked it expired.
RenewBundle(d) ==
  /\ bundle[d].status = "reserved"
  /\ bundle' = [bundle EXCEPT ![d].expires = now + RenewTtl]
  /\ item' = RenewItems(d)
  /\ UNCHANGED <<now, limit, resetAt, window, used, single, sets, charges, given, debt>>

Stale(row) == row.status = "reserved" /\ row.expires <= now

ExpireStale(row) == IF Stale(row) THEN [row EXCEPT !.status = "expired"] ELSE row

ExpireStaleReservations ==
  /\ \/ \E d \in Deliveries, m \in BundleMetrics : Stale(item[d][m])
     \/ \E r \in Singles : Stale(single[r])
  /\ bundle' = [d \in Deliveries |-> ExpireStale(bundle[d])]
  /\ item' = [d \in Deliveries |-> [m \in BundleMetrics |-> ExpireStale(item[d][m])]]
  /\ single' = [r \in Singles |-> ExpireStale(single[r])]
  /\ UNCHANGED <<now, limit, resetAt, window, used, sets, charges, given, debt>>

\* recoverAfterRestart of the operations storage, at every start of the server
\* and of the task worker: the reservations, and not the bundles.
RecoverAfterRestart ==
  /\ Restarts
  /\ item' = [d \in Deliveries |-> [m \in BundleMetrics |-> ExpireStale(item[d][m])]]
  /\ single' = [r \in Singles |-> ExpireStale(single[r])]
  /\ UNCHANGED <<now, limit, resetAt, window, used, bundle, sets, charges, given, debt>>

\* Does the window of the metric begin anew at the instant t?
WindowStarts(m, t) ==
  \/ resetAt[m] = t
  \/ resetAt[m] < t /\ window[m] > 0 /\ (t - resetAt[m]) % window[m] = 0

Tick ==
  /\ now < MaxTime
  /\ now' = now + 1
  /\ debt' = (debt /\ ~WindowStarts(Tokens, now'))
  /\ UNCHANGED <<limit, resetAt, window, used, bundle, item, single, sets, charges, given>>

Next ==
  \/ Tick
  \/ ExpireStaleReservations
  \/ RecoverAfterRestart
  \/ \E M \in {{m} : m \in Metrics} \cup {Metrics} : GetUsage(M)
  \/ \E m \in Metrics, l \in Limits, w \in Windows, r \in {now + 1, Never} : SetLimit(m, l, w, r)
  \/ \E r \in Singles :
       \/ \E m \in Other, a \in Amounts : Reserve(r, m, a)
       \/ \E a \in Amounts : Commit(r, a)
       \/ Release(r)
  \/ \E m \in Other, a \in Amounts :
       DirectConsume(m, a) \/ DecrementUsage(m, a) \/ SetBaselineUsage(m, a)
  \/ \E d \in Deliveries :
       \/ \E t \in Amounts, e \in Estimates : ReserveBundle(d, 1, t, e)
       \/ \E t \in Amounts : CommitBundle(d, t)
       \/ ReleaseBundle(d)
       \/ RenewBundle(d)

Spec == Init /\ [][Next]_vars

-----------------------------------------------------------------------------
(* Properties *)

\* A reserved bundle has all its reservations, reserved and with its own expiry,
\* after any resets, sweeps and renewals: the "Database corruption: expected
\* quota_reservations count mismatch" of the commit cannot be reached.  It can
\* be once the sweep of a server start has run.
ReservedBundleIsWhole ==
  \A d \in Deliveries :
    bundle[d].status = "reserved" =>
      \A m \in BundleMetrics :
        item[d][m].status = "reserved" /\ item[d][m].expires = bundle[d].expires

\* A delivery is added to the usage once if its bundle is committed, and never
\* otherwise, however reservation, commit, release, expiry and reset follow
\* each other.
ChargedOnce ==
  \A d \in Deliveries : charges[d] = IF bundle[d].status = "committed" THEN 1 ELSE 0

\* No commit takes a turn or message count above the limit, although a bundle
\* past its TTL no longer holds the capacity it is committed against.
ChargeWithinLimit == \A m \in Hard : used'[m] > used[m] /\ limit[m] >= 0 => used'[m] <= limit[m]

\* Settled rows never change again: no late renewal, release, sweep or reset
\* brings a bundle or a reservation back.
SettledForGood ==
  /\ \A d \in Deliveries : bundle[d].status \in Settled => bundle'[d] = bundle[d]
  /\ \A d \in Deliveries, m \in BundleMetrics :
       item[d][m].status \in Settled => item'[d][m] = item[d][m]
  /\ \A r \in Singles : single[r].status \in Settled => single'[r] = single[r]

\* "Expire linked quota bundles": a bundle runs out with its TTL or with the
\* window of a metric it reserves, not with that of another metric.
ExpiresWithItsMetrics ==
  [][\A d \in Deliveries :
       bundle[d].status = "reserved" /\ bundle'[d].status = "expired"
         => Stale(bundle[d]) \/ Due(BundleMetrics) # {}]_vars

\* README: reservations are released on turn cancellation.  Once releaseBundle
\* has returned for a delivery, none of its reservations holds capacity.
ReleasedHoldsNothing ==
  \A d \in given, m \in BundleMetrics : ~Live(item[d][m])

\* "future turns will be blocked at preflight claim time because remaining will
\* be 0": tokens that exhaust the limit block further reservations until the
\* window begins anew.
DebtBlocks ==
  [][\A d \in Deliveries :
       bundle[d].status = "none" /\ bundle'[d].status = "reserved" /\ debt
         => item'[d][Tokens].amount = 0]_vars

=============================================================================
